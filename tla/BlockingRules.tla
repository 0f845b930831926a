---------------------------- MODULE BlockingRules ----------------------------
(***************************************************************************)
(* The declarativeNetRequest rules the worker of the extension builds from *)
(* stored entries, and what the browser makes of them.  An entry is a      *)
(* domain or a leading-* wildcard; which pages (main-frame URLs) an entry  *)
(* covers is a parameter.  A list of rules is the set of its rules: ids    *)
(* only number them.                                                       *)
(***************************************************************************)
EXTENDS Integers

CONSTANTS
  Pages,          \* main-frame URLs
  ExtensionPages, \* the popup and the blocked page among them
  Entries,        \* what the lists may hold
  Accepted,       \* the entries isValidStoredDomain accepts
  Wildcards,      \* the entries that start with *
  Covers,         \* Covers[e]: the pages of the domain e, or with the word e
  WwwCovers       \* WwwCovers[e]: the pages of www.e

ASSUME BlockingRulesAssumption ==
  /\ ExtensionPages \subseteq Pages /\ Accepted \subseteq Entries
  /\ Covers \in [Entries -> SUBSET Pages]
  /\ WwwCovers \in [Entries -> SUBSET Pages]
  /\ \A e \in Entries : WwwCovers[e] \subseteq Covers[e]

Rule(priority, action, pages) ==
  [priority |-> priority, action |-> action, pages |-> pages]

IsValidStoredDomain(e) == e \in Accepted

(* the urlFilter of an allow rule and the regexFilter of a redirect rule    *)
Wildcard(e, priority, action) == {Rule(priority, action, Covers[e])}
Exact(e, priority, action) ==
  {Rule(priority, action, Covers[e]), Rule(priority, action, WwwCovers[e])}

AddDomainRules(e, priority, action) ==
  IF ~IsValidStoredDomain(e) THEN {}
  ELSE IF e \in Wildcards THEN Wildcard(e, priority, action)
  ELSE Exact(e, priority, action)

RulesOf(list, priority, action) ==
  UNION {AddDomainRules(e, priority, action) : e \in list}

AllowRules(whitelist, temporaryAllows) ==
  RulesOf(whitelist, 2, "allow") \cup RulesOf(temporaryAllows, 3, "allow")

BuildRules(blocklist, whitelist, temporaryAllows) ==
  AllowRules(whitelist, temporaryAllows) \cup RulesOf(blocklist, 1, "redirect")

BuildLockdownRules(whitelist, temporaryAllows) ==
  AllowRules(whitelist, temporaryAllows)
    \cup {Rule(2, "allow", ExtensionPages), Rule(1, "redirect", Pages)}

(* The browser redirects a page if some redirect rule matches it with a     *)
(* higher priority than every allow rule that does.                         *)
Blocked(rules, page) ==
  \E r \in rules :
    /\ r.action = "redirect" /\ page \in r.pages
    /\ \A a \in rules :
         a.action = "allow" /\ page \in a.pages => a.priority < r.priority

(* What the lists mean to the user who wrote them.                          *)
CoveredBy(list, page) == \E e \in list \cap Accepted : page \in Covers[e]
Wanted(mode, blocklist, whitelist, temporaryAllows, page) ==
  /\ ~CoveredBy(whitelist, page) /\ ~CoveredBy(temporaryAllows, page)
  /\ IF mode = "lockdown" THEN page \notin ExtensionPages
                          ELSE CoveredBy(blocklist, page)
=============================================================================

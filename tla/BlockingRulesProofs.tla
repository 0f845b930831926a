------------------------ MODULE BlockingRulesProofs ------------------------
(***************************************************************************)
(* The rules built from the lists do what the lists say, for all lists,    *)
(* whatever pages their entries cover.                                     *)
(***************************************************************************)
EXTENDS BlockingRules, TLAPS

(* The rules of a list have its priority and its action, and together match *)
(* the pages the accepted entries of the list cover.                        *)
LEMMA RulesOfList ==
  ASSUME NEW list \in SUBSET Entries, NEW priority, NEW action,
         NEW r \in RulesOf(list, priority, action)
  PROVE  /\ r.priority = priority /\ r.action = action
         /\ \A p \in r.pages : CoveredBy(list, p)
<1>1. PICK e \in list : r \in AddDomainRules(e, priority, action)
  BY DEF RulesOf
<1>2. e \in Accepted
  BY <1>1 DEF AddDomainRules, IsValidStoredDomain
<1>3. r = Rule(priority, action, Covers[e]) \/ r = Rule(priority, action, WwwCovers[e])
  BY <1>1, <1>2 DEF AddDomainRules, IsValidStoredDomain, Wildcard, Exact
<1>4. r.priority = priority /\ r.action = action /\ r.pages \subseteq Covers[e]
  BY <1>3, BlockingRulesAssumption DEF Rule
<1> QED
  BY <1>2, <1>4 DEF CoveredBy

(* A page a list covers has a rule of its kind among the rules of the      *)
(* list.                                                                   *)
LEMMA ListOfRules ==
  ASSUME NEW list \in SUBSET Entries, NEW priority, NEW action, NEW p,
         CoveredBy(list, p)
  PROVE  \E r \in RulesOf(list, priority, action) :
           r.priority = priority /\ r.action = action /\ p \in r.pages
<1>1. PICK e \in list \cap Accepted : p \in Covers[e]
  BY DEF CoveredBy
<1> DEFINE r == Rule(priority, action, Covers[e])
<1>2. r \in AddDomainRules(e, priority, action)
  BY <1>1 DEF AddDomainRules, IsValidStoredDomain, Wildcard, Exact
<1>3. r \in RulesOf(list, priority, action)
  BY <1>1, <1>2 DEF RulesOf
<1>4. r.priority = priority /\ r.action = action /\ r.pages = Covers[e]
  BY DEF Rule
<1> QED
  BY <1>1, <1>3, <1>4

(* Allow rules outrank every redirect rule and match what is allowed.       *)
LEMMA AllowsOutrank ==
  ASSUME NEW white \in SUBSET Entries, NEW allows \in SUBSET Entries
  PROVE  /\ \A r \in AllowRules(white, allows) :
              /\ r.action = "allow" /\ r.priority \in {2, 3}
              /\ \A p \in r.pages : CoveredBy(white, p) \/ CoveredBy(allows, p)
         /\ \A p : CoveredBy(white, p) \/ CoveredBy(allows, p) =>
              \E r \in AllowRules(white, allows) : p \in r.pages
<1>1. \A r \in RulesOf(white, 2, "allow") :
        r.action = "allow" /\ r.priority = 2 /\ \A p \in r.pages : CoveredBy(white, p)
  BY RulesOfList
<1>2. \A r \in RulesOf(allows, 3, "allow") :
        r.action = "allow" /\ r.priority = 3 /\ \A p \in r.pages : CoveredBy(allows, p)
  BY RulesOfList
<1>3. \A p : CoveredBy(white, p) => \E r \in RulesOf(white, 2, "allow") : p \in r.pages
  BY ListOfRules
<1>4. \A p : CoveredBy(allows, p) => \E r \in RulesOf(allows, 3, "allow") : p \in r.pages
  BY ListOfRules
<1> QED
  BY <1>1, <1>2, <1>3, <1>4 DEF AllowRules

(* A set of rules made of such allow rules and of redirect rules of the     *)
(* lowest priority blocks what is redirected and not allowed.               *)
LEMMA BlockedIs ==
  ASSUME NEW allow, NEW redirect, NEW p,
         \A r \in allow : r.action = "allow" /\ r.priority \in {2, 3},
         \A r \in redirect : r.action = "redirect" /\ r.priority = 1
  PROVE  Blocked(allow \cup redirect, p) <=>
           /\ \E r \in redirect : p \in r.pages
           /\ \A a \in allow : p \notin a.pages
<1>1. "allow" # "redirect" /\ ~(2 < 1) /\ ~(3 < 1)
  OBVIOUS
<1> QED
  BY <1>1 DEF Blocked

(* In a session of the blocklist a page is blocked exactly if the blocklist *)
(* covers it and neither the allowlist nor a temporary allow does: the      *)
(* priorities of buildRules put every allow above every block.              *)
THEOREM BlocklistRulesMatch ==
  ASSUME NEW block \in SUBSET Entries, NEW white \in SUBSET Entries,
         NEW allows \in SUBSET Entries, NEW p \in Pages
  PROVE  Blocked(BuildRules(block, white, allows), p) <=>
           Wanted("blocklist", block, white, allows, p)
<1> DEFINE redirect == RulesOf(block, 1, "redirect")
           allow    == AllowRules(white, allows)
<1>1. \A r \in redirect :
        /\ r.action = "redirect" /\ r.priority = 1
        /\ \A q \in r.pages : CoveredBy(block, q)
  BY RulesOfList
<1>2. CoveredBy(block, p) => \E r \in redirect : p \in r.pages
  BY ListOfRules
<1>3. Blocked(allow \cup redirect, p) <=>
        /\ \E r \in redirect : p \in r.pages
        /\ \A a \in allow : p \notin a.pages
  <2>1. \A r \in allow :
          r.action = "allow" /\ r.priority \in {2, 3}
    BY AllowsOutrank
  <2> HIDE DEF allow, redirect
  <2> QED BY <1>1, <2>1, BlockedIs
<1>4. (\E r \in redirect : p \in r.pages) <=> CoveredBy(block, p)
  BY <1>1, <1>2
<1>5. (\A a \in allow : p \notin a.pages)
        <=> ~CoveredBy(white, p) /\ ~CoveredBy(allows, p)
  BY AllowsOutrank
<1> QED
  BY <1>3, <1>4, <1>5 DEF BuildRules, Wanted

(* In a lockdown every page is blocked but the extension's own, the allowed *)
(* ones and the temporarily allowed ones.                                   *)
THEOREM LockdownRulesMatch ==
  ASSUME NEW block, NEW white \in SUBSET Entries,
         NEW allows \in SUBSET Entries, NEW p \in Pages
  PROVE  Blocked(BuildLockdownRules(white, allows), p) <=>
           Wanted("lockdown", block, white, allows, p)
<1> DEFINE own      == Rule(2, "allow", ExtensionPages)
           all      == Rule(1, "redirect", Pages)
           allow    == AllowRules(white, allows) \cup {own}
           redirect == {all}
<1>1. own.action = "allow" /\ own.priority = 2 /\ own.pages = ExtensionPages
  BY DEF Rule
<1>2. all.action = "redirect" /\ all.priority = 1 /\ all.pages = Pages
  BY DEF Rule
<1>3. BuildLockdownRules(white, allows) = allow \cup redirect
  BY DEF BuildLockdownRules
<1> HIDE DEF own, all
<1>4. \A r \in allow : r.action = "allow" /\ r.priority \in {2, 3}
  BY <1>1, AllowsOutrank
<1>5. \A r \in redirect : r.action = "redirect" /\ r.priority = 1
  BY <1>2
<1>6. Blocked(allow \cup redirect, p) <=>
        /\ \E r \in redirect : p \in r.pages
        /\ \A a \in allow : p \notin a.pages
  <2> HIDE DEF allow, redirect
  <2> QED BY <1>4, <1>5, BlockedIs
<1>7. (\A a \in AllowRules(white, allows) : p \notin a.pages)
        <=> ~CoveredBy(white, p) /\ ~CoveredBy(allows, p)
  BY AllowsOutrank
<1>8. (\A a \in allow : p \notin a.pages) <=>
        p \notin ExtensionPages /\ ~CoveredBy(white, p) /\ ~CoveredBy(allows, p)
  BY <1>1, <1>7
<1> QED
  BY <1>2, <1>3, <1>6, <1>8 DEF Wanted
=============================================================================

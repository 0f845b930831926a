----------------------------- MODULE MCDesktopApp -----------------------------
(* A small instance of DesktopApp                                            *)
EXTENDS DesktopApp

(* a slot that only meets itself                                            *)
Alone == [s \in Slots |-> {s}]
=============================================================================

--------------------------- MODULE MCSessionCore ---------------------------
(* Small instances of SessionCore for TLC. *)
EXTENDS SessionRefinement

CONSTANTS r1, r2, r3, s1, s2

\* Two sessions of one identity: s1 sends r1 and r3, s2 sends r2.
TwoSessions == [r \in Req |-> IF r = r2 THEN s2 ELSE s1]

\* r2 may only be validated; the others take the default policy.
MixedPolicy == [r \in Req |-> IF r = r2 THEN "validation" ELSE "default"]

\* Every request takes the default policy: no dialog is refused.
DefaultPolicy == [r \in Req |-> "default"]
=============================================================================

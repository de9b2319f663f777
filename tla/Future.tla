------------------------------- MODULE Future -------------------------------
(***************************************************************************)
(* What a promise is to those who share it (the Promise interface of       *)
(* volume/promise.go): it is pending until it gets an outcome, a volume or *)
(* an error, which then never changes.                                     *)
(***************************************************************************)
CONSTANTS Outcomes, Pending

VARIABLE outcome

Init == outcome = Pending

Settle(o) == /\ outcome = Pending
             /\ outcome' = o

Next == \E o \in Outcomes : Settle(o)

Spec == Init /\ [][Next]_outcome
=============================================================================

--------------------------- MODULE MCControlPlane ---------------------------
(* Instances of ControlPlane for TLC: a1 brings A, a2 replaces it by B.    *)
EXTENDS ControlPlane, TLC

CONSTANTS v1, a1, a2, A, B, d1

OneVersion == [a \in Apply |-> v1]
Models     == [a \in Apply |-> IF a = a1 THEN {A} ELSE {B}]
Deletes    == [d \in Delete |-> v1]
=============================================================================

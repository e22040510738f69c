------------------------------ MODULE MCSchema ------------------------------
(***************************************************************************)
(* An instance of Schema for TLC with two models.                          *)
(***************************************************************************)
EXTENDS Schema

CONSTANTS A, B

F(type, optional, default, unique) ==
  [type |-> type, optional |-> optional, default |-> default, unique |-> unique]

\* A changes in every way and may refer to B.
Fields == A :> {F("text", FALSE, FALSE, FALSE), F("text", FALSE, TRUE, TRUE),
                F("double", TRUE, FALSE, FALSE), F(B, TRUE, FALSE, FALSE)}
       @@ B :> {F("text", TRUE, FALSE, FALSE)}
=============================================================================

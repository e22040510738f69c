------------------------------ MODULE MCOutbox ------------------------------
(* Instances of Outbox for TLC: i1 runs the user's version v1, i2 the      *)
(* builtin version, which is never removed and has one worker.             *)
EXTENDS Outbox, TLC

CONSTANTS v1, builtin, i1, i2, r1, r2, e1, e2

EachIdOf == i1 :> v1 @@ i2 :> builtin
TwoWorkers == i1 :> 2 @@ i2 :> 1
=============================================================================

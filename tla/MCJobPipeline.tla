--------------------------- MODULE MCJobPipeline ---------------------------
(* Instances of JobPipeline for TLC.                                       *)
EXTENDS JobPipeline, TLC

CONSTANTS v1, v2, i1, i2, r1, r2

\* The version each instance runs, and how many workers it has.
OneIdOf  == i1 :> v1
SameIdOf == i1 :> v1 @@ i2 :> v1
EachIdOf == i1 :> v1 @@ i2 :> v2
OneWorker  == [i \in Instance |-> 1]
TwoWorkers == [i \in Instance |-> 2]

SymRequests == Permutations(Request)
=============================================================================

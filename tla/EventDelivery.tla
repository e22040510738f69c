--------------------------- MODULE EventDelivery ---------------------------
(***************************************************************************)
(* What the event outbox promises, whatever carries it out: an event that  *)
(* a handler publishes is staged with the handler's transaction, becomes   *)
(* deliverable when that commits (all the events of a handler together, or *)
(* none of them), is sent only while it is deliverable, and is given up    *)
(* only after it was sent at least once.  This is the safety half of "at   *)
(* least once" (kafka.ts 92-97) with the atomicity that storing the event  *)
(* in the caller's transaction is for.                                     *)
(***************************************************************************)
EXTENDS Naturals

CONSTANT Event

VARIABLES status,  \* [Event -> {"none", "staged", "deliverable", "delivered"}]
          copies   \* [Event -> Nat]: how often the broker got the event

edVars == <<status, copies>>

Init == /\ status = [e \in Event |-> "none"]
        /\ copies = [e \in Event |-> 0]

\* The events in E, all of them in state s, move to state t.
Move(E, s, t) ==
  /\ \A e \in E : status[e] = s
  /\ status' = [e \in Event |-> IF e \in E THEN t ELSE status[e]]
  /\ UNCHANGED copies

Stage   == \E e \in Event : Move({e}, "none", "staged")
Commit  == \E E \in SUBSET Event : Move(E, "staged", "deliverable")
Discard == \E E \in SUBSET Event : Move(E, "staged", "none")
Send    == \E e \in Event : /\ status[e] = "deliverable"
                            /\ copies' = [copies EXCEPT ![e] = @ + 1]
                            /\ UNCHANGED status
Forget  == \E e \in Event : copies[e] > 0 /\ Move({e}, "deliverable", "delivered")

Next == Stage \/ Commit \/ Discard \/ Send \/ Forget

Spec == Init /\ [][Next]_edVars
=============================================================================

------------------------------ MODULE Recency ------------------------------
(***************************************************************************)
(* What the LRU list promises its users: a sequence of nodes, the most     *)
(* recently used first, that is pushed to in front and popped at the back  *)
(* or in front, and whose nodes can be used or taken out.                  *)
(***************************************************************************)
EXTENDS SequencesExt

CONSTANTS Nodes, Data

VARIABLES order,   \* the nodes
          holds,   \* node -> the datum it was pushed with
          result   \* what the last pop returned

vars == <<order, holds, result>>

Push(n, d) ==
    /\ n \notin ToSet(order)
    /\ order' = <<n>> \o order
    /\ holds' = [holds EXCEPT ![n] = d]
    /\ UNCHANGED result

\* holds may change for the nodes that leave.
Leaves(n) == \A m \in Nodes \ {n} : holds'[m] = holds[m]

Pop ==
    /\ order # <<>>
    /\ order' = Front(order) /\ result' = holds[Last(order)]
    /\ Leaves(Last(order))

PopTop ==
    /\ order # <<>>
    /\ order' = Tail(order) /\ result' = holds[Head(order)]
    /\ Leaves(Head(order))

Delete(i) ==
    /\ order' = RemoveAt(order, i)
    /\ Leaves(order[i])
    /\ UNCHANGED result

Use(i) ==
    /\ order' = <<order[i]>> \o RemoveAt(order, i)
    /\ UNCHANGED <<holds, result>>

Next ==
    \/ Pop \/ PopTop
    \/ \E i \in DOMAIN order : Delete(i) \/ Use(i)
    \/ \E n \in Nodes, d \in Data : Push(n, d)

Spec == order = <<>> /\ [][Next]_vars

=============================================================================

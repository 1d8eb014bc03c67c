----------------------------- MODULE SortedMap -----------------------------
(***************************************************************************)
(* What the write buffer's index promises: the value last inserted for     *)
(* each key, and the keys in order.                                        *)
(***************************************************************************)
EXTENDS Integers, FiniteSets

CONSTANTS Keys, MaxVer

VARIABLES map,     \* key -> version of its value
          order    \* the keys as the iterator meets them

vars == <<map, order>>

Init == map = <<>> /\ order = <<>>

\* The sequence has the keys of the map, each once and in order.
Lists(keys, m) ==
    /\ keys \in [1 .. Cardinality(DOMAIN m) -> DOMAIN m]
    /\ \A i, j \in DOMAIN keys : i < j => keys[i] < keys[j]

Sorted == Lists(order', map')

Insert(k) ==
    /\ map' = [j \in DOMAIN map \union {k} |->
                  IF j # k THEN map[j] ELSE IF k \in DOMAIN map THEN map[k] + 1 ELSE 1]
    /\ Sorted

Delete(k) ==
    /\ k \in DOMAIN map
    /\ map' = [j \in DOMAIN map \ {k} |-> map[j]]
    /\ Sorted

Clear == map' = <<>> /\ Sorted

Next == Clear \/ \E k \in Keys : Insert(k) \/ Delete(k)

Spec == Init /\ [][Next]_vars

=============================================================================

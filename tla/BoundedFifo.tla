---------------------------- MODULE BoundedFifo ----------------------------
(***************************************************************************)
(* What a ring promises its users: the items come out once each, in the    *)
(* order in which they went in, a batch stays together, and there are      *)
(* never more than Capacity of them inside.                                *)
(***************************************************************************)
EXTENDS Integers, Sequences

CONSTANTS Producers, Consumers, Capacity, Batches

VARIABLES q,     \* the items inside; <<p, k>> is the k-th item of producer p
          put,   \* producer -> how many items it has put in
          got    \* consumer -> the batch it took last

vars == <<q, put, got>>

Init ==
    /\ q = <<>>
    /\ put = [p \in Producers |-> 0]
    /\ got = [c \in Consumers |-> <<>>]

Enqueue(p, n) ==
    /\ Len(q) + n <= Capacity
    /\ q' = q \o [i \in 1 .. n |-> <<p, put[p] + i>>]
    /\ put' = [put EXCEPT ![p] = @ + n]
    /\ UNCHANGED got

Dequeue(c, n) ==
    /\ n <= Len(q)
    /\ got' = [got EXCEPT ![c] = SubSeq(q, 1, n)]
    /\ q' = SubSeq(q, n + 1, Len(q))
    /\ UNCHANGED put

Next ==
    \E n \in Batches :
        \/ \E p \in Producers : Enqueue(p, n)
        \/ \E c \in Consumers : Dequeue(c, n)

Spec == Init /\ [][Next]_vars

=============================================================================

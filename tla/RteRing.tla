------------------------------ MODULE RteRing ------------------------------
(***************************************************************************)
(* The lock-free ring through which threads hand each other requests       *)
(* (src/tools/rte_ring).  A producer reads the producer head and the       *)
(* consumer tail, reserves entries by moving the head (compare and set     *)
(* when there are several producers), copies its items entry by entry, and *)
(* moves the tail once those before it have moved theirs.  Consumers are   *)
(* the mirror image.  The indices run freely and are taken modulo the      *)
(* width of their type; they are masked to reach an entry.                 *)
(*                                                                         *)
(* One step per shared access.  A compare and set that fails is joined     *)
(* with the read that follows it, before which it has no effect.           *)
(***************************************************************************)
EXTENDS Integers, Sequences, FiniteSetsExt

CONSTANTS Producers, Consumers,
          RingTypes,  \* of enum ring_type: those a ring may be created with
          Size,       \* entries of the ring
          Width,      \* indices are modulo this: 2^32 in the code
          Start,      \* the indices of the empty ring the run starts with: 0,
                      \* or what they are after so many items
          Batches,    \* the counts callers ask for
          Quota,      \* bound: items of each producer
          Empty       \* an entry never written

ASSUME RingAssumption ==
    /\ IsFiniteSet(Producers) /\ IsFiniteSet(Consumers)
    /\ Producers # {} /\ Consumers # {}
    /\ RingTypes \subseteq {"SP_SC", "MP_SC", "MP_MC"}
    /\ Size \in Nat \ {0} /\ Width \in Nat \ {0}
    /\ Width % Size = 0
    /\ Start \in 0 .. Width - 1
    /\ Batches \subseteq 1 .. Size - 1 /\ Quota \in Nat
    \* A head that comes full circle between a read and its compare and set
    \* would go unnoticed; in the code that takes 2^32 enqueues in one call.
    /\ Quota * Cardinality(Producers) < Width

Capacity == Size - 1
Indices == 0 .. Width - 1

VARIABLES prod, cons,   \* head and tail of either side, and whether it is
                        \* used by a single thread
          ring,         \* the entries
          prd,          \* producer -> its call: pc, n, old (head), next entry
          csm,          \* consumer -> its call; ask is the count asked for,
                        \* counted whether it has counted the items first
          sent,         \* producer -> items reserved
          got           \* consumer -> the items copied by its last call

vars == <<prod, cons, ring, prd, csm, sent, got>>

SingleProd == prod.single
SingleCons == cons.single

\* The thread that has a side of the ring to itself.
TheOne(threads) == CHOOSE t \in threads : TRUE

Init ==
    /\ \E type \in RingTypes :
          /\ prod = [head |-> Start, tail |-> Start, single |-> type = "SP_SC"]
          /\ cons = [head |-> Start, tail |-> Start, single |-> type # "MP_MC"]
    /\ ring = [e \in 0 .. Size - 1 |-> Empty]
    /\ prd = [p \in Producers |-> [pc |-> "idle", n |-> 0, old |-> 0, i |-> 0]]
    /\ csm = [c \in Consumers |->
                [pc |-> "idle", n |-> 0, old |-> 0, i |-> 0,
                 ask |-> 0, counted |-> FALSE]]
    /\ sent = [p \in Producers |-> 0]
    /\ got = [c \in Consumers |-> <<>>]

\* The entry of the i-th item of a batch of n that starts at index old: the
\* copy goes straight on if the batch ends before the last entry, else it
\* continues at the first.
Entry(old, n, i) ==
    LET idx == old % Size IN
    IF idx + n < Size \/ i < Size - idx THEN idx + i ELSE i - (Size - idx)

\* free_entries and entries, unsigned differences.
Free(old) == (Capacity + cons.tail - old) % Width
Entries(old) == (prod.tail - old) % Width

-----------------------------------------------------------------------------
(* rte_ring_enqueue_bulk: all of the n items or none. *)

Idle(call) == [call EXCEPT !.pc = "idle", !.n = 0, !.old = 0, !.i = 0]

EnqCall(p, n) ==
    /\ prd[p].pc = "idle" /\ (SingleProd => p = TheOne(Producers))
    /\ sent[p] + n <= Quota
    /\ prd' = [prd EXCEPT ![p].pc = "room", ![p].n = n, ![p].old = prod.head]
    /\ UNCHANGED <<prod, cons, ring, csm, sent, got>>

EnqRoom(p) ==
    /\ prd[p].pc = "room"
    /\ prd[p].n <= Free(prd[p].old)
    /\ prd' = [prd EXCEPT ![p].pc = "move"]
    /\ UNCHANGED <<prod, cons, ring, csm, sent, got>>

\* The caller is told that nothing was put in; all of them try again.
EnqFull(p) ==
    /\ prd[p].pc = "room"
    /\ prd[p].n > Free(prd[p].old)
    /\ prd' = [prd EXCEPT ![p] = Idle(@)]
    /\ UNCHANGED <<prod, cons, ring, csm, sent, got>>

\* A fault: the head is not taken modulo its width.
EnqMoveUnmasked(p) ==
    /\ prd[p].pc = "move"
    /\ SingleProd \/ prod.head = prd[p].old
    /\ prod' = [prod EXCEPT !.head = prd[p].old + prd[p].n]
    /\ prd' = [prd EXCEPT ![p].pc = "copy"]
    /\ sent' = [sent EXCEPT ![p] = @ + prd[p].n]
    /\ UNCHANGED <<cons, ring, csm, got>>

EnqMove(p) ==
    /\ prd[p].pc = "move"
    /\ SingleProd \/ prod.head = prd[p].old
    /\ prod' = [prod EXCEPT !.head = (prd[p].old + prd[p].n) % Width]
    /\ prd' = [prd EXCEPT ![p].pc = "copy"]
    /\ sent' = [sent EXCEPT ![p] = @ + prd[p].n]
    /\ UNCHANGED <<cons, ring, csm, got>>

EnqRetry(p) ==
    /\ prd[p].pc = "move"
    /\ ~SingleProd /\ prod.head # prd[p].old
    /\ prd' = [prd EXCEPT ![p].pc = "room", ![p].old = prod.head]
    /\ UNCHANGED <<prod, cons, ring, csm, sent, got>>

EnqCopy(p) ==
    /\ prd[p].pc = "copy" /\ prd[p].i < prd[p].n
    /\ ring' = [ring EXCEPT ![Entry(prd[p].old, prd[p].n, prd[p].i)] =
                    <<p, sent[p] - prd[p].n + prd[p].i + 1>>]
    /\ prd' = [prd EXCEPT ![p].i = @ + 1]
    /\ UNCHANGED <<prod, cons, csm, sent, got>>

\* A fault: the tail is moved without a look at those before.
EnqDoneEarly(p) ==
    /\ prd[p].pc = "copy" /\ prd[p].i = prd[p].n
    /\ prod' = [prod EXCEPT !.tail = (prd[p].old + prd[p].n) % Width]
    /\ prd' = [prd EXCEPT ![p] = Idle(@)]
    /\ UNCHANGED <<cons, ring, csm, sent, got>>

\* A fault: it waits until the tail has reached the end of its own batch.
EnqDoneNever(p) ==
    /\ prd[p].pc = "copy" /\ prd[p].i = prd[p].n
    /\ SingleProd \/ prod.tail = (prd[p].old + prd[p].n) % Width
    /\ prod' = [prod EXCEPT !.tail = (prd[p].old + prd[p].n) % Width]
    /\ prd' = [prd EXCEPT ![p] = Idle(@)]
    /\ UNCHANGED <<cons, ring, csm, sent, got>>

\* update_tail: the batches become visible in the order of their entries.
EnqDone(p) ==
    /\ prd[p].pc = "copy" /\ prd[p].i = prd[p].n
    /\ SingleProd \/ prod.tail = prd[p].old
    /\ prod' = [prod EXCEPT !.tail = (prd[p].old + prd[p].n) % Width]
    /\ prd' = [prd EXCEPT ![p] = Idle(@)]
    /\ UNCHANGED <<cons, ring, csm, sent, got>>

-----------------------------------------------------------------------------
(* rte_ring_dequeue_burst: at most n items. *)

DeqCall(c, n) ==
    /\ csm[c].pc = "idle" /\ (SingleCons => c = TheOne(Consumers))
    /\ csm' = [csm EXCEPT ![c].pc = "look", ![c].ask = n, ![c].old = cons.head]
    /\ UNCHANGED <<prod, cons, ring, prd, sent, got>>

\* A fault: the count includes entries reserved but not yet filled.
CountReserved(c) ==
    /\ csm[c].pc = "idle" /\ SingleCons /\ c = TheOne(Consumers)
    /\ prod.head # cons.tail
    /\ csm' = [csm EXCEPT ![c].pc = "counted", ![c].counted = TRUE]
    /\ UNCHANGED <<prod, cons, ring, prd, sent, got>>

\* ring_count() > 0: how the algorithm thread looks at the request ring before
\* it takes one request (test_ext_mem_lat.c:310-312).  It is the only consumer,
\* so that the consumer tail it reads is its own.
Count(c) ==
    /\ csm[c].pc = "idle" /\ SingleCons /\ c = TheOne(Consumers)
    /\ (prod.tail - cons.tail) % Size # 0
    /\ csm' = [csm EXCEPT ![c].pc = "counted", ![c].counted = TRUE]
    /\ UNCHANGED <<prod, cons, ring, prd, sent, got>>

DeqCounted(c) ==
    /\ csm[c].pc = "counted"
    /\ csm' = [csm EXCEPT ![c].pc = "look", ![c].ask = 1, ![c].old = cons.head]
    /\ UNCHANGED <<prod, cons, ring, prd, sent, got>>

DeqLook(c) ==
    /\ csm[c].pc = "look"
    /\ Entries(csm[c].old) > 0
    /\ csm' = [csm EXCEPT ![c].pc = "move",
                          ![c].n = Min({csm[c].ask, Entries(csm[c].old)})]
    /\ UNCHANGED <<prod, cons, ring, prd, sent, got>>

DeqEmpty(c) ==
    /\ csm[c].pc = "look"
    /\ Entries(csm[c].old) = 0
    /\ csm' = [csm EXCEPT ![c] = [Idle(@) EXCEPT !.ask = 0, !.counted = FALSE]]
    /\ UNCHANGED <<prod, cons, ring, prd, sent, got>>

DeqMove(c) ==
    /\ csm[c].pc = "move"
    /\ SingleCons \/ cons.head = csm[c].old
    /\ cons' = [cons EXCEPT !.head = (csm[c].old + csm[c].n) % Width]
    /\ csm' = [csm EXCEPT ![c].pc = "copy"]
    /\ got' = [got EXCEPT ![c] = <<>>]
    /\ UNCHANGED <<prod, ring, prd, sent>>

DeqRetry(c) ==
    /\ csm[c].pc = "move"
    /\ ~SingleCons /\ cons.head # csm[c].old
    /\ csm' = [csm EXCEPT ![c].pc = "look", ![c].n = 0, ![c].old = cons.head]
    /\ UNCHANGED <<prod, cons, ring, prd, sent, got>>

DeqCopy(c) ==
    /\ csm[c].pc = "copy" /\ csm[c].i < csm[c].n
    /\ got' = [got EXCEPT ![c] =
                  Append(@, ring[Entry(csm[c].old, csm[c].n, csm[c].i)])]
    /\ csm' = [csm EXCEPT ![c].i = @ + 1]
    /\ UNCHANGED <<prod, cons, ring, prd, sent>>

DeqDone(c) ==
    /\ csm[c].pc = "copy" /\ csm[c].i = csm[c].n
    /\ SingleCons \/ cons.tail = csm[c].old
    /\ cons' = [cons EXCEPT !.tail = (csm[c].old + csm[c].n) % Width]
    /\ csm' = [csm EXCEPT ![c] = [Idle(@) EXCEPT !.ask = 0, !.counted = FALSE]]
    /\ UNCHANGED <<prod, ring, prd, sent, got>>

-----------------------------------------------------------------------------
Enq(p) == EnqRoom(p) \/ EnqFull(p) \/ EnqMove(p) \/ EnqRetry(p)
              \/ EnqCopy(p) \/ EnqDone(p)

Deq(c) == DeqCounted(c) \/ DeqLook(c) \/ DeqEmpty(c) \/ DeqMove(c)
              \/ DeqRetry(c) \/ DeqCopy(c) \/ DeqDone(c)

Next ==
    \/ \E p \in Producers : Enq(p) \/ \E n \in Batches : EnqCall(p, n)
    \/ \E c \in Consumers : Deq(c) \/ Count(c) \/ \E n \in Batches : DeqCall(c, n)

\* A call that has begun is carried on: threads are scheduled preemptively.
\* Consumers poll without end (test_ext_mem_lat.c:288-326, 355-398).
Fairness ==
    /\ \A p \in Producers : WF_vars(Enq(p))
    /\ \A c \in Consumers : WF_vars(Deq(c)) /\ WF_vars(\E n \in Batches : DeqCall(c, n))

Spec == Init /\ [][Next]_vars /\ Fairness

-----------------------------------------------------------------------------
Pcs == {"idle", "room", "counted", "look", "move", "copy"}

\* Heads and tails are indices, a call is at one of its steps.
TypeOK ==
    /\ prod \in [head : Indices, tail : Indices, single : BOOLEAN]
    /\ cons \in [head : Indices, tail : Indices, single : BOOLEAN]
    /\ \A e \in 0 .. Size - 1 :
          ring[e] = Empty \/ ring[e] \in Producers \X (1 .. Quota)
    /\ \A p \in Producers :
          /\ prd[p].pc \in Pcs /\ prd[p].n \in 0 .. Capacity
          /\ prd[p].old \in Indices /\ prd[p].i \in 0 .. prd[p].n
    /\ \A c \in Consumers :
          /\ csm[c].pc \in Pcs /\ csm[c].n \in 0 .. Capacity
          /\ csm[c].old \in Indices /\ csm[c].i \in 0 .. csm[c].n
          /\ csm[c].ask \in Batches \union {0, 1}
    /\ sent \in [Producers -> 0 .. Quota]

\* The one consumer of a ring that has counted an item finds it: the algorithm
\* thread uses the request without a look at what ring_dequeue returns.
CountedIsThere ==
    \A c \in Consumers :
        csm[c].counted /\ csm[c].pc = "look" => Entries(csm[c].old) > 0

\* A batch that has its entries gets in: those before it never keep it waiting
\* for ever in update_tail, on either side.
CallsEnd ==
    /\ \A p \in Producers : prd[p].pc = "copy" ~> prd[p].pc = "idle"
    /\ \A c \in Consumers : csm[c].pc = "copy" ~> csm[c].pc = "idle"

\* The items between consumer head and producer tail are those inside; a
\* consumer that still copies has the entries it reserved.
Inside ==
    [i \in 1 .. (prod.tail - cons.head) % Width |->
        ring[(cons.head + i - 1) % Size]]

Batch(c) ==
    IF csm[c].pc # "copy" THEN got[c]
    ELSE got[c] \o [i \in 1 .. csm[c].n - csm[c].i |->
                        ring[(csm[c].old + csm[c].i + i - 1) % Size]]

Fifo == INSTANCE BoundedFifo WITH
    q <- Inside,
    put <- [p \in Producers |->
               sent[p] - (IF prd[p].pc = "copy" THEN prd[p].n ELSE 0)],
    got <- [c \in Consumers |-> Batch(c)],
    Batches <- 1 .. Capacity

\* The ring is a bounded queue: an item is put in when its producer moves the
\* tail, and taken when its consumer moves the head; nothing overwrites it
\* between the two, nor while it is copied, though each thread works with
\* indices it has read some time ago (rte_ring.h:404-427).
ImplementsFifo == Fifo!Spec

=============================================================================

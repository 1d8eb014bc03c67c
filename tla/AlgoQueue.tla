----------------------------- MODULE AlgoQueue -----------------------------
(***************************************************************************)
(* The queue of timed requests (hash_hot_cmt/algo_queue.c): the retry      *)
(* queue of the algorithm thread, the one of a flush, and the completion   *)
(* queue of each completion thread, all used by one thread and all served  *)
(* from the head as long as the head is due (test_ext_mem_lat.c:293-296    *)
(* and 369-395, dftl_wb.c:367-370).  A node is named by its request; a     *)
(* request that is queued twice, as a read of a never-written tpage is for *)
(* its completion, counts as two here, which have the same target time.    *)
(***************************************************************************)
EXTENDS Integers, FiniteSets, Sequences

CONSTANTS Reqs,
          NULL,
          MaxTime,   \* bound: the clock stops there
          SLACK      \* the microsecond added to the target time

QueueAssumption ==
    /\ NULL \notin Reqs
    /\ IsFiniteSet(Reqs)
    /\ MaxTime \in Nat
    /\ SLACK \in Nat

Times == 0 .. MaxTime

VARIABLES head, last, size,
          prev, next,   \* the links of the nodes, NULL for those not queued
          etime,        \* request -> its target time, 0 when not queued
          now           \* clock_get_ns

vars == <<head, last, size, prev, next, etime, now>>

-----------------------------------------------------------------------------
\* The requests met from the head along next.
Chain ==
    LET c[i \in 0 .. Cardinality(Reqs)] ==
            IF i = 0 THEN [seq |-> <<>>, at |-> head]
            ELSE IF c[i - 1].at = NULL THEN c[i - 1]
            ELSE [seq |-> Append(c[i - 1].seq, c[i - 1].at),
                  at |-> next[c[i - 1].at]]
    IN  c[Cardinality(Reqs)].seq

\* A node is queued when a link or the head leads to it.
Queued == {r \in Reqs : r = head \/ prev[r] # NULL}

\* Faults of the comparison: ties go in front, every place is good.
NoTies(r, t) == etime[r] < t
AnyPlace(r, t) == TRUE

\* The new request, due at t, may go behind r.
NotLater(r, t) == etime[r] <= t + SLACK

\* algo_q_insert_sorted walks from the last node to the first one that is not
\* later, NULL when it passes the head.
Curr(t) ==
    LET walk[i \in 0 .. Cardinality(Reqs)] ==
            IF i = 0 THEN last
            ELSE IF walk[i - 1] = NULL THEN NULL
            ELSE IF NotLater(walk[i - 1], t) THEN walk[i - 1]
            ELSE prev[walk[i - 1]]
    IN  walk[Cardinality(Reqs)]

Init ==
    /\ head = NULL /\ last = NULL /\ size = 0
    /\ prev = [r \in Reqs |-> NULL]
    /\ next = [r \in Reqs |-> NULL]
    /\ etime = [r \in Reqs |-> 0]
    /\ now = 0

\* What an insert does whatever its place.  The target time may be past: it is
\* the clock plus a latency, read before the insert, and a read of a tpage that
\* was never written is put back (demand.c:329) with the one it already had.
Put(r, t) ==
    /\ r \notin Queued
    /\ etime' = [etime EXCEPT ![r] = t]
    /\ size' = size + 1
    /\ UNCHANGED now

InsertFirst(r, t) ==
    /\ head = NULL
    /\ Put(r, t)
    /\ head' = r
    /\ last' = r
    /\ prev' = [prev EXCEPT ![r] = NULL]
    /\ next' = [next EXCEPT ![r] = NULL]

InsertHead(r, t) ==
    /\ head # NULL /\ Curr(t) = NULL
    /\ Put(r, t)
    /\ prev' = [prev EXCEPT ![r] = NULL, ![head] = r]
    /\ next' = [next EXCEPT ![r] = head]
    /\ head' = r
    /\ UNCHANGED last

InsertTail(r, t) ==
    /\ head # NULL /\ Curr(t) # NULL
    /\ next[Curr(t)] = NULL
    /\ Put(r, t)
    /\ prev' = [prev EXCEPT ![r] = Curr(t)]
    /\ next' = [next EXCEPT ![r] = NULL, ![Curr(t)] = r]
    /\ last' = r
    /\ UNCHANGED head

\* A fault: the node that follows keeps its back link.
InsertHalfLinked(r, t) ==
    /\ head # NULL /\ Curr(t) # NULL
    /\ next[Curr(t)] # NULL
    /\ Put(r, t)
    /\ prev' = [prev EXCEPT ![r] = Curr(t)]
    /\ next' = [next EXCEPT ![r] = next[Curr(t)], ![Curr(t)] = r]
    /\ UNCHANGED <<head, last>>

InsertBetween(r, t) ==
    /\ head # NULL /\ Curr(t) # NULL
    /\ next[Curr(t)] # NULL
    /\ Put(r, t)
    /\ prev' = [prev EXCEPT ![r] = Curr(t), ![next[Curr(t)]] = r]
    /\ next' = [next EXCEPT ![r] = next[Curr(t)], ![Curr(t)] = r]
    /\ UNCHANGED <<head, last>>

\* A fault: the head is served a slack too early.
DueSoon(r) == etime[r] <= now + SLACK

\* The test of the callers of algo_q_dequeue.
Due(r) == etime[r] <= now

\* algo_q_dequeue, called when the head is due; its node is freed.
Dequeue ==
    /\ head # NULL
    /\ Due(head)
    /\ head' = next[head]
    /\ prev' = [r \in Reqs |-> IF r \in {head, next[head]} THEN NULL ELSE prev[r]]
    /\ next' = [next EXCEPT ![head] = NULL]
    /\ last' = IF next[head] = NULL THEN NULL ELSE last
    /\ etime' = [etime EXCEPT ![head] = 0]
    /\ size' = size - 1
    /\ UNCHANGED now

Tick ==
    /\ now < MaxTime
    /\ now' = now + 1
    /\ UNCHANGED <<head, last, size, prev, next, etime>>

Next ==
    \/ \E r \in Reqs, t \in Times :
          InsertFirst(r, t) \/ InsertHead(r, t) \/ InsertTail(r, t) \/ InsertBetween(r, t)
    \/ Dequeue
    \/ Tick

\* Time passes, and the thread that owns the queue looks at its head for ever.
Spec == Init /\ [][Next]_vars /\ WF_vars(Tick) /\ WF_vars(Dequeue)

-----------------------------------------------------------------------------
\* The links lead to requests or nowhere, size stays within the number of
\* requests, and target times are times.
TypeOK ==
    /\ head \in Reqs \union {NULL}
    /\ last \in Reqs \union {NULL}
    /\ size \in 0 .. Cardinality(Reqs)
    /\ prev \in [Reqs -> Reqs \union {NULL}]
    /\ next \in [Reqs -> Reqs \union {NULL}]
    /\ etime \in [Reqs -> Times]
    /\ now \in Times

\* The two ways along the queue agree, it ends where last says, it has no
\* cycle, size counts it, and no link leads to a freed node.
LinksAgree ==
    LET C == Chain
        n == Len(C)
    IN  /\ n = size
        /\ Queued = {C[i] : i \in 1 .. n} /\ Cardinality(Queued) = n
        /\ last = IF n = 0 THEN NULL ELSE C[n]
        /\ \A i \in 1 .. n :
              /\ prev[C[i]] = IF i = 1 THEN NULL ELSE C[i - 1]
              /\ next[C[i]] = IF i = n THEN NULL ELSE C[i + 1]
        /\ \A r \in Reqs \ Queued : next[r] = NULL

\* The queue is not quite sorted by target time, as the comment of
\* algo_q_insert_sorted has it: a request is due at most one slack later than the next,
\* so what waits behind it is held up for a slack per request ahead of it.
SortedWithinSlack ==
    LET C == Chain
    IN  \A i, j \in DOMAIN C :
            i < j => etime[C[i]] <= etime[C[j]] + (j - i) * SLACK

\* A request is put in before r although r is due: its own target time is past
\* by more than the slack, as that of a never-written read is on each turn of
\* test_ext_mem_lat.c:293-309.
PutBefore(r) ==
    /\ r \in Queued /\ Due(r)
    /\ \E q \in Reqs \ Queued : q \in Queued' /\ etime'[q] + SLACK < etime[r]

\* A request put in is served: no run of inserts holds it up for ever, except
\* one that keeps putting overdue requests before it.
Served == \A r \in Reqs : <>[][~PutBefore(r)]_vars => (r \in Queued ~> r \notin Queued)

Pool == INSTANCE DuePool WITH due <- [r \in Queued |-> etime[r]], clock <- now

\* Whatever place the insert chose, the queue hands a request back once and
\* not before it is due.
ImplementsPool == Pool!Spec

=============================================================================

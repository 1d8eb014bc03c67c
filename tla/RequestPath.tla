---------------------------- MODULE RequestPath ----------------------------
(***************************************************************************)
(* The threads of test_ext_mem_lat.c and the queues between them: workers  *)
(* submit requests up to a queue depth, the algorithm thread serves them,  *)
(* two completion threads end them when they are due, and the counter on   *)
(* the worker's stack lets the worker go on.  Rings are bounded FIFOs      *)
(* (RteRing); how a request is served is DemandCache's.                    *)
(*                                                                         *)
(* A request is <<w, n>>, the n-th of worker w.  Times are not numbers: a  *)
(* request is late until its etime has passed.                             *)
(***************************************************************************)
EXTENDS Integers, Sequences, FiniteSets

CONSTANTS Streams,     \* workers of test_load, test_update_tr, test_read_tr,
                       \* test_scan_tr
          Rmws,        \* workers of test_rmw_tr
          Completers,  \* the threads of process_cq_cpl
          NrReqs,      \* requests of a stream
          Rounds,      \* of an Rmw: a read and a write each
          iodepth,
          ReqCap, FinishCap,  \* of req_q and finish_q
          MaxSuspends, \* bound: how often reads go to retry_q
          NULL

Workers == Streams \union Rmws
Total(w) == IF w \in Rmws THEN 2 * Rounds ELSE NrReqs
Reqs == UNION {{w} \X (1 .. Total(w)) : w \in Workers}

ASSUME PathAssumption ==
    /\ Streams \intersect Rmws = {}
    /\ {NrReqs, Rounds} \subseteq Nat \ {0} /\ iodepth \in Nat \ {0}
    /\ ReqCap \in Nat \ {0} /\ FinishCap \in Nat \ {0}
    /\ MaxSuspends \in Nat
    /\ NULL \notin Reqs

VARIABLES wpc, sent, nr_ios,       \* workers
          req_q, retry_q, finish_q,
          apc, cur,                \* algorithm thread; the request it hands over
          suspends, late,      \* times a read went to retry_q; requests before their etime
          unwritten,           \* reads that met a translation page never written
          cpc, resume, holding, complete_q, \* completion threads
          ended

worker == <<wpc, sent, nr_ios>>
algo == <<apc, cur>>
comp == <<cpc, resume, holding, complete_q>>
vars == <<worker, req_q, retry_q, finish_q, algo, suspends, late, unwritten, comp, ended>>

\* The even requests of an Rmw are its writes.  The streams' requests are reads;
\* a write differs in that it is never suspended, which a read need not be.
IsWrite(r) == r[1] \in Rmws /\ r[2] % 2 = 0

Next1(w) == <<w, sent[w] + 1>>

-----------------------------------------------------------------------------
Init ==
    /\ wpc = [w \in Workers |-> "check"]
    /\ sent = [w \in Workers |-> 0] /\ nr_ios = [w \in Workers |-> 0]
    /\ req_q = <<>> /\ retry_q = {} /\ finish_q = <<>>
    /\ apc = "retry" /\ cur = NULL
    /\ suspends = 0 /\ late = {} /\ unwritten = {}
    /\ cpc = [c \in Completers |-> "take"]
    /\ resume = [c \in Completers |-> "head"]
    /\ holding = [c \in Completers |-> NULL]
    /\ complete_q = [c \in Completers |-> [r \in Reqs |-> 0]]
    /\ ended = {}

(* Workers. *)

Goes(w, to) == wpc' = [wpc EXCEPT ![w] = to]

\* A fault: one request too many.
LookAtDepthLate(w) ==
    /\ wpc[w] = "check"
    /\ nr_ios[w] <= iodepth
    /\ Goes(w, "add")
    /\ UNCHANGED <<sent, nr_ios, req_q, retry_q, finish_q, algo, suspends, late, unwritten,
                   comp, ended>>

\* wait_for_nr_ios looks at the counter, and adds to it in another step.
LookAtDepth(w) ==
    /\ wpc[w] = "check"
    /\ nr_ios[w] < iodepth
    /\ Goes(w, "add")
    /\ UNCHANGED <<sent, nr_ios, req_q, retry_q, finish_q, algo, suspends, late, unwritten,
                   comp, ended>>

AddToDepth(w) ==
    /\ wpc[w] = "add"
    /\ nr_ios' = [nr_ios EXCEPT ![w] = @ + 1]
    /\ Goes(w, "enqueue")
    /\ UNCHANGED <<sent, req_q, retry_q, finish_q, algo, suspends, late, unwritten, comp, ended>>

\* After its last request a worker sleeps; an Rmw first waits for each.
AfterSubmit(w) ==
    CASE w \in Rmws -> "await"
      [] w \in Streams /\ sent[w] + 1 < Total(w) -> "check"
      [] OTHER -> "sleep"

submit_req(w) ==
    /\ wpc[w] = "enqueue"
    /\ Len(req_q) < ReqCap
    /\ req_q' = Append(req_q, Next1(w))
    /\ sent' = [sent EXCEPT ![w] = @ + 1]
    /\ Goes(w, AfterSubmit(w))
    /\ UNCHANGED <<nr_ios, retry_q, finish_q, algo, suspends, late, unwritten, comp, ended>>

\* test_rmw_tr: while (tr_nr_ios > 0); before the next request tr_nr_ios = 0.
Await(w) ==
    /\ wpc[w] = "await"
    /\ nr_ios[w] <= 0
    /\ nr_ios' = [nr_ios EXCEPT ![w] = 0]
    /\ Goes(w, IF sent[w] < Total(w) THEN "check" ELSE "sleep")
    /\ UNCHANGED <<sent, req_q, retry_q, finish_q, algo, suspends, late, unwritten, comp, ended>>

\* usleep(2000000), taken to be longer than any request takes.
Return(w) ==
    /\ wpc[w] = "sleep"
    /\ \A n \in 1 .. Total(w) : <<w, n>> \in ended
    /\ Goes(w, "returned")
    /\ UNCHANGED <<sent, nr_ios, req_q, retry_q, finish_q, algo, suspends, late, unwritten,
                   comp, ended>>

Worker(w) == LookAtDepth(w) \/ AddToDepth(w) \/ submit_req(w) \/ Await(w) \/ Return(w)

-----------------------------------------------------------------------------
(* The algorithm thread. *)

\* A read waits for the flash.
Suspend(r) ==
    /\ ~IsWrite(r) /\ suspends < MaxSuspends
    /\ suspends' = suspends + 1
    /\ retry_q' = retry_q \union {r} /\ late' = late \union {r}
    /\ apc' = "retry" /\ cur' = NULL
    /\ UNCHANGED unwritten

\* load returns 0, the translation page was never written: the read is put in
\* finish_q and in retry_q (PutNothing), with the etime it had, and once more in
\* finish_q (Put).
LoadNothing(r) ==
    /\ ~IsWrite(r) /\ suspends < MaxSuspends
    /\ suspends' = suspends + 1
    /\ unwritten' = unwritten \union {r}
    /\ retry_q' = retry_q \ {r}
    /\ apc' = "put_nothing" /\ cur' = r
    /\ UNCHANGED late

\* A request is served and on its way to finish_q; its etime may be later: that
\* of the value a read reads, or of the flush a write waited for.
Complete(r) ==
    /\ retry_q' = retry_q \ {r}
    /\ late' \in {late, late \union {r}}
    /\ apc' = "put" /\ cur' = r
    /\ UNCHANGED <<suspends, unwritten>>

Serve(r) == Suspend(r) \/ LoadNothing(r) \/ Complete(r)

\* A request in retry_q was freed meanwhile, and its type, the first byte of the
\* memory, may name no request any more: the switch has no case for it.
Forgotten(r) ==
    /\ r \in ended
    /\ retry_q' = retry_q \ {r}
    /\ UNCHANGED <<algo, suspends, late, unwritten>>

\* The head of retry_q is due.
ServeRetry ==
    /\ apc = "retry"
    /\ \E r \in retry_q \ late : Serve(r) \/ Forgotten(r)
    /\ UNCHANGED <<worker, req_q, finish_q, comp, ended>>

\* The head is not due; the order being true to a microsecond, another may be.
NoRetry ==
    /\ apc = "retry" /\ (retry_q = {} \/ retry_q \intersect late # {})
    /\ apc' = "request"
    /\ UNCHANGED <<worker, req_q, retry_q, finish_q, cur, suspends, late, unwritten, comp, ended>>

ServeRequest ==
    /\ apc = "request" /\ req_q # <<>>
    /\ req_q' = Tail(req_q)
    /\ Serve(Head(req_q))
    /\ UNCHANGED <<worker, finish_q, comp, ended>>

NoRequest ==
    /\ apc = "request" /\ req_q = <<>>
    /\ apc' = "retry"
    /\ UNCHANGED <<worker, req_q, retry_q, finish_q, cur, suspends, late, unwritten, comp, ended>>

PutNothing ==
    /\ apc = "put_nothing" /\ Len(finish_q) < FinishCap
    /\ finish_q' = Append(finish_q, cur)
    /\ retry_q' = retry_q \union {cur}
    /\ apc' = "put"
    /\ UNCHANGED <<worker, req_q, cur, suspends, late, unwritten, comp, ended>>

\* A fault: the ring is not asked for room.
PutAnyway ==
    /\ apc = "put"
    /\ finish_q' = Append(finish_q, cur)
    /\ apc' = "retry" /\ cur' = NULL
    /\ UNCHANGED <<worker, req_q, retry_q, suspends, late, unwritten, comp, ended>>

\* while (!ring_enqueue(finish_q, ...)); (demand.c:198, 275, 391, 409)
Put ==
    /\ apc = "put" /\ Len(finish_q) < FinishCap
    /\ finish_q' = Append(finish_q, cur)
    /\ apc' = "retry" /\ cur' = NULL
    /\ UNCHANGED <<worker, req_q, retry_q, suspends, late, unwritten, comp, ended>>

algo_thread == ServeRetry \/ NoRetry \/ ServeRequest \/ NoRequest \/ PutNothing \/ Put

\* Time passes: the etime of r.
Pass(r) ==
    /\ r \in late
    /\ late' = late \ {r}
    /\ UNCHANGED <<worker, req_q, retry_q, finish_q, algo, suspends, unwritten, comp, ended>>

-----------------------------------------------------------------------------
(* Completion threads.  cpc: "take" from the ring, then look at the "head" of
   complete_q, which says how often a request is in it; "more" after a request of
   it was ended. *)

Queued(c) == {r \in Reqs : complete_q[c][r] > 0}

\* The call of end_request, and where the thread goes on after it: to the head of
\* its complete_q, if there is one.
Ends(c, r) ==
    /\ holding' = [holding EXCEPT ![c] = r]
    /\ cpc' = [cpc EXCEPT ![c] = "end"]
    /\ resume' = [resume EXCEPT ![c] = CASE Queued(c)' = {} -> "take"
                                         [] Queued(c)' # {} /\ cpc[c] = "take" -> "head"
                                         [] OTHER -> "more"]

\* A fault: a request is ended without a look at its etime.
TakeDueBlind(c) ==
    /\ cpc[c] = "take" /\ finish_q # <<>>
    /\ finish_q' = Tail(finish_q)
    /\ UNCHANGED <<worker, req_q, retry_q, algo, suspends, late, unwritten, complete_q, ended>>
    /\ Ends(c, Head(finish_q))

TakeDue(c) ==
    /\ cpc[c] = "take" /\ finish_q # <<>>
    /\ Head(finish_q) \notin late
    /\ finish_q' = Tail(finish_q)
    /\ UNCHANGED <<worker, req_q, retry_q, algo, suspends, late, unwritten, complete_q, ended>>
    /\ Ends(c, Head(finish_q))

\* A fault: a request that is not due is put in no queue.
TakeLateDropped(c) ==
    /\ cpc[c] = "take" /\ finish_q # <<>>
    /\ finish_q' = Tail(finish_q)
    /\ cpc' = [cpc EXCEPT ![c] = "take"]
    /\ UNCHANGED <<worker, req_q, retry_q, algo, suspends, late, unwritten, resume,
                   holding, complete_q, ended>>

\* now was read before the request was taken: it may be due by then.
TakeLate(c) ==
    /\ cpc[c] = "take" /\ finish_q # <<>>
    /\ finish_q' = Tail(finish_q)
    /\ complete_q' = [complete_q EXCEPT ![c][Head(finish_q)] = @ + 1]
    /\ cpc' = [cpc EXCEPT ![c] = "head"]
    /\ UNCHANGED <<worker, req_q, retry_q, algo, suspends, late, unwritten, resume, holding, ended>>

\* (With an empty complete_q too the turn changes nothing.)
TakeNone(c) ==
    /\ cpc[c] = "take" /\ finish_q = <<>> /\ Queued(c) # {}
    /\ cpc' = [cpc EXCEPT ![c] = "head"]
    /\ UNCHANGED <<worker, req_q, retry_q, finish_q, algo, suspends, late, unwritten,
                   resume, holding, complete_q, ended>>

\* A fault: the request stays at the head.
EndHeadKept(c) ==
    /\ cpc[c] \in {"head", "more"}
    /\ UNCHANGED <<worker, req_q, retry_q, finish_q, algo, suspends, late, unwritten,
                   complete_q, ended>>
    /\ \E r \in Queued(c) \ late : Ends(c, r)

EndHead(c) ==
    /\ cpc[c] \in {"head", "more"}
    /\ \E r \in Queued(c) \ late :
          /\ complete_q' = [complete_q EXCEPT ![c][r] = @ - 1]
          /\ Ends(c, r)
    /\ UNCHANGED <<worker, req_q, retry_q, finish_q, algo, suspends, late, unwritten, ended>>

\* The head is not due.  In the loop now is not read again: "more" may leave a
\* request that is due.
NoHead(c) ==
    /\ \/ cpc[c] = "more"
       \/ cpc[c] = "head" /\ Queued(c) \intersect late # {}
    /\ cpc' = [cpc EXCEPT ![c] = "take"]
    /\ UNCHANGED <<worker, req_q, retry_q, finish_q, algo, suspends, late, unwritten,
                   resume, holding, complete_q, ended>>

\* g_atomic_int_add(req->ptr_nr_ios, -1); free(req).  The statistics before it
\* are left out.
end_request(c) ==
    /\ cpc[c] = "end"
    /\ nr_ios' = [nr_ios EXCEPT ![holding[c][1]] = @ - 1]
    /\ ended' = ended \union {holding[c]}
    /\ holding' = [holding EXCEPT ![c] = NULL]
    /\ cpc' = [cpc EXCEPT ![c] = resume[c]]
    /\ UNCHANGED <<wpc, sent, req_q, retry_q, finish_q, algo, suspends, late, unwritten,
                   resume, complete_q>>

process_cq_cpl(c) ==
    \/ TakeDue(c) \/ TakeLate(c) \/ TakeNone(c)
    \/ EndHead(c) \/ NoHead(c)
    \/ end_request(c)

Next ==
    \/ \E w \in Workers : Worker(w)
    \/ algo_thread
    \/ \E c \in Completers : process_cq_cpl(c)
    \/ \E r \in Reqs : Pass(r)

\* Every thread runs, and time passes.
Fairness ==
    /\ \A w \in Workers : WF_vars(Worker(w))
    /\ WF_vars(algo_thread)
    /\ \A c \in Completers : WF_vars(process_cq_cpl(c))
    /\ \A r \in Reqs : WF_vars(Pass(r))

Spec == Init /\ [][Next]_vars /\ Fairness

-----------------------------------------------------------------------------
\* No read of worker w has met a translation page that was never written.
Found(w) == \A r \in unwritten : r[1] # w

\* Types and bounds.  A counter is never negative unless a read of its worker
\* met a translation page that was never written.
TypeOK ==
    /\ wpc \in [Workers -> {"check", "add", "enqueue", "await", "sleep", "returned"}]
    /\ \A w \in Workers :
          /\ sent[w] \in 0 .. Total(w)
          /\ nr_ios[w] \in Int /\ nr_ios[w] <= iodepth
          /\ Found(w) => nr_ios[w] >= 0
    /\ req_q \in Seq(Reqs) /\ finish_q \in Seq(Reqs)
    /\ Len(req_q) <= ReqCap /\ Len(finish_q) <= FinishCap
    /\ suspends \in 0 .. MaxSuspends
    /\ retry_q \subseteq Reqs /\ late \subseteq Reqs /\ ended \subseteq Reqs
    /\ unwritten \subseteq Reqs
    /\ apc \in {"retry", "request", "put_nothing", "put"} /\ cur \in Reqs \union {NULL}
    /\ cpc \in [Completers -> {"take", "head", "more", "end"}]
    /\ holding \in [Completers -> Reqs \union {NULL}]
    /\ complete_q \in [Completers -> [Reqs -> Nat]]

Sent(w) == {<<w, n>> : n \in 1 .. sent[w]}

\* Request r in the threads' complete_q, as often as it is there; ...
Copies(c, r) == {<<"complete_q", c, i>> : i \in 1 .. complete_q[c][r]}
AllCopies(r) == UNION {Copies(c, r) : c \in Completers}

\* ... and everywhere.
Places(r) ==
    {<<"req_q", i>> : i \in {j \in DOMAIN req_q : req_q[j] = r}}
    \union {<<"finish_q", i>> : i \in {j \in DOMAIN finish_q : finish_q[j] = r}}
    \union AllCopies(r)
    \union {<<"holding", c>> : c \in {d \in Completers : holding[d] = r}}
    \union (IF r \in retry_q THEN {<<"retry_q", 0>>} ELSE {})
    \union (IF cur = r THEN {<<"algo", 0>>} ELSE {})

\* From submit_req to its free, a request is in one queue or in one thread's
\* hands, and after it nowhere: no thread uses a freed request, and none is
\* ended twice.  The exception is a read that met a translation page never
\* written, which demand.c:326, :329 and :409 put in finish_q, retry_q and
\* finish_q; the others stay in one place though it is ended again and again.
OnePlace ==
    \A r \in Reqs \ unwritten :
        Cardinality(Places(r)) = IF r \in Sent(r[1]) \ ended THEN 1 ELSE 0

\* The counter on a worker's stack, which the worker raises and the completion
\* threads lower, is the number of its requests in flight, at most iodepth
\* (test_ext_mem_lat.c:791-812); a read-modify-write worker has one: the write
\* is submitted after its read was ended, and the next round starts after the
\* write (:1358-1391, the waits for tr_nr_ios).  Of a worker whose read met a
\* page never written only the bound is left: each further end of that read
\* lowers the counter once more (:277), and more requests go out.
CountsInFlight ==
    \A w \in Workers :
        /\ nr_ios[w] <= iodepth
        /\ Found(w) =>
              /\ nr_ios[w] = Cardinality(Sent(w) \ ended)
                                + (IF wpc[w] = "enqueue" THEN 1 ELSE 0)
              /\ w \in Rmws => Cardinality(Sent(w) \ ended) <= 1

\* No request is ended before its etime, though it is handed from the algorithm
\* thread to a ring, from there to one of two queues, and compared with a now
\* that was read earlier; a write that flushed and a read that is ended again
\* included.
EndsWhenDue ==
    [][\A c \in Completers :
         holding'[c] \notin {holding[c], NULL} => holding'[c] \notin late]_vars

\* Whatever the rings' sizes, every thread gets on: each request is submitted
\* and ended, and each worker returns, unless a read meets a translation page
\* never written.  Such a read is due whenever it is back in retry_q, the loop of
\* test_ext_mem_lat.c:293-309 serves it without end, and nothing is promised.
AllEnd ==
    \/ <>(ended = Reqs /\ \A w \in Workers : wpc[w] = "returned")
    \/ <>(unwritten # {})

=============================================================================

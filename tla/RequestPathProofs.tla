-------------------------- MODULE RequestPathProofs --------------------------
(***************************************************************************)
(* Proofs about RequestPath for any workers, completion threads, queue     *)
(* depth and capacities of the rings: a request is in one place, and the   *)
(* depth counters count the requests in flight.  Reads that met a page     *)
(* never written are excepted; what they do harms no other request.        *)
(***************************************************************************)
EXTENDS RequestPath, FiniteSetTheorems, TLAPS

Has(q, r) == \E i \in DOMAIN q : q[i] = r
\* Sequence q has each element that is not in U once.
Injective(q, U) == \A i, j \in DOMAIN q : q[i] = q[j] /\ q[i] \notin U => i = j

Injected ==
    /\ Injective(req_q, {}) /\ Injective(finish_q, unwritten)
    /\ \A c \in Completers, r \in Reqs \ unwritten : complete_q[c][r] <= 1

\* The places that hold requests, and whether request r is in place x.
Spots == ({"req_q", "finish_q", "retry_q", "algo"} \X {NULL})
            \union ({"complete_q", "holding"} \X Completers)

In(x, r) ==
    \/ x = <<"req_q", NULL>> /\ Has(req_q, r)
    \/ x = <<"finish_q", NULL>> /\ Has(finish_q, r)
    \/ x = <<"retry_q", NULL>> /\ r \in retry_q
    \/ x = <<"algo", NULL>> /\ cur = r
    \/ \E c \in Completers : x = <<"complete_q", c>> /\ complete_q[c][r] > 0
    \/ \E c \in Completers : x = <<"holding", c>> /\ holding[c] = r

WasSent == {r \in Reqs : r[2] <= sent[r[1]]}
InFlight == WasSent \ ended
Flights == [w \in Workers |-> Sent(w) \ ended]

\* The inductive invariant: the types but for the counters' bounds, and what
\* a thread's program counter says of what it holds and has left to do; ...
Shape ==
    /\ wpc \in [Workers -> {"check", "add", "enqueue", "await", "sleep", "returned"}]
    /\ sent \in [Workers -> Nat] /\ nr_ios \in [Workers -> Int]
    /\ \A w \in Workers :
          /\ sent[w] <= Total(w)
          /\ wpc[w] \in {"check", "add", "enqueue"} => sent[w] < Total(w)
    /\ req_q \in Seq(Reqs) /\ finish_q \in Seq(Reqs)
    /\ Len(req_q) <= ReqCap /\ Len(finish_q) <= FinishCap
    /\ suspends \in 0 .. MaxSuspends
    /\ retry_q \subseteq Reqs /\ late \subseteq Reqs /\ ended \subseteq Reqs
    /\ unwritten \subseteq Reqs
    /\ apc \in {"retry", "request", "put_nothing", "put"} /\ cur \in Reqs \union {NULL}
    /\ apc \in {"put_nothing", "put"} <=> cur # NULL
    /\ apc = "put_nothing" => cur \in unwritten
    /\ cpc \in [Completers -> {"take", "head", "more", "end"}]
    /\ resume \in [Completers -> {"take", "head", "more"}]
    /\ holding \in [Completers -> Reqs \union {NULL}]
    /\ complete_q \in [Completers -> [Reqs -> Nat]]
    /\ \A c \in Completers : cpc[c] = "end" <=> holding[c] # NULL

\* ... the requests in flight are those that are somewhere, each in one place,
\* and a queue has it once, but for the reads that met a page never written; ...
OneSpot ==
    /\ \A r \in Reqs \ unwritten : r \in InFlight <=> \E x \in Spots : In(x, r)
    /\ \A r \in Reqs \ unwritten : \A x, y \in Spots : In(x, r) /\ In(y, r) => x = y

EndedWasSent == ended \subseteq WasSent /\ unwritten \subseteq WasSent

\* ... and the counters, with what lets a worker raise its own.
Counted ==
    \A w \in Workers :
        /\ nr_ios[w] <= iodepth
        /\ wpc[w] = "add" => nr_ios[w] < iodepth
        /\ Found(w) =>
              /\ nr_ios[w] = Cardinality(Flights[w]) + (IF wpc[w] = "enqueue" THEN 1 ELSE 0)
              /\ w \in Rmws => Cardinality(Flights[w]) <= 1
              /\ w \in Rmws /\ wpc[w] \in {"check", "add", "enqueue"} => Flights[w] = {}

IInv == Shape /\ Injected /\ OneSpot /\ EndedWasSent /\ Counted

-----------------------------------------------------------------------------
\* What Append and Tail do to the members of a ring.
LEMMA AppendFacts ==
    ASSUME NEW S, NEW q \in Seq(S), NEW e \in S, NEW U
    PROVE  /\ Append(q, e) \in Seq(S) /\ Len(Append(q, e)) = Len(q) + 1
           /\ \A r : Has(Append(q, e), r) <=> r = e \/ Has(q, r)
           /\ Injective(q, U) /\ (e \in U \/ ~Has(q, e)) => Injective(Append(q, e), U)
<1>1. /\ Append(q, e) \in Seq(S) /\ Len(Append(q, e)) = Len(q) + 1
      /\ DOMAIN Append(q, e) = 1 .. Len(q) + 1 /\ DOMAIN q = 1 .. Len(q)
      /\ Len(q) \in Nat
      /\ \A i \in 1 .. Len(q) : Append(q, e)[i] = q[i]
      /\ Append(q, e)[Len(q) + 1] = e
  OBVIOUS
<1> DEFINE a == Append(q, e)
<1> HIDE DEF a
<1>2. ASSUME NEW r PROVE Has(a, r) <=> r = e \/ Has(q, r)
  BY <1>1 DEF Has, a
<1>3. ASSUME Injective(q, U), e \in U \/ ~Has(q, e) PROVE Injective(a, U)
  BY <1>1, <1>3 DEF Has, Injective, a
<1>. QED
  BY <1>1, <1>2, <1>3 DEF a

\* A ring without its head: the rest, each that is not in U once.
LEMMA TailFacts ==
    ASSUME NEW S, NEW q \in Seq(S), NEW U, q # <<>>, Injective(q, U)
    PROVE  /\ Tail(q) \in Seq(S) /\ Len(Tail(q)) = Len(q) - 1
           /\ Head(q) \in S /\ Has(q, Head(q))
           /\ \A r : r \notin U => (Has(Tail(q), r) <=> r # Head(q) /\ Has(q, r))
           /\ Injective(Tail(q), U)
<1>1. /\ Tail(q) \in Seq(S) /\ Len(Tail(q)) = Len(q) - 1
      /\ DOMAIN Tail(q) = 1 .. Len(q) - 1 /\ DOMAIN q = 1 .. Len(q)
      /\ Len(q) \in Nat /\ Len(q) > 0
      /\ \A i \in 1 .. Len(q) - 1 : Tail(q)[i] = q[i + 1]
      /\ Head(q) = q[1] /\ q[1] \in S
  OBVIOUS
<1> DEFINE t == Tail(q)
<1> HIDE DEF t
<1>2. ASSUME NEW r, r \notin U PROVE Has(t, r) <=> r # Head(q) /\ Has(q, r)
  <2>1. ASSUME Has(t, r) PROVE r # Head(q) /\ Has(q, r)
    <3>1. PICK i \in 1 .. Len(q) - 1 : q[i + 1] = r
      BY <1>1, <2>1 DEF Has, t
    <3>2. i + 1 \in DOMAIN q /\ 1 \in DOMAIN q /\ i + 1 # 1
      BY <1>1
    <3>. QED
      BY <1>1, <1>2, <3>1, <3>2 DEF Has, Injective
  <2>2. ASSUME r # Head(q), Has(q, r) PROVE Has(t, r)
    <3>1. PICK i \in 1 .. Len(q) : q[i] = r
      BY <1>1, <2>2 DEF Has
    <3>2. i - 1 \in 1 .. Len(q) - 1 /\ (i - 1) + 1 = i
      BY <1>1, <2>2, <3>1
    <3>. QED
      BY <1>1, <3>1, <3>2 DEF Has, t
  <2>. QED
    BY <2>1, <2>2
<1>3. Injective(t, U)
  <2>1. ASSUME NEW i \in 1 .. Len(q) - 1, NEW j \in 1 .. Len(q) - 1, t[i] = t[j], t[i] \notin U
        PROVE  i = j
    <3>1. /\ i + 1 \in DOMAIN q /\ j + 1 \in DOMAIN q /\ q[i + 1] = q[j + 1]
          /\ q[i + 1] \notin U
      BY <1>1, <2>1 DEF t
    <3>2. i + 1 = j + 1
      BY <3>1 DEF Injective
    <3>. QED
      BY <3>2
  <2>. QED
    BY <1>1, <2>1 DEF Injective, t
<1>4. Has(q, Head(q))
  BY <1>1 DEF Has
<1>. QED
  BY <1>1, <1>2, <1>3, <1>4 DEF t

\* Requests, and the bounds of their numbers.
LEMMA ReqFacts ==
    /\ \A w \in Workers : Total(w) \in Nat \ {0}
    /\ \A r : r \in Reqs <=> \E w \in Workers : \E n \in 1 .. Total(w) : r = <<w, n>>
    /\ \A r \in Reqs : r[1] \in Workers /\ r[2] \in 1 .. Total(r[1]) /\ r = <<r[1], r[2]>>
    /\ NULL \notin Reqs
<1>1. \A w \in Workers : Total(w) \in Nat \ {0}
  BY PathAssumption DEF Total
<1>2. \A r : r \in Reqs <=> \E w \in Workers : \E n \in 1 .. Total(w) : r = <<w, n>>
  BY DEF Reqs
<1>. QED
  BY <1>1, <1>2, PathAssumption

-----------------------------------------------------------------------------
\* The initial state.
LEMMA InitSound == Init => IInv
<1> SUFFICES ASSUME Init PROVE IInv
  OBVIOUS
<1>1. Shape
  BY ReqFacts, PathAssumption DEF Init, Shape
<1>2. Injected
  BY DEF Init, Injected, Injective
<1>3. WasSent = {} /\ \A w \in Workers : Sent(w) = {}
  BY ReqFacts DEF Init, Sent, WasSent
<1>4. OneSpot
  <2>1. \A r \in Reqs : r \notin InFlight
    BY <1>3 DEF InFlight
  <2>2. \A x \in Spots, r \in Reqs : ~In(x, r)
    BY ReqFacts DEF Init, In, Has
  <2>3. \A r \in Reqs \ unwritten : r \in InFlight <=> \E x \in Spots : In(x, r)
    BY <2>1, <2>2, Zenon
  <2>4. \A r \in Reqs \ unwritten : \A x, y \in Spots : In(x, r) /\ In(y, r) => x = y
    BY <2>2, Zenon
  <2>. QED
    BY <2>3, <2>4, Zenon DEF OneSpot
<1>5. Counted
  <2>1. \A w \in Workers : Flights[w] = {} /\ Cardinality(Flights[w]) = 0
    BY <1>3, FS_EmptySet DEF Flights
  <2>. QED
    BY <2>1, PathAssumption DEF Init, Counted
<1>6. EndedWasSent
  BY DEF Init, EndedWasSent
<1>. QED
  BY <1>1, <1>2, <1>4, <1>5, <1>6 DEF IInv

-----------------------------------------------------------------------------
\* What a ring holds stays well formed.
LEMMA ShapeKeeps == Shape /\ Injected /\ [Next]_vars => Shape'
<1> SUFFICES ASSUME Shape, Injected, [Next]_vars PROVE Shape'
  OBVIOUS
<1> USE ReqFacts
<1>1. ASSUME NEW w \in Workers, LookAtDepth(w) PROVE Shape'
  BY <1>1 DEF LookAtDepth, Goes, Shape, algo, comp
<1>2. ASSUME NEW w \in Workers, AddToDepth(w) PROVE Shape'
  <2>1. /\ wpc' = [wpc EXCEPT ![w] = "enqueue"] /\ wpc[w] = "add"
        /\ nr_ios' = [nr_ios EXCEPT ![w] = @ + 1] /\ nr_ios[w] + 1 \in Int
        /\ UNCHANGED <<sent, req_q, retry_q, finish_q, apc, cur, suspends, late,
                       unwritten, cpc, resume, holding, complete_q, ended>>
    BY <1>2 DEF AddToDepth, Goes, algo, comp, Shape
  <2>. QED
    BY <2>1 DEF Shape
<1>3. ASSUME NEW w \in Workers, submit_req(w) PROVE Shape'
  <2>1. /\ sent[w] \in Nat /\ sent[w] < Total(w) /\ Total(w) \in Nat
        /\ req_q \in Seq(Reqs) /\ wpc[w] = "enqueue"
    BY <1>3 DEF submit_req, Shape
  <2>2. Next1(w) \in Reqs
    <3>1. sent[w] + 1 \in 1 .. Total(w)
      BY <2>1
    <3>2. <<w, sent[w] + 1>> \in Reqs
      BY <3>1, ReqFacts
    <3>. QED
      BY <3>2 DEF Next1
  <2>3. req_q' \in Seq(Reqs) /\ Len(req_q') <= ReqCap
    BY <1>3, <2>1, <2>2, AppendFacts, PathAssumption DEF submit_req
  <2>4. AfterSubmit(w) = "check" => sent[w] + 1 < Total(w)
    BY DEF AfterSubmit
  <2>5. AfterSubmit(w) \in {"await", "check", "sleep"}
    BY DEF AfterSubmit
  <2>6. /\ wpc' = [wpc EXCEPT ![w] = AfterSubmit(w)]
        /\ sent' = [sent EXCEPT ![w] = @ + 1]
        /\ UNCHANGED <<nr_ios, retry_q, finish_q, apc, cur, suspends, late, unwritten,
                       cpc, resume, holding, complete_q, ended>>
    BY <1>3 DEF submit_req, Goes, algo, comp
  <2>7. /\ wpc' \in [Workers -> {"check", "add", "enqueue", "await", "sleep", "returned"}]
        /\ sent' \in [Workers -> Nat]
    BY <2>5, <2>6 DEF Shape
  <2>8. \A v \in Workers :
          /\ sent'[v] <= Total(v)
          /\ wpc'[v] \in {"check", "add", "enqueue"} => sent'[v] < Total(v)
    BY <2>1, <2>4, <2>5, <2>6 DEF Shape
  <2>. QED
    BY <2>3, <2>6, <2>7, <2>8 DEF Shape
<1>4. ASSUME NEW w \in Workers, Await(w) PROVE Shape'
  BY <1>4 DEF Await, Goes, Shape, algo, comp
<1>5. ASSUME NEW w \in Workers, Return(w) PROVE Shape'
  BY <1>5 DEF Return, Goes, Shape, algo, comp
<1>6. ASSUME NEW r \in Reqs, Serve(r), apc \notin {"put", "put_nothing"},
             req_q' \in Seq(Reqs), Len(req_q') <= ReqCap,
             UNCHANGED <<worker, finish_q, comp, ended>>
      PROVE  Shape'
  <2>1. CASE Suspend(r)
    <3>1. suspends' \in 0 .. MaxSuspends
      <4>1. suspends' = suspends + 1 /\ suspends < MaxSuspends
        BY <2>1 DEF Suspend
      <4>2. suspends \in 0 .. MaxSuspends /\ MaxSuspends \in Nat
        BY PathAssumption DEF Shape
      <4>. QED
        BY <4>1, <4>2
    <3>2. /\ retry_q' \subseteq Reqs /\ late' \subseteq Reqs
          /\ apc' = "retry" /\ cur' = NULL /\ unwritten' = unwritten
      BY <2>1 DEF Suspend, Shape
    <3>. QED
      BY <1>6, <3>1, <3>2 DEF Shape, worker, comp
  <2>2. CASE LoadNothing(r)
    <3>1. suspends' \in 0 .. MaxSuspends
      <4>1. suspends' = suspends + 1 /\ suspends < MaxSuspends
        BY <2>2 DEF LoadNothing
      <4>2. suspends \in 0 .. MaxSuspends /\ MaxSuspends \in Nat
        BY PathAssumption DEF Shape
      <4>. QED
        BY <4>1, <4>2
    <3>2. /\ retry_q' \subseteq Reqs /\ late' \subseteq Reqs
          /\ apc' = "put_nothing" /\ cur' = r /\ unwritten' = unwritten \union {r}
      BY <2>2 DEF LoadNothing, Shape
    <3>. QED
      BY <1>6, <3>1, <3>2 DEF Shape, worker, comp
  <2>3. CASE Complete(r)
    BY <1>6, <2>3 DEF Complete, Shape, worker, comp
  <2>. QED
    BY <1>6, <2>1, <2>2, <2>3 DEF Serve
<1>7. CASE ServeRetry
  <2>1. PICK r \in retry_q \ late : Serve(r) \/ Forgotten(r)
    BY <1>7 DEF ServeRetry
  <2>2. /\ r \in Reqs /\ apc \notin {"put", "put_nothing"}
        /\ req_q' \in Seq(Reqs) /\ Len(req_q') <= ReqCap
        /\ UNCHANGED <<worker, finish_q, comp, ended>>
    BY <1>7, <2>1 DEF ServeRetry, Shape
  <2>3. CASE Serve(r)
    BY <1>6, <2>2, <2>3
  <2>4. CASE Forgotten(r)
    BY <2>2, <2>4 DEF Forgotten, Shape, worker, algo, comp
  <2>. QED
    BY <2>1, <2>3, <2>4
<1>8. CASE NoRetry
  BY <1>8 DEF NoRetry, Shape, worker, comp
<1>9. CASE ServeRequest
  <2>1. /\ req_q \in Seq(Reqs) /\ req_q # <<>> /\ Injective(req_q, {})
        /\ Len(req_q) \in Nat /\ Len(req_q) <= ReqCap
    BY <1>9 DEF ServeRequest, Shape, Injected
  <2>2. Head(req_q) \in Reqs /\ Tail(req_q) \in Seq(Reqs) /\ Len(Tail(req_q)) <= ReqCap
    BY <2>1, TailFacts, PathAssumption
  <2>. QED
    BY <1>6, <1>9, <2>2 DEF ServeRequest
<1>10. CASE NoRequest
  BY <1>10 DEF NoRequest, Shape, worker, comp
<1>11. CASE Put
  <2>1. /\ cur \in Reqs /\ finish_q \in Seq(Reqs) /\ Len(finish_q) < FinishCap
    BY <1>11 DEF Put, Shape
  <2>2. finish_q' \in Seq(Reqs) /\ Len(finish_q') <= FinishCap
    BY <1>11, <2>1, AppendFacts, PathAssumption DEF Put
  <2>. QED
    BY <1>11, <2>2 DEF Put, Shape, worker, comp
<1>21. CASE PutNothing
  <2>1. /\ cur \in Reqs /\ finish_q \in Seq(Reqs) /\ Len(finish_q) < FinishCap
    BY <1>21 DEF PutNothing, Shape
  <2>2. finish_q' \in Seq(Reqs) /\ Len(finish_q') <= FinishCap
    BY <1>21, <2>1, AppendFacts, PathAssumption DEF PutNothing
  <2>. QED
    BY <1>21, <2>1, <2>2 DEF PutNothing, Shape, worker, comp
<1>12. ASSUME NEW r \in Reqs, Pass(r) PROVE Shape'
  BY <1>12 DEF Pass, Shape, worker, algo, comp
<1>13. ASSUME NEW c \in Completers, cpc[c] = "take", finish_q # <<>>,
              finish_q' = Tail(finish_q)
       PROVE  /\ Head(finish_q) \in Reqs
              /\ finish_q' \in Seq(Reqs) /\ Len(finish_q') <= FinishCap
  <2>1. /\ finish_q \in Seq(Reqs) /\ Injective(finish_q, unwritten)
        /\ Len(finish_q) \in Nat /\ Len(finish_q) <= FinishCap
    BY DEF Shape, Injected
  <2>. QED
    BY <1>13, <2>1, TailFacts, PathAssumption
<1>22. ASSUME NEW c \in Completers, NEW r \in Reqs, Ends(c, r)
       PROVE  /\ holding' \in [Completers -> Reqs \union {NULL}]
              /\ cpc' \in [Completers -> {"take", "head", "more", "end"}]
              /\ resume' \in [Completers -> {"take", "head", "more"}]
              /\ \A d \in Completers : cpc'[d] = "end" <=> holding'[d] # NULL
  <2>1. PICK to \in {"take", "head", "more"} : resume' = [resume EXCEPT ![c] = to]
    BY <1>22 DEF Ends
  <2>. QED
    BY <1>22, <2>1 DEF Ends, Shape
<1>14. ASSUME NEW c \in Completers, TakeDue(c) PROVE Shape'
  <2>1. /\ Head(finish_q) \in Reqs /\ Ends(c, Head(finish_q))
        /\ finish_q' \in Seq(Reqs) /\ Len(finish_q') <= FinishCap
    BY <1>13, <1>14 DEF TakeDue
  <2>. QED
    BY <1>14, <1>22, <2>1 DEF TakeDue, Shape, worker, algo
<1>15. ASSUME NEW c \in Completers, TakeLate(c) PROVE Shape'
  <2>1. /\ Head(finish_q) \in Reqs
        /\ finish_q' \in Seq(Reqs) /\ Len(finish_q') <= FinishCap
    BY <1>13, <1>15 DEF TakeLate
  <2>2. complete_q' \in [Completers -> [Reqs -> Nat]]
    BY <1>15, <2>1 DEF TakeLate, Shape
  <2>. QED
    BY <1>15, <2>1, <2>2 DEF TakeLate, Shape, worker, algo
<1>16. ASSUME NEW c \in Completers, TakeNone(c) PROVE Shape'
  BY <1>16 DEF TakeNone, Shape, worker, algo
<1>17. ASSUME NEW c \in Completers, EndHead(c) PROVE Shape'
  <2>1. PICK r \in Queued(c) : /\ complete_q' = [complete_q EXCEPT ![c][r] = @ - 1]
                               /\ Ends(c, r)
    BY <1>17 DEF EndHead
  <2>2. r \in Reqs /\ complete_q[c][r] \in Nat /\ complete_q[c][r] > 0
    BY <2>1 DEF Queued, Shape
  <2>3. complete_q[c][r] - 1 \in Nat
    BY <2>2
  <2>4. complete_q' \in [Completers -> [Reqs -> Nat]]
    BY <2>1, <2>2, <2>3 DEF Shape
  <2>. QED
    BY <1>17, <1>22, <2>1, <2>2, <2>4 DEF EndHead, Shape, worker, algo
<1>18. ASSUME NEW c \in Completers, NoHead(c) PROVE Shape'
  BY <1>18 DEF NoHead, Shape, worker, algo
<1>19. ASSUME NEW c \in Completers, end_request(c) PROVE Shape'
  <2>1. holding[c] \in Reqs /\ holding[c][1] \in Workers
    BY <1>19 DEF end_request, Shape
  <2>2. /\ nr_ios' \in [Workers -> Int] /\ ended' \subseteq Reqs
        /\ holding' \in [Completers -> Reqs \union {NULL}]
        /\ cpc' \in [Completers -> {"take", "head", "more", "end"}]
    BY <1>19, <2>1 DEF end_request, Shape
  <2>3. \A d \in Completers : cpc'[d] = "end" <=> holding'[d] # NULL
    <3>1. resume[c] # "end" /\ cpc' = [cpc EXCEPT ![c] = resume[c]]
          /\ holding' = [holding EXCEPT ![c] = NULL]
      BY <1>19 DEF end_request, Shape
    <3>. QED
      BY <3>1 DEF Shape
  <2>4. UNCHANGED <<wpc, sent, req_q, retry_q, finish_q, apc, cur, suspends, late,
                    unwritten, resume, complete_q>>
    BY <1>19 DEF end_request, algo
  <2>. QED
    BY <2>2, <2>3, <2>4 DEF Shape
<1>20. CASE UNCHANGED vars
  BY <1>20 DEF vars, worker, algo, comp, Shape
<1>. QED
  BY <1>1, <1>2, <1>3, <1>4, <1>5, <1>7, <1>8, <1>9, <1>10, <1>11, <1>12, <1>14,
     <1>15, <1>16, <1>17, <1>18, <1>19, <1>20, <1>21
     DEF Next, Worker, algo_thread, process_cq_cpl

-----------------------------------------------------------------------------
Nowhere == <<"nowhere", NULL>>

\* Request r is in the place x and in no other.
Only(x, r) == \A y \in Spots : In(y, r) <=> y = x

\* Where a request that is only in place x is not.
LEMMA OnlyFacts ==
    ASSUME NEW r, NEW x, Only(x, r)
    PROVE  /\ Has(req_q, r) <=> x = <<"req_q", NULL>>
           /\ Has(finish_q, r) <=> x = <<"finish_q", NULL>>
           /\ r \in retry_q <=> x = <<"retry_q", NULL>>
           /\ cur = r <=> x = <<"algo", NULL>>
           /\ \A c \in Completers : /\ complete_q[c][r] > 0 <=> x = <<"complete_q", c>>
                                    /\ holding[c] = r <=> x = <<"holding", c>>
<1>1. /\ In(<<"req_q", NULL>>, r) <=> Has(req_q, r)
      /\ In(<<"finish_q", NULL>>, r) <=> Has(finish_q, r)
      /\ In(<<"retry_q", NULL>>, r) <=> r \in retry_q
      /\ In(<<"algo", NULL>>, r) <=> cur = r
      /\ \A c \in Completers : /\ In(<<"complete_q", c>>, r) <=> complete_q[c][r] > 0
                               /\ In(<<"holding", c>>, r) <=> holding[c] = r
  BY DEF In
<1>2. /\ <<"req_q", NULL>> \in Spots /\ <<"finish_q", NULL>> \in Spots
      /\ <<"retry_q", NULL>> \in Spots /\ <<"algo", NULL>> \in Spots
      /\ \A c \in Completers : <<"complete_q", c>> \in Spots /\ <<"holding", c>> \in Spots
  BY DEF Spots
<1>3. \A y \in Spots : In(y, r) <=> x = y
  BY DEF Only
<1> HIDE DEF In, Spots
<1>4. /\ In(<<"req_q", NULL>>, r) <=> x = <<"req_q", NULL>>
      /\ In(<<"finish_q", NULL>>, r) <=> x = <<"finish_q", NULL>>
      /\ In(<<"retry_q", NULL>>, r) <=> x = <<"retry_q", NULL>>
      /\ In(<<"algo", NULL>>, r) <=> x = <<"algo", NULL>>
  BY <1>2, <1>3, Zenon
<1>5. ASSUME NEW c \in Completers
      PROVE  /\ complete_q[c][r] > 0 <=> x = <<"complete_q", c>>
             /\ holding[c] = r <=> x = <<"holding", c>>
  BY <1>1, <1>2, <1>3, Zenon
<1>. QED
  BY <1>1, <1>4, <1>5, Zenon

\* Where a request in flight is, and that any other is nowhere.
LEMMA Located ==
    ASSUME OneSpot, NEW r \in Reqs \ unwritten
    PROVE  /\ \A x \in Spots : In(x, r) => Only(x, r)
           /\ r \notin InFlight => Only(Nowhere, r)
<1>1. Nowhere \notin Spots
  BY DEF Nowhere, Spots
<1>. QED
  BY <1>1 DEF OneSpot, Only

\* A step moves request r to y and touches no other, as far as they have met no
\* page never written by then.
Moved(r, y) ==
    \A s \in Reqs \ unwritten' :
        /\ Has(req_q', s) <=> IF s = r THEN y = <<"req_q", NULL>> ELSE Has(req_q, s)
        /\ Has(finish_q', s) <=> IF s = r THEN y = <<"finish_q", NULL>> ELSE Has(finish_q, s)
        /\ s \in retry_q' <=> IF s = r THEN y = <<"retry_q", NULL>> ELSE s \in retry_q
        /\ cur' = s <=> IF s = r THEN y = <<"algo", NULL>> ELSE cur = s
        /\ \A c \in Completers : complete_q'[c][s] > 0 <=>
              IF s = r THEN y = <<"complete_q", c>> ELSE complete_q[c][s] > 0
        /\ \A c \in Completers : holding'[c] = s <=>
              IF s = r THEN y = <<"holding", c>> ELSE holding[c] = s

\* A request that moves from nowhere or one place to another, or to nowhere,
\* while all others stay, keeps each request in flight in one place.
LEMMA Rehoused ==
    ASSUME OneSpot, unwritten \subseteq unwritten',
           NEW r \in Reqs, NEW y \in Spots \union {Nowhere}, Moved(r, y),
           \A s \in Reqs \ {r} : s \in InFlight' <=> s \in InFlight,
           r \notin unwritten' => (r \in InFlight' <=> y # Nowhere)
    PROVE  OneSpot'
<1> DEFINE O == Reqs \ unwritten'
<1>1. \A x \in Spots, s \in O \ {r} : In(x, s)' <=> In(x, s)
  BY DEF In, Moved
<1>2. ASSUME r \in O PROVE \A x \in Spots : In(x, r)' <=> x = y
  <2>1. SUFFICES ASSUME NEW x \in Spots PROVE In(x, r)' <=> x = y
    OBVIOUS
  <2>2. \/ x \in {<<"req_q", NULL>>, <<"finish_q", NULL>>, <<"retry_q", NULL>>, <<"algo", NULL>>}
        \/ \E c \in Completers : x = <<"complete_q", c>>
        \/ \E c \in Completers : x = <<"holding", c>>
    BY DEF Spots
  <2>. QED
    BY <1>2, <2>2 DEF In, Moved
<1>3. Nowhere \notin Spots
  BY DEF Nowhere, Spots
<1>4. \A s \in O : s \in InFlight' <=> \E x \in Spots : In(x, s)'
  BY <1>1, <1>2, <1>3 DEF OneSpot
<1>5. \A s \in O : \A x, z \in Spots : In(x, s)' /\ In(z, s)' => x = z
  BY <1>1, <1>2 DEF OneSpot
<1>. QED
  BY <1>4, <1>5 DEF OneSpot

-----------------------------------------------------------------------------
\* Every step leaves each request in flight in one place, if it has met no page
\* never written.
LEMMA SpotsKept ==
    ASSUME Shape, Injected, OneSpot, EndedWasSent, [Next]_vars
    PROVE  Injected' /\ OneSpot' /\ EndedWasSent' /\ unwritten \subseteq unwritten'
<1> DEFINE Kept == Injected' /\ OneSpot' /\ EndedWasSent' /\ unwritten \subseteq unwritten'
<1> USE ReqFacts
<1>1. ASSUME UNCHANGED <<sent, req_q, retry_q, finish_q, cur, holding, complete_q, ended, unwritten>>
      PROVE  Kept
  BY <1>1 DEF Injected, OneSpot, EndedWasSent, In, InFlight, WasSent
<1>2. ASSUME UNCHANGED <<sent, ended>>
      PROVE  InFlight' = InFlight /\ WasSent' = WasSent
  BY <1>2 DEF InFlight, WasSent
<1>3. ASSUME NEW w \in Workers, submit_req(w) PROVE Kept
  <2> DEFINE r == Next1(w)
  <2>1. /\ sent[w] \in Nat /\ sent[w] < Total(w) /\ Total(w) \in Nat
        /\ req_q \in Seq(Reqs) /\ wpc[w] = "enqueue"
    BY <1>3 DEF submit_req, Shape
  <2>2. r \in Reqs /\ r[1] = w /\ r \notin WasSent
    BY <2>1 DEF Next1, WasSent
  <2>3. /\ req_q' = Append(req_q, r)
        /\ sent' = [sent EXCEPT ![w] = @ + 1]
        /\ UNCHANGED <<retry_q, finish_q, cur, holding, complete_q, ended, unwritten>>
    BY <1>3 DEF submit_req, algo, comp
  <2>4. WasSent' = WasSent \union {r}
    <3>1. sent'[w] = sent[w] + 1 /\ \A v \in Workers \ {w} : sent'[v] = sent[v]
      BY <2>3 DEF Shape
    <3>2. ASSUME NEW s \in Reqs, s[1] = w
          PROVE  s[2] <= sent[w] + 1 <=> s[2] <= sent[w] \/ s = r
      <4>1. s[2] \in Nat /\ s = <<w, s[2]>>
        BY <3>2, ReqFacts
      <4>2. s = r <=> s[2] = sent[w] + 1
        BY <4>1 DEF Next1
      <4>. QED
        BY <2>1, <4>1, <4>2
    <3>3. \A s \in Reqs : s[1] # w => s # r
      BY <2>2
    <3>4. \A s \in Reqs : s[2] <= sent'[s[1]] <=> s[2] <= sent[s[1]] \/ s = r
      BY <3>1, <3>2, <3>3
    <3> HIDE DEF r
    <3>. QED
      BY <2>2, <3>4 DEF WasSent
  <2>5. r \notin InFlight /\ r \notin ended /\ r \notin unwritten
    BY <2>2 DEF InFlight, EndedWasSent
  <2> HIDE DEF r
  <2>6. /\ r \in InFlight'
        /\ \A s \in Reqs \ {r} : s \in InFlight' <=> s \in InFlight
    BY <2>2, <2>3, <2>4, <2>5 DEF InFlight
  <2>7. Only(Nowhere, r)
    BY <2>2, <2>5, Located
  <2>8. /\ ~Has(req_q, r) /\ ~Has(finish_q, r) /\ r \notin retry_q /\ cur # r
        /\ \A c \in Completers : ~(complete_q[c][r] > 0) /\ holding[c] # r
    BY <2>7, OnlyFacts DEF Nowhere
  <2>9. /\ \A s \in Reqs : Has(req_q', s) <=> s = r \/ Has(req_q, s)
        /\ Injective(req_q', {})
    BY <2>1, <2>2, <2>3, <2>8, AppendFacts DEF Injected
  <2>10. OneSpot'
    <3>1. <<"req_q", NULL>> \in Spots /\ <<"req_q", NULL>> # Nowhere
      BY DEF Spots, Nowhere
    <3>2. Moved(r, <<"req_q", NULL>>)
      BY <2>3, <2>8, <2>9 DEF Moved
    <3>. QED
      BY <2>2, <2>3, <2>6, <3>1, <3>2, Rehoused
  <2>11. EndedWasSent'
    BY <2>3, <2>4 DEF EndedWasSent
  <2>. QED
    BY <2>3, <2>9, <2>10, <2>11 DEF Injected
<1>4. ASSUME NEW r \in Reqs, NEW x \in {<<"req_q", NULL>>, <<"retry_q", NULL>>},
             r \notin unwritten => Only(x, r) /\ r \in InFlight,
             apc \notin {"put", "put_nothing"}, Injective(req_q', {}),
             \A s \in Reqs \ unwritten : Has(req_q', s) <=> s # r /\ Has(req_q, s),
             Serve(r), UNCHANGED <<sent, finish_q, holding, complete_q, ended>>
      PROVE  Kept
  <2>1. /\ cur = NULL /\ NULL \notin Reqs
        /\ r \notin unwritten => /\ ~Has(finish_q, r)
                                 /\ \A c \in Completers : ~(complete_q[c][r] > 0) /\ holding[c] # r
    BY <1>4, OnlyFacts DEF Shape
  <2>2. r \in WasSent /\ InFlight' = InFlight /\ WasSent' = WasSent
    BY <1>2, <1>4 DEF EndedWasSent, InFlight
  <2>3. CASE Suspend(r)
    <3>1. <<"retry_q", NULL>> \in Spots /\ <<"retry_q", NULL>> # Nowhere
      BY DEF Spots, Nowhere
    <3>2. Moved(r, <<"retry_q", NULL>>)
      BY <1>4, <2>1, <2>3 DEF Suspend, Moved
    <3>3. unwritten' = unwritten
      BY <2>3 DEF Suspend
    <3>4. OneSpot'
      BY <1>4, <2>2, <3>1, <3>2, <3>3, Rehoused
    <3>. QED
      BY <1>4, <2>2, <3>3, <3>4 DEF Injected, EndedWasSent
  <2>4. CASE LoadNothing(r)
    <3>1. <<"algo", NULL>> \in Spots /\ unwritten' = unwritten \union {r}
      BY <2>4 DEF Spots, LoadNothing
    <3>2. Moved(r, <<"algo", NULL>>)
      BY <1>4, <2>1, <2>4 DEF LoadNothing, Moved
    <3>3. OneSpot'
      BY <1>4, <2>2, <3>1, <3>2, Rehoused
    <3>4. Injective(finish_q, unwritten') /\ \A c \in Completers, s \in Reqs \ unwritten' : complete_q[c][s] <= 1
      BY <3>1 DEF Injected, Injective
    <3>. QED
      BY <1>4, <2>2, <3>1, <3>3, <3>4 DEF Injected, EndedWasSent
  <2>5. CASE Complete(r)
    <3>1. <<"algo", NULL>> \in Spots /\ <<"algo", NULL>> # Nowhere
      BY DEF Spots, Nowhere
    <3>2. Moved(r, <<"algo", NULL>>)
      BY <1>4, <2>1, <2>5 DEF Complete, Moved
    <3>3. unwritten' = unwritten
      BY <2>5 DEF Complete
    <3>4. OneSpot'
      BY <1>4, <2>2, <3>1, <3>2, <3>3, Rehoused
    <3>. QED
      BY <1>4, <2>2, <3>3, <3>4 DEF Injected, EndedWasSent
  <2>. QED
    BY <1>4, <2>3, <2>4, <2>5 DEF Serve
<1>5. CASE ServeRetry
  <2>1. PICK r \in retry_q \ late : Serve(r) \/ Forgotten(r)
    BY <1>5 DEF ServeRetry
  <2>2. r \in Reqs /\ <<"retry_q", NULL>> \in Spots /\ In(<<"retry_q", NULL>>, r)
    BY DEF Shape, Spots, In
  <2>3. r \notin unwritten => Only(<<"retry_q", NULL>>, r) /\ r \in InFlight
    BY <2>2, Located DEF OneSpot
  <2>4. /\ apc \notin {"put", "put_nothing"}
        /\ UNCHANGED <<sent, finish_q, holding, complete_q, ended>>
    BY <1>5 DEF ServeRetry, worker, comp
  <2>5. req_q' = req_q /\ Injective(req_q', {}) /\ (r \notin unwritten => ~Has(req_q, r))
    BY <1>5, <2>3, OnlyFacts DEF ServeRetry, Injected
  <2>6. CASE Serve(r)
    <3>1. \A s \in Reqs \ unwritten : Has(req_q', s) <=> s # r /\ Has(req_q, s)
      BY <2>5
    <3>. QED
      BY <1>4, <2>2, <2>3, <2>4, <2>5, <2>6, <3>1
  <2>7. CASE Forgotten(r)
    <3>1. /\ r \in unwritten /\ retry_q' = retry_q \ {r}
          /\ UNCHANGED <<cur, unwritten>>
      BY <2>3, <2>7 DEF Forgotten, algo, InFlight
    <3>2. Moved(r, Nowhere)
      BY <2>4, <2>5, <3>1 DEF Moved
    <3>3. InFlight' = InFlight /\ WasSent' = WasSent
      BY <1>2, <2>4
    <3>4. OneSpot'
      BY <2>2, <3>1, <3>2, <3>3, Rehoused
    <3>. QED
      BY <2>4, <2>5, <3>1, <3>3, <3>4 DEF Injected, EndedWasSent
  <2>. QED
    BY <2>1, <2>6, <2>7
<1>6. CASE ServeRequest
  <2> DEFINE r == Head(req_q)
  <2>1. /\ req_q # <<>> /\ req_q \in Seq(Reqs) /\ Injective(req_q, {})
        /\ req_q' = Tail(req_q) /\ Serve(r) /\ apc \notin {"put", "put_nothing"}
        /\ UNCHANGED <<sent, finish_q, holding, complete_q, ended>>
    BY <1>6 DEF ServeRequest, worker, comp, Shape, Injected
  <2> HIDE DEF r
  <2>2. /\ r \in Reqs /\ Has(req_q, r) /\ Injective(req_q', {})
        /\ \A s : Has(req_q', s) <=> s # r /\ Has(req_q, s)
    BY <2>1, TailFacts DEF r
  <2>3. <<"req_q", NULL>> \in Spots /\ In(<<"req_q", NULL>>, r)
    BY <2>2 DEF Spots, In
  <2>4. r \notin unwritten => Only(<<"req_q", NULL>>, r) /\ r \in InFlight
    BY <2>2, <2>3, Located DEF OneSpot
  <2>. QED
    BY <1>4, <2>1, <2>2, <2>4
<1>7. CASE Put
  <2>1. /\ cur \in Reqs /\ finish_q \in Seq(Reqs) /\ Injective(finish_q, unwritten)
        /\ finish_q' = Append(finish_q, cur) /\ cur' = NULL /\ NULL \notin Reqs
        /\ UNCHANGED <<sent, req_q, retry_q, holding, complete_q, ended, unwritten>>
    BY <1>7 DEF Put, worker, comp, Shape, Injected
  <2>2. <<"algo", NULL>> \in Spots /\ In(<<"algo", NULL>>, cur)
    BY <2>1 DEF Spots, In
  <2>3. cur \notin unwritten => Only(<<"algo", NULL>>, cur) /\ cur \in InFlight
    BY <2>1, <2>2, Located DEF OneSpot
  <2>4. cur \notin unwritten =>
           /\ ~Has(finish_q, cur) /\ ~Has(req_q, cur) /\ cur \notin retry_q
           /\ \A c \in Completers : ~(complete_q[c][cur] > 0) /\ holding[c] # cur
    BY <2>3, OnlyFacts
  <2>5. /\ \A s : Has(finish_q', s) <=> s = cur \/ Has(finish_q, s)
        /\ Injective(finish_q', unwritten)
    BY <2>1, <2>4, AppendFacts
  <2>6. <<"finish_q", NULL>> \in Spots /\ <<"finish_q", NULL>> # Nowhere
    BY DEF Spots, Nowhere
  <2>7. InFlight' = InFlight /\ WasSent' = WasSent
    BY <1>2, <2>1
  <2>8. OneSpot'
    <3>1. Moved(cur, <<"finish_q", NULL>>)
      BY <2>1, <2>4, <2>5 DEF Moved
    <3>. QED
      BY <2>1, <2>3, <2>6, <2>7, <3>1, Rehoused
  <2>. QED
    BY <2>1, <2>5, <2>7, <2>8 DEF Injected, EndedWasSent
<1>19. CASE PutNothing
  <2>1. /\ cur \in Reqs /\ cur \in unwritten
        /\ finish_q \in Seq(Reqs) /\ Injective(finish_q, unwritten)
        /\ finish_q' = Append(finish_q, cur) /\ retry_q' = retry_q \union {cur}
        /\ UNCHANGED <<sent, req_q, cur, holding, complete_q, ended, unwritten>>
    BY <1>19 DEF PutNothing, worker, comp, Shape, Injected
  <2>2. /\ \A s : Has(finish_q', s) <=> s = cur \/ Has(finish_q, s)
        /\ Injective(finish_q', unwritten)
    BY <2>1, AppendFacts
  <2>3. InFlight' = InFlight /\ WasSent' = WasSent
    BY <1>2, <2>1
  <2>4. Moved(cur, Nowhere)
    BY <2>1, <2>2 DEF Moved
  <2>5. OneSpot'
    BY <2>1, <2>3, <2>4, Rehoused
  <2>. QED
    BY <2>1, <2>2, <2>3, <2>5 DEF Injected, EndedWasSent
<1>8. ASSUME NEW c \in Completers, cpc[c] = "take", finish_q # <<>>,
             finish_q' = Tail(finish_q)
      PROVE  /\ Head(finish_q) \in Reqs /\ holding[c] = NULL /\ NULL \notin Reqs
             /\ Injective(finish_q', unwritten)
             /\ \A s : s \notin unwritten =>
                   (Has(finish_q', s) <=> s # Head(finish_q) /\ Has(finish_q, s))
             /\ Head(finish_q) \notin unwritten =>
                   /\ Head(finish_q) \in InFlight
                   /\ Only(<<"finish_q", NULL>>, Head(finish_q))
  <2> DEFINE r == Head(finish_q)
  <2>1. finish_q \in Seq(Reqs) /\ Injective(finish_q, unwritten) /\ holding[c] = NULL
    BY <1>8 DEF Shape, Injected
  <2> HIDE DEF r
  <2>2. /\ r \in Reqs /\ Has(finish_q, r) /\ Injective(finish_q', unwritten)
        /\ \A s : s \notin unwritten => (Has(finish_q', s) <=> s # r /\ Has(finish_q, s))
    BY <1>8, <2>1, TailFacts DEF r
  <2>3. <<"finish_q", NULL>> \in Spots /\ In(<<"finish_q", NULL>>, r)
    BY <2>2 DEF Spots, In
  <2>4. r \notin unwritten => Only(<<"finish_q", NULL>>, r) /\ r \in InFlight
    BY <2>2, <2>3, Located DEF OneSpot
  <2>. QED
    BY <2>1, <2>2, <2>4 DEF r
<1>9. ASSUME NEW c \in Completers
      PROVE  /\ <<"complete_q", c>> \in Spots /\ <<"complete_q", c>> # Nowhere
             /\ <<"holding", c>> \in Spots /\ <<"holding", c>> # Nowhere
             /\ \A x \in {<<"complete_q", c>>, <<"holding", c>>} :
                   /\ x # <<"req_q", NULL>> /\ x # <<"finish_q", NULL>>
                   /\ x # <<"retry_q", NULL>> /\ x # <<"algo", NULL>>
             /\ \A d \in Completers :
                   /\ <<"complete_q", c>> # <<"holding", d>>
                   /\ <<"holding", c>> # <<"complete_q", d>>
                   /\ <<"complete_q", c>> = <<"complete_q", d>> <=> c = d
                   /\ <<"holding", c>> = <<"holding", d>> <=> c = d
  BY DEF Spots, Nowhere
<1>10. ASSUME NEW c \in Completers, TakeDue(c) PROVE Kept
  <2> DEFINE r == Head(finish_q)
  <2>1. /\ cpc[c] = "take" /\ finish_q # <<>> /\ finish_q' = Tail(finish_q)
        /\ holding' = [holding EXCEPT ![c] = r]
        /\ UNCHANGED <<sent, req_q, retry_q, cur, complete_q, ended, unwritten>>
    BY <1>10 DEF TakeDue, Ends, worker, algo
  <2>2. /\ r \in Reqs /\ holding[c] = NULL /\ NULL \notin Reqs
        /\ Injective(finish_q', unwritten)
        /\ \A s : s \notin unwritten => (Has(finish_q', s) <=> s # r /\ Has(finish_q, s))
        /\ r \notin unwritten => r \in InFlight /\ Only(<<"finish_q", NULL>>, r)
    BY <1>8, <2>1
  <2> HIDE DEF r
  <2>3. r \notin unwritten =>
           /\ ~Has(req_q, r) /\ r \notin retry_q /\ cur # r
           /\ \A d \in Completers : ~(complete_q[d][r] > 0) /\ holding[d] # r
    BY <2>2, OnlyFacts
  <2>4. \A s \in Reqs \ unwritten, d \in Completers : holding'[d] = s <=>
           IF s = r THEN <<"holding", c>> = <<"holding", d>> ELSE holding[d] = s
    <3>1. \A d \in Completers : holding'[d] = IF d = c THEN r ELSE holding[d]
      BY <2>1 DEF Shape
    <3>2. \A d \in Completers : <<"holding", c>> = <<"holding", d>> <=> c = d
      BY <1>9
    <3>. QED
      BY <2>2, <2>3, <3>1, <3>2
  <2>5. InFlight' = InFlight /\ WasSent' = WasSent
    BY <1>2, <2>1
  <2>6. OneSpot'
    <3>1. Moved(r, <<"holding", c>>)
      BY <1>9, <2>1, <2>2, <2>3, <2>4 DEF Moved
    <3>. QED
      BY <1>9, <2>1, <2>2, <2>5, <3>1, Rehoused
  <2>. QED
    BY <2>1, <2>2, <2>5, <2>6 DEF Injected, EndedWasSent
<1>11. ASSUME NEW c \in Completers, TakeLate(c) PROVE Kept
  <2> DEFINE r == Head(finish_q)
  <2>1. /\ cpc[c] = "take" /\ finish_q # <<>> /\ finish_q' = Tail(finish_q)
        /\ complete_q' = [complete_q EXCEPT ![c][r] = @ + 1]
        /\ UNCHANGED <<sent, req_q, retry_q, cur, holding, ended, unwritten>>
    BY <1>11 DEF TakeLate, worker, algo
  <2>2. /\ r \in Reqs /\ Injective(finish_q', unwritten)
        /\ \A s : s \notin unwritten => (Has(finish_q', s) <=> s # r /\ Has(finish_q, s))
        /\ r \notin unwritten => r \in InFlight /\ Only(<<"finish_q", NULL>>, r)
    BY <1>8, <2>1
  <2> HIDE DEF r
  <2>3. r \notin unwritten =>
           /\ ~Has(req_q, r) /\ r \notin retry_q /\ cur # r
           /\ \A d \in Completers : ~(complete_q[d][r] > 0) /\ holding[d] # r
    BY <2>2, OnlyFacts
  <2>4. \A d \in Completers, s \in Reqs : /\ complete_q[d][s] \in Nat
           /\ complete_q'[d][s] = IF d = c /\ s = r THEN complete_q[d][s] + 1 ELSE complete_q[d][s]
    <3>1. /\ complete_q \in [Completers -> [Reqs -> Nat]]
          /\ complete_q' = [complete_q EXCEPT ![c] = [complete_q[c] EXCEPT ![r] = @ + 1]]
      BY <2>1 DEF Shape
    <3>. QED
      BY <2>2, <3>1
  <2>5. \A s \in Reqs \ unwritten, d \in Completers :
           /\ complete_q'[d][s] > 0 <=>
                 IF s = r THEN <<"complete_q", c>> = <<"complete_q", d>>
                          ELSE complete_q[d][s] > 0
           /\ complete_q'[d][s] <= 1
    BY <1>9, <2>3, <2>4 DEF Injected
  <2>6. InFlight' = InFlight /\ WasSent' = WasSent
    BY <1>2, <2>1
  <2>7. OneSpot'
    <3>1. Moved(r, <<"complete_q", c>>)
      BY <1>9, <2>1, <2>2, <2>3, <2>5 DEF Moved
    <3>. QED
      BY <1>9, <2>1, <2>2, <2>6, <3>1, Rehoused
  <2>. QED
    BY <2>1, <2>2, <2>5, <2>6, <2>7 DEF Injected, EndedWasSent
<1>12. ASSUME NEW c \in Completers, EndHead(c) PROVE Kept
  <2>1. PICK r \in Queued(c) \ late :
           /\ complete_q' = [complete_q EXCEPT ![c][r] = @ - 1]
           /\ Ends(c, r)
    BY <1>12 DEF EndHead
  <2>2. /\ holding' = [holding EXCEPT ![c] = r] /\ holding[c] = NULL
        /\ UNCHANGED <<sent, req_q, retry_q, finish_q, cur, ended, unwritten>>
        /\ r \in Reqs /\ complete_q[c][r] > 0 /\ NULL \notin Reqs
    BY <1>12, <2>1 DEF EndHead, Ends, Queued, worker, algo, Shape
  <2>3. In(<<"complete_q", c>>, r)
    BY <2>2 DEF In
  <2>4. r \notin unwritten => Only(<<"complete_q", c>>, r) /\ r \in InFlight
    BY <1>9, <2>2, <2>3, Located DEF OneSpot
  <2>5. r \notin unwritten =>
           /\ ~Has(req_q, r) /\ ~Has(finish_q, r) /\ r \notin retry_q /\ cur # r
           /\ \A d \in Completers : /\ complete_q[d][r] > 0 => d = c
                                    /\ holding[d] # r
    BY <1>9, <2>4, OnlyFacts
  <2>6. \A d \in Completers, s \in Reqs : /\ complete_q[d][s] \in Nat
           /\ complete_q'[d][s] = IF d = c /\ s = r THEN complete_q[d][s] - 1 ELSE complete_q[d][s]
    BY <2>1, <2>2 DEF Shape
  <2>7. \A s \in Reqs \ unwritten, d \in Completers :
           /\ complete_q'[d][s] > 0 <=> s # r /\ complete_q[d][s] > 0
           /\ complete_q'[d][s] <= 1
    BY <2>5, <2>6 DEF Injected
  <2>8. \A s \in Reqs \ unwritten, d \in Completers : holding'[d] = s <=>
              IF s = r THEN c = d ELSE holding[d] = s
    BY <2>2, <2>5 DEF Shape
  <2>9. InFlight' = InFlight /\ WasSent' = WasSent
    BY <1>2, <2>2
  <2>10. OneSpot'
    <3>1. Moved(r, <<"holding", c>>)
      BY <1>9, <2>2, <2>5, <2>7, <2>8 DEF Moved
    <3>. QED
      BY <1>9, <2>2, <2>4, <2>9, <3>1, Rehoused
  <2>. QED
    BY <2>2, <2>7, <2>9, <2>10 DEF Injected, EndedWasSent
<1>13. ASSUME NEW c \in Completers, end_request(c) PROVE Kept
  <2> DEFINE r == holding[c]
  <2>1. /\ r \in Reqs /\ NULL \notin Reqs
        /\ holding' = [holding EXCEPT ![c] = NULL] /\ ended' = ended \union {r}
        /\ UNCHANGED <<sent, req_q, retry_q, finish_q, cur, complete_q, unwritten>>
    BY <1>13 DEF end_request, algo, Shape
  <2>2. In(<<"holding", c>>, r)
    BY DEF In
  <2>3. \A s \in Reqs, d \in Completers :
           holding'[d] = s <=> d # c /\ holding[d] = s
    BY <2>1 DEF Shape
  <2> HIDE DEF r
  <2>4. r \notin unwritten => Only(<<"holding", c>>, r) /\ r \in InFlight
    BY <1>9, <2>1, <2>2, Located DEF OneSpot
  <2>5. r \notin unwritten =>
           /\ ~Has(req_q, r) /\ ~Has(finish_q, r) /\ r \notin retry_q /\ cur # r
           /\ \A d \in Completers : /\ ~(complete_q[d][r] > 0)
                                    /\ holding[d] = r => d = c
    BY <1>9, <2>4, OnlyFacts
  <2>6. /\ \A s \in Reqs \ {r} : s \in InFlight' <=> s \in InFlight
        /\ r \notin InFlight' /\ EndedWasSent'
    <3>1. WasSent' = WasSent
      BY <2>1 DEF WasSent
    <3>. QED
      BY <2>1, <2>4, <3>1 DEF InFlight, EndedWasSent
  <2>7. \A s \in Reqs \ unwritten, d \in Completers : holding'[d] = s <=>
           IF s = r THEN FALSE ELSE holding[d] = s
    BY <2>3, <2>5 DEF r
  <2>8. OneSpot'
    <3>1. \A d \in Completers : Nowhere # <<"holding", d>> /\ Nowhere # <<"complete_q", d>>
      BY DEF Nowhere
    <3>2. Moved(r, Nowhere)
      BY <2>1, <2>5, <2>7, <3>1 DEF Moved, Nowhere
    <3>. QED
      BY <2>1, <2>6, <3>2, Rehoused
  <2>. QED
    BY <2>1, <2>6, <2>8 DEF Injected
<1>14. ASSUME NEW w \in Workers,
              LookAtDepth(w) \/ AddToDepth(w) \/ Await(w) \/ Return(w)
       PROVE  Kept
  BY <1>1, <1>14 DEF LookAtDepth, AddToDepth, Await, Return, algo, comp
<1>15. CASE NoRetry \/ NoRequest
  BY <1>1, <1>15 DEF NoRetry, NoRequest, worker, comp
<1>16. ASSUME NEW r \in Reqs, Pass(r) PROVE Kept
  BY <1>1, <1>16 DEF Pass, worker, algo, comp
<1>17. ASSUME NEW c \in Completers, TakeNone(c) \/ NoHead(c) PROVE Kept
  BY <1>1, <1>17 DEF TakeNone, NoHead, worker, algo
<1>18. CASE UNCHANGED vars
  BY <1>1, <1>18 DEF vars, worker, algo, comp
<1>. QED
  BY <1>3, <1>5, <1>6, <1>7, <1>10, <1>11, <1>12, <1>13, <1>14, <1>15, <1>16,
     <1>17, <1>18, <1>19 DEF Next, Worker, algo_thread, process_cq_cpl

-----------------------------------------------------------------------------
\* A worker has sent finitely many requests, those of WasSent that are its own.
LEMMA SentFacts ==
    ASSUME Shape
    PROVE  \A w \in Workers : /\ IsFiniteSet(Sent(w))
                              /\ Sent(w) = {r \in WasSent : r[1] = w}
                              /\ IsFiniteSet(Flights[w])
                              /\ Cardinality(Flights[w]) \in Nat
<1> SUFFICES ASSUME NEW w \in Workers
             PROVE  /\ IsFiniteSet(Sent(w))
                    /\ Sent(w) = {r \in WasSent : r[1] = w}
                    /\ IsFiniteSet(Flights[w])
                    /\ Cardinality(Flights[w]) \in Nat
  OBVIOUS
<1>1. /\ sent[w] \in Nat /\ Total(w) \in Nat /\ sent[w] <= Total(w)
  BY ReqFacts DEF Shape
<1>2. Sent(w) = {w} \X (1 .. sent[w])
  <2>1. \A x : x \in Sent(w) <=> \E n \in 1 .. sent[w] : x = <<w, n>>
    BY DEF Sent
  <2>2. \A x : x \in {w} \X (1 .. sent[w]) <=> \E n \in 1 .. sent[w] : x = <<w, n>>
    OBVIOUS
  <2> DEFINE S == Sent(w)
             T == {w} \X (1 .. sent[w])
  <2>3. \A x : x \in S <=> x \in T
    BY <2>1, <2>2
  <2> HIDE DEF S, T
  <2>4. S = T
    BY <2>3
  <2>. QED
    BY <2>4 DEF S, T
<1>3. IsFiniteSet({w}) /\ IsFiniteSet(1 .. sent[w])
  <2>1. IsFiniteSet({w})
    BY FS_Singleton
  <2>2. 1 \in Int /\ sent[w] \in Int
    BY <1>1
  <2>3. IsFiniteSet(1 .. sent[w])
    BY <2>2, FS_Interval
  <2>. QED
    BY <2>1, <2>3
<1>4. IsFiniteSet(Sent(w))
  <2> DEFINE T == 1 .. sent[w]
  <2> HIDE DEF T
  <2>1. IsFiniteSet({w} \X T)
    BY <1>3, FS_Product DEF T
  <2>. QED
    BY <1>2, <2>1 DEF T
<1>5. Sent(w) = {r \in WasSent : r[1] = w}
  <2>1. ASSUME NEW r \in Sent(w) PROVE r \in WasSent /\ r[1] = w
    BY <1>1, <2>1, ReqFacts DEF Sent, WasSent
  <2>2. ASSUME NEW r \in WasSent, r[1] = w PROVE r \in Sent(w)
    BY <1>1, <2>2, ReqFacts DEF Sent, WasSent
  <2>. QED
    BY <2>1, <2>2
<1>6. Flights[w] \in SUBSET Sent(w)
  BY DEF Flights
<1>7. IsFiniteSet(Flights[w])
  BY <1>4, <1>6, FS_Subset
<1>. QED
  BY <1>4, <1>5, <1>7, FS_CardinalityType

\* The counters keep step with the requests.
LEMMA CountedKept ==
    ASSUME Shape, Shape', OneSpot, EndedWasSent, Counted, [Next]_vars,
           unwritten \subseteq unwritten'
    PROVE  Counted'
<1>1. \A w \in Workers : /\ IsFiniteSet(Flights[w]) /\ Cardinality(Flights[w]) \in Nat
                         /\ nr_ios[w] \in Int
  BY SentFacts DEF Shape
<1>14. \A w \in Workers : Found(w)' => Found(w)
  BY DEF Found
<1>2. ASSUME UNCHANGED <<sent, ended>> PROVE Flights' = Flights
  BY <1>2 DEF Flights, Sent
<1>3. ASSUME UNCHANGED <<worker, ended>> PROVE Counted'
  BY <1>2, <1>3, <1>14 DEF Counted, worker
<1>4. ASSUME NEW w \in Workers, LookAtDepth(w) PROVE Counted'
  <2>1. /\ wpc[w] = "check" /\ nr_ios[w] < iodepth
        /\ wpc' = [wpc EXCEPT ![w] = "add"] /\ UNCHANGED <<sent, nr_ios, ended>>
    BY <1>4 DEF LookAtDepth, Goes
  <2>. QED
    BY <1>1, <1>2, <1>14, <2>1 DEF Counted, Shape
<1>5. ASSUME NEW w \in Workers, AddToDepth(w) PROVE Counted'
  <2>1. /\ wpc[w] = "add" /\ wpc' = [wpc EXCEPT ![w] = "enqueue"]
        /\ nr_ios' = [nr_ios EXCEPT ![w] = @ + 1] /\ UNCHANGED <<sent, ended>>
    BY <1>5 DEF AddToDepth, Goes
  <2>2. /\ nr_ios'[w] = nr_ios[w] + 1 /\ wpc'[w] = "enqueue"
        /\ \A v \in Workers \ {w} : nr_ios'[v] = nr_ios[v] /\ wpc'[v] = wpc[v]
    BY <2>1 DEF Shape
  <2>. QED
    BY <1>1, <1>2, <1>14, <2>1, <2>2, PathAssumption DEF Counted
<1>6. ASSUME NEW w \in Workers, submit_req(w) PROVE Counted'
  <2> DEFINE r == Next1(w)
  <2>1. /\ wpc[w] = "enqueue" /\ wpc' = [wpc EXCEPT ![w] = AfterSubmit(w)]
        /\ sent' = [sent EXCEPT ![w] = @ + 1] /\ UNCHANGED <<nr_ios, ended>>
    BY <1>6 DEF submit_req, Goes
  <2>2. /\ wpc'[w] = AfterSubmit(w)
        /\ sent[w] \in Nat /\ sent'[w] = sent[w] + 1
        /\ \A v \in Workers \ {w} : sent'[v] = sent[v] /\ wpc'[v] = wpc[v]
    BY <2>1 DEF Shape
  <2>3. /\ AfterSubmit(w) \in {"await", "check", "sleep"}
        /\ w \in Rmws => AfterSubmit(w) = "await"
    BY PathAssumption DEF AfterSubmit
  <2>4. r \notin Sent(w) /\ r \notin ended
    BY <2>2 DEF Next1, Sent, EndedWasSent, WasSent
  <2>5. Flights'[w] = Flights[w] \union {r} /\ r \notin Flights[w]
    <3>1. 1 .. sent[w] + 1 = (1 .. sent[w]) \union {sent[w] + 1}
      BY <2>2
    <3>2. Flights'[w] = {<<w, n>> : n \in 1 .. sent[w] + 1} \ ended
      BY <2>1, <2>2 DEF Flights, Sent
    <3>3. Flights[w] = {<<w, n>> : n \in 1 .. sent[w]} \ ended
      BY DEF Flights, Sent
    <3>. QED
      BY <2>4, <3>1, <3>2, <3>3 DEF Next1, Sent
  <2>6. \A v \in Workers \ {w} : Flights'[v] = Flights[v]
    BY <2>1, <2>2 DEF Flights, Sent
  <2>7. Cardinality(Flights'[w]) = Cardinality(Flights[w]) + 1
    BY <1>1, <2>5, FS_AddElement
  <2>8. w \in Rmws /\ Found(w) => Cardinality(Flights'[w]) = 1
    BY <2>1, <2>7, FS_EmptySet DEF Counted
  <2> HIDE DEF r
  <2>. QED
    BY <1>1, <1>14, <2>1, <2>2, <2>3, <2>6, <2>7, <2>8 DEF Counted
<1>7. ASSUME NEW w \in Workers, Await(w) PROVE Counted'
  <2>1. /\ wpc[w] = "await" /\ nr_ios[w] <= 0
        /\ nr_ios' = [nr_ios EXCEPT ![w] = 0] /\ UNCHANGED <<sent, ended>>
        /\ wpc' = [wpc EXCEPT ![w] = IF sent[w] < Total(w) THEN "check" ELSE "sleep"]
    BY <1>7 DEF Await, Goes
  <2>2. /\ nr_ios'[w] = 0 /\ wpc'[w] \in {"check", "sleep"}
        /\ \A v \in Workers \ {w} : nr_ios'[v] = nr_ios[v] /\ wpc'[v] = wpc[v]
    BY <2>1 DEF Shape
  <2>3. Found(w) => Cardinality(Flights[w]) = 0
    BY <1>1, <2>1 DEF Counted
  <2>4. Found(w) => Flights[w] = {}
    BY <1>1, <2>3, FS_EmptySet
  <2>. QED
    BY <1>1, <1>2, <1>14, <2>1, <2>2, <2>3, <2>4, PathAssumption DEF Counted
<1>8. ASSUME NEW w \in Workers, Return(w) PROVE Counted'
  <2>1. /\ wpc' = [wpc EXCEPT ![w] = "returned"] /\ wpc[w] = "sleep"
        /\ UNCHANGED <<sent, nr_ios, ended>>
    BY <1>8 DEF Return, Goes
  <2>. QED
    BY <1>1, <1>2, <1>14, <2>1 DEF Counted, Shape
<1>9. CASE algo_thread
  BY <1>3, <1>9
     DEF algo_thread, ServeRetry, NoRetry, ServeRequest, NoRequest, PutNothing, Put
<1>10. ASSUME NEW r \in Reqs, Pass(r) PROVE Counted'
  BY <1>3, <1>10 DEF Pass
<1>11. ASSUME NEW c \in Completers,
              TakeDue(c) \/ TakeLate(c) \/ TakeNone(c) \/ EndHead(c) \/ NoHead(c)
       PROVE  Counted'
  BY <1>3, <1>11 DEF TakeDue, TakeLate, TakeNone, EndHead, NoHead
<1>12. ASSUME NEW c \in Completers, end_request(c) PROVE Counted'
  <2> DEFINE r == holding[c]
             w == holding[c][1]
  <2>1. /\ r \in Reqs /\ w \in Workers
        /\ nr_ios' = [nr_ios EXCEPT ![w] = @ - 1] /\ ended' = ended \union {r}
        /\ UNCHANGED <<wpc, sent>>
    BY <1>12, ReqFacts DEF end_request, Shape
  <2>2. Found(w) => r \in InFlight
    <3>1. <<"holding", c>> \in Spots /\ In(<<"holding", c>>, r)
      BY DEF Spots, In
    <3>2. Found(w) => r \notin unwritten
      BY DEF Found
    <3>. QED
      BY <2>1, <3>1, <3>2 DEF OneSpot
  <2>3. Found(w) => r \in Flights[w]
    BY <2>1, <2>2, SentFacts DEF InFlight, Flights
  <2>4. Flights'[w] = Flights[w] \ {r}
    BY <2>1 DEF Flights, Sent
  <2>5. \A v \in Workers \ {w} : Flights'[v] = Flights[v]
    <3>1. \A v \in Workers \ {w} : r \notin Sent(v)
      BY DEF Sent
    <3>2. \A v \in Workers : Flights'[v] = Flights[v] \ {r}
      BY <2>1 DEF Flights, Sent
    <3>3. \A v \in Workers : Flights[v] \subseteq Sent(v)
      BY DEF Flights
    <3>. QED
      BY <3>1, <3>2, <3>3
  <2> HIDE DEF r, w
  <2>6. Found(w) => Cardinality(Flights'[w]) = Cardinality(Flights[w]) - 1
    <3>1. IsFiniteSet(Flights[w])
      BY <1>1, <2>1, SentFacts
    <3> DEFINE f == Flights[w]
    <3> HIDE DEF f
    <3>2. Found(w) => Cardinality(f \ {r}) = Cardinality(f) - 1
      BY <2>3, <3>1, FS_RemoveElement DEF f
    <3>. QED
      BY <2>4, <3>2 DEF f
  <2>7. /\ nr_ios'[w] = nr_ios[w] - 1
        /\ \A v \in Workers \ {w} : nr_ios'[v] = nr_ios[v]
    BY <2>1 DEF Shape
  <2>8. Found(w) => Flights[w] # {}
    BY <2>3
  <2>9. ASSUME NEW v \in Workers \ {w}
        PROVE  /\ nr_ios'[v] = nr_ios[v] /\ wpc'[v] = wpc[v]
               /\ Flights'[v] = Flights[v] /\ (Found(v)' => Found(v))
    BY <1>14, <2>1, <2>5, <2>7
  <2>10. ASSUME NEW v \in Workers, v = w
         PROVE  /\ nr_ios'[v] <= iodepth
                /\ wpc'[v] = "add" => nr_ios'[v] < iodepth
                /\ Found(v)' =>
                     /\ nr_ios'[v] = Cardinality(Flights'[v]) + (IF wpc'[v] = "enqueue" THEN 1 ELSE 0)
                     /\ v \in Rmws => Cardinality(Flights'[v]) <= 1
                     /\ v \in Rmws /\ wpc'[v] \in {"check", "add", "enqueue"} => Flights'[v] = {}
    BY <1>1, <1>14, <2>1, <2>6, <2>7, <2>8, <2>10, PathAssumption DEF Counted
  <2>. QED
    BY <2>9, <2>10 DEF Counted
<1>13. CASE UNCHANGED vars
  BY <1>3, <1>13 DEF vars
<1>. QED
  BY <1>4, <1>5, <1>6, <1>7, <1>8, <1>9, <1>10, <1>11, <1>12, <1>13
     DEF Next, Worker, process_cq_cpl

\* A step preserves the invariant.
LEMMA StepKeeps == IInv /\ [Next]_vars => IInv'
<1> SUFFICES ASSUME IInv, [Next]_vars PROVE IInv'
  OBVIOUS
<1>1. Shape'
  BY ShapeKeeps DEF IInv
<1>2. Injected' /\ OneSpot' /\ EndedWasSent'
  BY SpotsKept DEF IInv
<1>3. Counted'
  BY <1>1, SpotsKept, CountedKept DEF IInv
<1>. QED
  BY <1>1, <1>2, <1>3 DEF IInv

-----------------------------------------------------------------------------
\* Every reachable state of the threads satisfies the inductive invariant.
THEOREM Invariance == Spec => []IInv
<1>. QED
  BY InitSound, StepKeeps, PTL DEF Spec

\* The variables keep their types, no ring holds more than it has room for, and
\* no counter exceeds iodepth, or is negative unless a read of its worker met a
\* translation page never written.
THEOREM TypeCorrect == Spec => []TypeOK
<1>1. IInv => TypeOK
  <2> SUFFICES ASSUME IInv PROVE TypeOK
    OBVIOUS
  <2>1. Shape /\ Counted
    BY DEF IInv
  <2>2. ASSUME NEW w \in Workers
        PROVE  nr_ios[w] \in Int /\ nr_ios[w] <= iodepth /\ (Found(w) => nr_ios[w] >= 0)
    <3>1. Cardinality(Flights[w]) \in Nat
      BY <2>1, SentFacts
    <3>2. /\ Found(w) => nr_ios[w] = Cardinality(Flights[w])
                                       + (IF wpc[w] = "enqueue" THEN 1 ELSE 0)
          /\ nr_ios[w] <= iodepth /\ nr_ios[w] \in Int
      BY <2>1 DEF Counted, Shape
    <3>. QED
      BY <3>1, <3>2
  <2>3. \A w \in Workers : sent[w] \in 0 .. Total(w)
    <3>1. \A w \in Workers : sent[w] \in Nat /\ sent[w] <= Total(w) /\ Total(w) \in Nat
      BY <2>1, ReqFacts DEF Shape
    <3>. QED
      BY <3>1
  <2>4. /\ wpc \in [Workers -> {"check", "add", "enqueue", "await", "sleep", "returned"}]
        /\ req_q \in Seq(Reqs) /\ finish_q \in Seq(Reqs)
        /\ Len(req_q) <= ReqCap /\ Len(finish_q) <= FinishCap
        /\ suspends \in 0 .. MaxSuspends
    BY <2>1 DEF Shape
  <2>5. /\ retry_q \subseteq Reqs /\ late \subseteq Reqs /\ ended \subseteq Reqs
        /\ unwritten \subseteq Reqs
        /\ apc \in {"retry", "request", "put_nothing", "put"} /\ cur \in Reqs \union {NULL}
        /\ cpc \in [Completers -> {"take", "head", "more", "end"}]
        /\ holding \in [Completers -> Reqs \union {NULL}]
        /\ complete_q \in [Completers -> [Reqs -> Nat]]
    BY <2>1 DEF Shape
  <2>. QED
    BY <2>2, <2>3, <2>4, <2>5 DEF TypeOK
<1>. QED
  BY <1>1, Invariance, PTL

\* But for the reads that met a translation page never written (demand.c:318-330),
\* a request in flight is in one queue or in one thread's hands and any other is
\* nowhere, for every number of workers and completion threads and whatever those
\* reads do to the rings: none is lost, ended twice, or used after its free
\* (demand.c:389-411, test_ext_mem_lat.c:220-309).
THEOREM PlaceCorrect == Spec => []OnePlace
<1>1. IInv => OnePlace
  <2> SUFFICES ASSUME IInv, NEW r \in Reqs \ unwritten
               PROVE  Cardinality(Places(r)) = IF r \in Sent(r[1]) \ ended THEN 1 ELSE 0
    BY DEF OnePlace
  <2>1. r \in Sent(r[1]) \ ended <=> r \in InFlight
    BY ReqFacts, SentFacts DEF IInv, InFlight
  <2>2. CASE r \notin InFlight
    <3>1. /\ ~Has(req_q, r) /\ ~Has(finish_q, r) /\ r \notin retry_q /\ cur # r
          /\ \A c \in Completers : ~(complete_q[c][r] > 0) /\ holding[c] # r
      BY <2>2, Located, OnlyFacts DEF IInv, Nowhere
    <3>2. \A c \in Completers : Copies(c, r) = {}
      <4>1. \A c \in Completers : complete_q[c][r] \in Nat
        BY DEF IInv, Shape
      <4>2. \A c \in Completers : complete_q[c][r] = 0
        BY <3>1, <4>1
      <4>. QED
        BY <4>2 DEF Copies
    <3>3. AllCopies(r) = {}
      BY <3>2 DEF AllCopies
    <3>4. Places(r) = {}
      BY <3>1, <3>3 DEF Places, Has
    <3>. QED
      BY <2>1, <2>2, <3>4, FS_EmptySet
  <2>3. CASE r \in InFlight
    <3>1. PICK x \in Spots : In(x, r)
      BY <2>3 DEF IInv, OneSpot
    <3>2. Only(x, r)
      BY <3>1, Located DEF IInv
    <3>3. /\ Injective(req_q, {}) /\ Injective(finish_q, unwritten)
          /\ \A c \in Completers : complete_q[c][r] \in Nat /\ complete_q[c][r] <= 1
      BY DEF IInv, Injected, Shape
    <3>4. /\ Has(req_q, r) <=> x = <<"req_q", NULL>>
          /\ Has(finish_q, r) <=> x = <<"finish_q", NULL>>
          /\ r \in retry_q <=> x = <<"retry_q", NULL>>
          /\ cur = r <=> x = <<"algo", NULL>>
          /\ \A c \in Completers : /\ complete_q[c][r] > 0 <=> x = <<"complete_q", c>>
                                   /\ holding[c] = r <=> x = <<"holding", c>>
      BY <3>2, OnlyFacts
    <3> DEFINE Q == {j \in DOMAIN req_q : req_q[j] = r}
               F == {j \in DOMAIN finish_q : finish_q[j] = r}
               H == {d \in Completers : holding[d] = r}
    <3>5. Places(r) = {<<"req_q", i>> : i \in Q} \union {<<"finish_q", i>> : i \in F}
                      \union AllCopies(r)
                      \union {<<"holding", c>> : c \in H}
                      \union (IF r \in retry_q THEN {<<"retry_q", 0>>} ELSE {})
                      \union (IF cur = r THEN {<<"algo", 0>>} ELSE {})
      BY DEF Places
    <3>6. /\ x # <<"req_q", NULL>> => Q = {}
          /\ x # <<"finish_q", NULL>> => F = {}
      BY <3>4 DEF Has
    <3>12. ASSUME NEW c \in Completers
           PROVE  Copies(c, r) = IF x = <<"complete_q", c>> THEN {<<"complete_q", c, 1>>} ELSE {}
      <4>1. complete_q[c][r] = IF x = <<"complete_q", c>> THEN 1 ELSE 0
        BY <3>3, <3>4
      <4>2. 1 .. 1 = {1} /\ 1 .. 0 = {}
        OBVIOUS
      <4>. QED
        BY <4>1, <4>2 DEF Copies
    <3>7. /\ (\A c \in Completers : x # <<"complete_q", c>>) => AllCopies(r) = {}
          /\ (\A c \in Completers : x # <<"holding", c>>) => H = {}
      BY <3>4, <3>12 DEF AllCopies
    <3>8. ASSUME x = <<"req_q", NULL>> PROVE \E i : Q = {i}
      <4>1. Has(req_q, r)
        BY <3>4, <3>8
      <4>2. PICK i \in DOMAIN req_q : req_q[i] = r
        BY <4>1 DEF Has
      <4>3. \A j \in DOMAIN req_q : req_q[j] = r => j = i
        BY <3>3, <4>2 DEF Injective
      <4>4. Q = {i}
        BY <4>2, <4>3
      <4>. QED
        BY <4>4
    <3>9. ASSUME x = <<"finish_q", NULL>> PROVE \E i : F = {i}
      <4>1. Has(finish_q, r)
        BY <3>4, <3>9
      <4>2. PICK i \in DOMAIN finish_q : finish_q[i] = r
        BY <4>1 DEF Has
      <4>3. \A j \in DOMAIN finish_q : finish_q[j] = r => j = i
        BY <3>3, <4>2 DEF Injective
      <4>4. F = {i}
        BY <4>2, <4>3
      <4>. QED
        BY <4>4
    <3>10. \A c \in Completers : /\ x = <<"complete_q", c>> => AllCopies(r) = {<<"complete_q", c, 1>>}
                                 /\ x = <<"holding", c>> => H = {c}
      BY <3>4, <3>12 DEF AllCopies
    <3>11. \E p : Places(r) = {p}
      <4> HIDE DEF Q, F, H
      <4>1. CASE x = <<"req_q", NULL>>
        <5>1. F = {} /\ AllCopies(r) = {} /\ H = {} /\ r \notin retry_q /\ cur # r
          BY <3>4, <3>6, <3>7, <4>1
        <5>2. PICK i : Q = {i}
          BY <3>8, <4>1
        <5>3. Places(r) = {<<"req_q", i>>}
          BY <3>5, <5>1, <5>2
        <5>. QED
          BY <5>3
      <4>2. CASE x = <<"finish_q", NULL>>
        <5>1. Q = {} /\ AllCopies(r) = {} /\ H = {} /\ r \notin retry_q /\ cur # r
          BY <3>4, <3>6, <3>7, <4>2
        <5>2. PICK i : F = {i}
          BY <3>9, <4>2
        <5>3. Places(r) = {<<"finish_q", i>>}
          BY <3>5, <5>1, <5>2
        <5>. QED
          BY <5>3
      <4>3. CASE x = <<"retry_q", NULL>>
        <5>1. Q = {} /\ F = {} /\ AllCopies(r) = {} /\ H = {} /\ r \in retry_q /\ cur # r
          BY <3>4, <3>6, <3>7, <4>3
        <5>2. Places(r) = {<<"retry_q", 0>>}
          BY <3>5, <5>1
        <5>. QED
          BY <5>2
      <4>4. CASE x = <<"algo", NULL>>
        <5>1. Q = {} /\ F = {} /\ AllCopies(r) = {} /\ H = {} /\ r \notin retry_q /\ cur = r
          BY <3>4, <3>6, <3>7, <4>4
        <5>2. Places(r) = {<<"algo", 0>>}
          BY <3>5, <5>1
        <5>. QED
          BY <5>2
      <4>5. ASSUME NEW c \in Completers, x = <<"complete_q", c>>
            PROVE  Places(r) = {<<"complete_q", c, 1>>}
        <5>1. Q = {} /\ F = {} /\ H = {} /\ r \notin retry_q /\ cur # r
          BY <3>4, <3>6, <3>7, <4>5
        <5>2. AllCopies(r) = {<<"complete_q", c, 1>>}
          BY <3>10, <4>5
        <5>. QED
          BY <3>5, <5>1, <5>2
      <4>6. ASSUME NEW c \in Completers, x = <<"holding", c>>
            PROVE  Places(r) = {<<"holding", c>>}
        <5>1. Q = {} /\ F = {} /\ AllCopies(r) = {} /\ r \notin retry_q /\ cur # r
          BY <3>4, <3>6, <3>7, <4>6
        <5>2. H = {c}
          BY <3>10, <4>6
        <5>. QED
          BY <3>5, <5>1, <5>2
      <4>7. \/ x \in {<<"req_q", NULL>>, <<"finish_q", NULL>>, <<"retry_q", NULL>>, <<"algo", NULL>>}
            \/ \E c \in Completers : x = <<"complete_q", c>> \/ x = <<"holding", c>>
        BY DEF Spots
      <4>. QED
        BY <4>1, <4>2, <4>3, <4>4, <4>5, <4>6, <4>7
    <3>. QED
      BY <2>1, <2>3, <3>11, FS_Singleton
  <2>. QED
    BY <2>2, <2>3
<1>. QED
  BY <1>1, Invariance, PTL

\* The counter on a worker's stack is at most the depth, and the number of its
\* requests in flight unless a read of it met a translation page never written;
\* a read-modify-write worker has one, with the same exception.
THEOREM DepthCorrect == Spec => []CountsInFlight
<1>1. IInv => CountsInFlight
  BY DEF IInv, Counted, Flights, CountsInFlight
<1>. QED
  BY <1>1, Invariance, PTL

\* No request is ended before its etime, be it a read whose value comes later, a
\* write that waited for a flush, or a read that is ended once more.
THEOREM DueCorrect == Spec => EndsWhenDue
<1> DEFINE Due == \A c \in Completers :
                     holding'[c] \notin {holding[c], NULL} => holding'[c] \notin late
<1>1. IInv /\ [Next]_vars => [Due]_vars
  <2> SUFFICES ASSUME IInv, [Next]_vars PROVE Due \/ UNCHANGED vars
    OBVIOUS
  <2>1. holding \in [Completers -> Reqs \union {NULL}]
    BY DEF IInv, Shape
  <2>2. ASSUME UNCHANGED holding PROVE Due
    BY <2>2
  <2>3. ASSUME NEW c \in Completers, TakeDue(c) PROVE Due
    BY <2>1, <2>3 DEF TakeDue, Ends
  <2>4. ASSUME NEW c \in Completers, EndHead(c) PROVE Due
    BY <2>1, <2>4 DEF EndHead, Ends
  <2>5. ASSUME NEW c \in Completers, end_request(c) PROVE Due
    BY <2>1, <2>5 DEF end_request
  <2>6. ASSUME NEW c \in Completers, TakeLate(c) \/ TakeNone(c) \/ NoHead(c)
        PROVE  UNCHANGED holding
    BY <2>6 DEF TakeLate, TakeNone, NoHead
  <2>7. ASSUME NEW w \in Workers, Worker(w) PROVE UNCHANGED holding
    BY <2>7 DEF Worker, LookAtDepth, AddToDepth, submit_req, Await, Return, comp
  <2>8. CASE algo_thread
    BY <2>8, <2>2
       DEF algo_thread, ServeRetry, NoRetry, ServeRequest, NoRequest, PutNothing, Put, comp
  <2>9. ASSUME NEW r \in Reqs, Pass(r) PROVE UNCHANGED holding
    BY <2>9 DEF Pass, comp
  <2>. QED
    BY <2>2, <2>3, <2>4, <2>5, <2>6, <2>7, <2>8, <2>9 DEF Next, process_cq_cpl
<1>. QED
  BY <1>1, Invariance, PTL DEF Spec, EndsWhenDue

=============================================================================

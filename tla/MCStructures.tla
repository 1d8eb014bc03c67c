---------------------------- MODULE MCStructures ----------------------------
(***************************************************************************)
(* The components that have no state in common with the others, checked in *)
(* one run: the initial state chooses one of them, and the others stay as  *)
(* they are.  The sizes of each are constants of their own.                *)
(***************************************************************************)
EXTENDS Integers

CONSTANTS Requests, ListNodes, SkipNodes, Data,
          NULL, Junk, Header, Refused,
          MaxTime, SLACK,
          SkipKeys, MAX_L, MaxVer,
          NrTpages, EPP, Capacity, HotTpages, HotT, MAX_PROBE, MaxHits, MaxPlace,
          nchs, luns_per_ch, pls_per_lun, blks_per_pl, pgs_per_blk, LineRun,
          ClockChs, ClockLuns, ClockPls, ClockBlks, ClockPgs,
          NAND_READ, NAND_WRITE, NAND_ERASE, MaxRun, MaxNow, MaxWork

VARIABLES part,   \* the component of this behaviour
          qHead, qLast, qSize, qPrev, qNext, qEtime, qNow,
          lHead, lTail, lSize, lPrev, lNext, lData, lResult,
          sLevel, sSize, sList, sKey, sValue,
          hPlace, hCached, hCntMap, hHitCnt, hHot,
          nNow, nLatOn, nNextLunAvailTime, nPpaState, nLineWp, nMaxlat,
          nEtime, nDue,
          cNow, cLatOn, cNextLunAvailTime, cPpaState, cLineWp, cMaxlat,
          cEtime, cDue

queue == <<qHead, qLast, qSize, qPrev, qNext, qEtime, qNow>>
lru == <<lHead, lTail, lSize, lPrev, lNext, lData, lResult>>
skip == <<sLevel, sSize, sList, sKey, sValue>>
hot == <<hPlace, hCached, hCntMap, hHitCnt, hHot>>
lines == <<nNow, nLatOn, nNextLunAvailTime, nPpaState, nLineWp, nMaxlat, nEtime,
    nDue>>
clock == <<cNow, cLatOn, cNextLunAvailTime, cPpaState, cLineWp, cMaxlat, cEtime,
    cDue>>
vars == <<part, queue, lru, skip, hot, lines, clock>>

-----------------------------------------------------------------------------
Queue == INSTANCE AlgoQueue WITH
    Reqs <- Requests,
    head <- qHead, last <- qLast, size <- qSize, prev <- qPrev,
    next <- qNext, etime <- qEtime, now <- qNow

Lru == INSTANCE LruList WITH
    Nodes <- ListNodes,
    head <- lHead, tail <- lTail, size <- lSize, prev <- lPrev,
    next <- lNext, data <- lData, result <- lResult

Skip == INSTANCE SkipList WITH
    Nodes <- SkipNodes, Keys <- SkipKeys,
    level <- sLevel, size <- sSize, list <- sList, key <- sKey,
    value <- sValue

Hot == INSTANCE HotCmt WITH
    T <- HotT, UnusedBehind <- FALSE,
    place <- hPlace, cached <- hCached, cnt_map <- hCntMap,
    hit_cnt <- hHitCnt, hot <- hHot

\* The lines over the LUNs, without latencies.
Lines == INSTANCE NandTiming WITH
    NAND_READ <- 0, NAND_WRITE <- 0, NAND_ERASE <- 0,
    MaxRun <- LineRun, MaxNow <- 0, MaxWork <- 0,
    now <- nNow, lat_on <- nLatOn, next_lun_avail_time <- nNextLunAvailTime,
    ppa_state <- nPpaState, line_wp <- nLineWp, maxlat <- nMaxlat,
    etime <- nEtime, due <- nDue

\* The clocks of the LUNs, with latencies.
Clock == INSTANCE NandTiming WITH
    nchs <- ClockChs, luns_per_ch <- ClockLuns, pls_per_lun <- ClockPls,
    blks_per_pl <- ClockBlks, pgs_per_blk <- ClockPgs,
    now <- cNow, lat_on <- cLatOn, next_lun_avail_time <- cNextLunAvailTime,
    ppa_state <- cPpaState, line_wp <- cLineWp, maxlat <- cMaxlat,
    etime <- cEtime, due <- cDue

ASSUME PartsAssumption ==
    /\ Queue!QueueAssumption /\ Lru!LruAssumption /\ Skip!SkipAssumption
    /\ Hot!HotAssumption /\ Lines!NandAssumption /\ Clock!NandAssumption

Init ==
    /\ part \in {"queue", "lru", "skip", "hot", "lines", "clock"}
    /\ Queue!Init /\ Lru!Init /\ Skip!Init /\ Hot!Init /\ Lines!Init /\ Clock!Init
    /\ part # "lines" => ~nLatOn
    /\ part # "clock" => ~cLatOn

Next ==
    \/ part = "queue" /\ Queue!Next /\ UNCHANGED <<part, lru, skip, hot, lines, clock>>
    \/ part = "lru" /\ Lru!Next /\ UNCHANGED <<part, queue, skip, hot, lines, clock>>
    \/ part = "skip" /\ Skip!Next /\ UNCHANGED <<part, queue, lru, hot, lines, clock>>
    \/ part = "hot" /\ Hot!Next /\ UNCHANGED <<part, queue, lru, skip, lines, clock>>
    \/ part = "lines" /\ Lines!Next /\ UNCHANGED <<part, queue, lru, skip, hot, clock>>
    \/ part = "clock" /\ Clock!Next /\ UNCHANGED <<part, queue, lru, skip, hot, lines>>

\* As in AlgoQueue: time passes, and the queue's thread looks at its head.
Fairness ==
    /\ WF_vars(part = "queue" /\ Queue!Tick /\ UNCHANGED <<part, lru, skip, hot, lines, clock>>)
    /\ WF_vars(part = "queue" /\ Queue!Dequeue /\ UNCHANGED <<part, lru, skip, hot, lines, clock>>)

Spec == Init /\ [][Next]_vars /\ Fairness

-----------------------------------------------------------------------------
\* The linked structures of algo_queue.c, lru_list.c and skiplist.c, through any
\* order of their operations: both ways along the links agree, the levels of the
\* skiplist are sorted sublists of each other that lead a search to what the
\* lowest one holds, the sizes count the nodes, and no link leads to a freed one.
LinksSound ==
    /\ part = "queue" => Queue!TypeOK /\ Queue!LinksAgree
    /\ part = "lru" => Lru!TypeOK /\ Lru!LinksAgree
    /\ part = "skip" => Skip!TypeOK /\ Skip!LevelsSorted /\ Skip!SearchFinds

\* algo_queue.c: sorted up to the slack of one microsecond per request.
SortedWithinSlack == part = "queue" => Queue!SortedWithinSlack

\* algo_queue.c: a request comes back once and not before it is due.
ImplementsPool == Queue!ImplementsPool

\* algo_queue.c: a request put in comes back, unless others that are long overdue
\* are put before it for ever.
Served == Queue!Served

\* lru_list.c: the list is a recency order.
ImplementsRecency == Lru!ImplementsRecency

\* skiplist.c: the list is a sorted map.
ImplementsMap == Skip!ImplementsMap

\* dftl_cache.c: no promotion or reset hides an entry from the reads.
PathKept == part = "hot" => Hot!TypeOK /\ Hot!PathKept

\* ssd.c: page states and write pointers agree, no two programmed pages have
\* one address, and lines are striped over the LUNs.
LinesAgree == part = "lines" => Lines!LinesAgree /\ Lines!Striped

\* ssd.c: a request is not due before the NAND has served its calls.
DueAfterNand == part = "clock" => Clock!TypeOK /\ Clock!DueAfterNand

\* ssd.c: each LUN works in order and without a gap.
InTurn == Clock!InTurn

=============================================================================

----------------------------- MODULE NandTiming ----------------------------
(***************************************************************************)
(* The NAND emulator with its clocks (lower/ssd.c).  Pages are numbered as *)
(* the FTL does, striped over channels, LUNs, planes and blocks; states    *)
(* and write pointers are kept by these numbers, and of an address only    *)
(* the LUN is used: an operation occupies it from the time it is free.     *)
(* The caller is the algorithm thread: the longest latency of the calls it *)
(* makes for a request is added to the clock it reads after them, and what *)
(* garbage collection reads and writes is not waited for.  The channel     *)
(* transfer (in #if 0) and the operation counters are left out.  Every     *)
(* caller passes stime = 0.                                                *)
(***************************************************************************)
EXTENDS Integers, FiniteSetsExt

CONSTANTS nchs, luns_per_ch, pls_per_lun, blks_per_pl, pgs_per_blk,
          NAND_READ, NAND_WRITE, NAND_ERASE,   \* latencies
          Refused,   \* the results -1 and -2, and an etime not yet set
          MaxRun,    \* bound: pages of one call
          MaxNow,    \* bound: the clock
          MaxWork    \* bound: no call is made while a LUN has more to do

tt_luns == nchs * luns_per_ch
pgs_per_line == tt_luns * pgs_per_blk
tt_lines == blks_per_pl * pls_per_lun
Lines == 0 .. tt_lines - 1
Pages == 0 .. pgs_per_line * tt_lines - 1
Luns == (0 .. nchs - 1) \X (0 .. luns_per_ch - 1)

NandAssumption ==
    /\ {nchs, luns_per_ch, pls_per_lun, blks_per_pl, pgs_per_blk, MaxRun}
          \subseteq Nat \ {0}
    /\ {NAND_READ, NAND_WRITE, NAND_ERASE, MaxNow, MaxWork} \subseteq Nat
    /\ Refused \notin Int

VARIABLES
    now,                   \* CLOCK_MONOTONIC
    lat_on,                \* toggle_ssd_lat
    next_lun_avail_time,   \* LUN -> time
    ppa_state,             \* page -> it is programmed
    line_wp,               \* line -> pages of it that were programmed
    maxlat, etime,         \* of the request the caller works for
    due                    \* history: the end of all that the caller waits for

nand_vars == <<lat_on, next_lun_avail_time, ppa_state, line_wp>>
vars == <<now, nand_vars, maxlat, etime, due>>

LINE_IDX(p) == p \div pgs_per_line
Run(p, n) == p .. p + n - 1

\* Consecutive pages of a LUN go to different blocks.
pgidx2ppa(p) ==
    LET lun == p \div nchs
        pl == lun \div luns_per_ch
        blk == pl \div pls_per_lun
        pg == blk \div blks_per_pl
    IN  [ch |-> p % nchs, lun |-> lun % luns_per_ch, pl |-> pl % pls_per_lun,
         blk |-> blk % blks_per_pl, pg |-> pg % pgs_per_blk]

LunOf(p) == LET a == pgidx2ppa(p) IN <<a.ch, a.lun>>

Cost(c) == IF lat_on THEN c ELSE 0

Init ==
    /\ now = 0 /\ lat_on \in BOOLEAN
    /\ next_lun_avail_time = [l \in Luns |-> 0]
    /\ ppa_state = [p \in Pages |-> FALSE]
    /\ line_wp = [b \in Lines |-> 0]
    /\ maxlat = 0 /\ etime = Refused
    /\ due = 0

-----------------------------------------------------------------------------
\* A fault: an operation starts at once, although its LUN is busy.
ssd_advance_statusAtOnce(l, k, c) == now + k * Cost(c)

\* When LUN l is free again after k more operations of cost c.
ssd_advance_status(l, k, c) == Max({next_lun_avail_time[l], now}) + k * Cost(c)

\* The LUNs after an operation of cost c on each page of S.
Advance(S, c) ==
    [l \in Luns |-> LET k == Cardinality({p \in S : LunOf(p) = l})
                    IN  IF k = 0 THEN next_lun_avail_time[l] ELSE ssd_advance_status(l, k, c)]

EndOf(avail, S) == Max({avail[LunOf(p)] : p \in S})

\* A run stops at its first bad page.
Before(S, bad) == {p \in S : \A q \in S \intersect bad : p < q}

\* max_etime - stime
Latency(avail, S) == EndOf(avail, S) - now

\* The greater latency; -1 and -2 are the greatest 64-bit numbers.
Longer(soFar, l) == IF Refused \in {soFar, l} THEN Refused ELSE Max({soFar, l})

\* The first call for a request starts its maxlat.
Waited == IF etime = Refused THEN <<maxlat, due>> ELSE <<0, 0>>

\* A call operated on the pages of done, which are the run S unless it met
\* a bad page; the caller waits for it or, in garbage collection, does not.
Called(avail, done, S) ==
    /\ next_lun_avail_time' = avail
    /\ \/ /\ maxlat' = Longer(Waited[1], IF done = S THEN Latency(avail, S) ELSE Refused)
          /\ due' = Max({Waited[2], IF done = {} THEN 0 ELSE EndOf(avail, done)})
          /\ etime' = Refused
       \/ UNCHANGED <<maxlat, due, etime>>
    /\ UNCHANGED <<now, lat_on>>

\* Bounds the work a LUN has before it.
Calm == \A l \in Luns : next_lun_avail_time[l] <= now + MaxWork

-----------------------------------------------------------------------------
\* Page q of a run that starts at p can be programmed: it is erased and,
\* after the pages of the run before it, next in its line.
NextInLine(p, q) ==
    LET first == LINE_IDX(q) * pgs_per_line
    IN  /\ ~ppa_state[q]
        /\ line_wp[LINE_IDX(q)] + (q - Max({p, first})) = q - first

PagesIn(S, b) == Cardinality({q \in S : LINE_IDX(q) = b})

ssd_write_ppa(p, n) ==
    LET done == Before(Run(p, n), {q \in Run(p, n) : ~NextInLine(p, q)})
    IN  /\ Calm /\ Run(p, n) \subseteq Pages
        /\ ppa_state' = [q \in Pages |-> ppa_state[q] \/ q \in done]
        /\ line_wp' = [b \in Lines |-> line_wp[b] + PagesIn(done, b)]
        /\ Called(Advance(done, NAND_WRITE), done, Run(p, n))

ssd_read_ppa(p, n) ==
    LET done == Before(Run(p, n), {q \in Run(p, n) : ~ppa_state[q]})
    IN  /\ Calm /\ Run(p, n) \subseteq Pages
        /\ Called(Advance(done, NAND_READ), done, Run(p, n))
        /\ UNCHANGED <<ppa_state, line_wp>>

\* The pages by whose LUNs ssd_trim_block goes.
OnePerLun(p) == Run(p, tt_luns)

\* A fault: the erased line keeps its write pointer.
RewindNot(b) == line_wp

Rewind(b) == [line_wp EXCEPT ![b] = 0]

\* Page p is the first of a line.  Each LUN is charged for the erase of one
\* block, and the states of all the pages of the line are cleared, whatever
\* blocks they are in.  The latency is returned in 32 bits and the only
\* caller, dftl_trim_segment, drops it.
ssd_trim_block(p) ==
    /\ Calm /\ p % pgs_per_line = 0
    /\ next_lun_avail_time' = Advance(OnePerLun(p), NAND_ERASE)
    /\ ppa_state' = [q \in Pages |-> ppa_state[q] /\ LINE_IDX(q) # LINE_IDX(p)]
    /\ line_wp' = Rewind(LINE_IDX(p))
    /\ UNCHANGED <<now, lat_on, maxlat, etime, due>>

toggle_ssd_lat ==
    /\ lat_on' = ~lat_on
    /\ UNCHANGED <<now, next_lun_avail_time, ppa_state, line_wp, maxlat, etime, due>>

\* A fault: the latency is taken for the time.
EtimeBare == IF maxlat = Refused THEN now - 1 ELSE maxlat

\* clock_get_ns() + maxlat in 64 bits.
Etime == IF maxlat = Refused THEN now - 1 ELSE now + maxlat

SetEtime ==
    /\ etime = Refused
    /\ etime' = Etime
    /\ UNCHANGED <<now, nand_vars, maxlat, due>>

Tick ==
    /\ now < MaxNow
    /\ now' = now + 1
    /\ UNCHANGED <<nand_vars, maxlat, etime, due>>

Next ==
    \/ \E p \in Pages, n \in 1 .. MaxRun : ssd_write_ppa(p, n)
    \/ \E p \in Pages, n \in 1 .. MaxRun : ssd_read_ppa(p, n)
    \/ \E p \in Pages : ssd_trim_block(p)
    \/ toggle_ssd_lat
    \/ SetEtime
    \/ Tick

Spec == Init /\ [][Next]_vars

-----------------------------------------------------------------------------
TypeOK ==
    /\ now \in 0 .. MaxNow /\ lat_on \in BOOLEAN
    /\ next_lun_avail_time \in [Luns -> Nat]
    /\ ppa_state \in [Pages -> BOOLEAN]
    /\ line_wp \in [Lines -> Nat]
    /\ maxlat \in Nat \union {Refused} /\ etime \in Int \union {Refused}
    /\ due \in Nat

\* Whatever is asked for, refused half way or not, the pages marked as
\* programmed are those of each line below its write pointer, which stays in
\* the line (Superblock and the modules over it keep the write pointer only),
\* and no two of them have one address.
LinesAgree ==
    /\ \A b \in Lines : line_wp[b] <= pgs_per_line
    /\ \A p \in Pages : ppa_state[p] <=> p % pgs_per_line < line_wp[LINE_IDX(p)]
    /\ \A p, q \in Pages :
          ppa_state[p] /\ ppa_state[q] /\ pgidx2ppa(p) = pgidx2ppa(q) => p = q

\* A line fills evenly over the LUNs, so a flush of consecutive pages is
\* programmed in parallel.
Striped ==
    \A b \in Lines, l, m \in Luns :
        LET On(k) == PagesIn({p \in Pages : ppa_state[p] /\ LunOf(p) = k}, b)
        IN  On(l) <= On(m) + 1

\* A request is not due before the NAND has done all that was asked for it
\* in one or more calls, clock ticks between them or not.  (A refused call
\* makes it due at once: FlushPath and TransArea show that none is made.)
DueAfterNand == etime # Refused /\ maxlat # Refused => etime >= due

\* Each LUN works off what it is given in order and without a gap.
Queues == INSTANCE LunQueues WITH
    work <- [l \in Luns |-> Max({next_lun_avail_time[l] - now, 0})], told <- maxlat,
    Costs <- {0, NAND_READ, NAND_WRITE, NAND_ERASE}, Never <- Refused, MostPerLun <- MaxRun
InTurn == Queues!Spec

=============================================================================

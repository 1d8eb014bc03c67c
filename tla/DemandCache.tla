---------------------------- MODULE DemandCache ----------------------------
(***************************************************************************)
(* The mapping cache (dftl_cache.c) with its users: the reads, which jump  *)
(* in and out of __demand_get through the retry queue, and the entries of  *)
(* the write buffer, which do the same in _do_wb_mapping_update while the  *)
(* algorithm thread is in a flush.  Cached or not, the entries are kept in *)
(* mem_table; a translation page is cached when it has a node in the LRU,  *)
(* and only then is it looked up without waiting for the flash.            *)
(*                                                                         *)
(* A mapping entry holds a key and the version of its value; packing and   *)
(* page numbers are FlushPath's.  Latencies are not kept: a suspended user *)
(* may resume at any time.                                                 *)
(***************************************************************************)
EXTENDS Integers, SequencesExt

CONSTANTS Reqs, Keys,     \* read requests; keys, which name wb entries too
          HashOf, FpOf,   \* of a key
          NrTpages, EPP,  \* translation pages and the entries of each
          Capacity,       \* max_cached_tpages
          BufSize,        \* MAX_WRITE_BUF
          MaxVer,         \* bound: sets of one key
          MaxEnds,        \* bound: after so many ends a request is left alone
          ReadUnset,      \* whether keys are read that were never set
          NULL

Tpages == 0 .. NrTpages - 1
Lpas == 0 .. NrTpages * EPP - 1
Users == Reqs \union Keys

ASSUME CacheAssumption ==
    /\ Reqs \intersect Keys = {} /\ NULL \notin Users
    /\ MaxVer \in Nat /\ \A k \in Keys, v \in 0 .. MaxVer : NULL # <<k, v>>
    /\ HashOf \in [Keys -> Nat] /\ FpOf \in [Keys -> Nat \ {0}]
    /\ NrTpages \in Nat \ {0} /\ EPP \in Nat \ {0} /\ Capacity \in Nat \ {0}
    /\ BufSize \in 1 .. Cardinality(Keys)
    /\ ReadUnset \in BOOLEAN

VARIABLES latest,    \* key -> its last version set, 0 before the first
          wb,        \* the write buffer: key -> version
          phase,     \* of a flush: "serve" outside, then "assign" and "map"
          fresh,     \* the hash table of a flush: the lpas it has updated
          table,     \* mem_table: lpa -> <<key, version>> or NULL
          max_try,
          lru,       \* nodes, most recent first: <<tpage, lru_ptr points here>>
          dirty,     \* tpages in state DIRTY
          onFlash,   \* tpages with a page on flash (t_ppa is not initial)
          busy,      \* the user whose call the algorithm thread is in, or NULL
          pc, cnt,   \* user -> where it is; its probes so far
          want, from, got, ended  \* read -> key, version at its start, version
                                  \* returned (0: not found), times completed

store == <<latest, wb>>
flush == <<phase, fresh>>
cache == <<lru, dirty, onFlash>>
reads == <<want, from, got, ended>>
vars == <<store, flush, table, max_try, cache, busy, pc, cnt, reads>>

-----------------------------------------------------------------------------
(* The cache. *)

Tpage(l) == l \div EPP

\* get_lpa: quadratic probing.
Lpa(k, c) == (HashOf[k] + c + c * c) % (NrTpages * EPP)

KeyOf(u) == IF u \in Reqs THEN want[u] ELSE u
At(u) == Lpa(KeyOf(u), cnt[u])
Page(u) == Tpage(At(u))

\* is_hit: cmt->pt is set and cleared together with cmt->lru_ptr.
Listed(d, l) == \E i \in DOMAIN l : l[i] = <<d, TRUE>>

Full(l) == Len(l) >= Capacity

\* The nodes of d are no longer, or not yet, what its lru_ptr points to.
Unlist(d, l) == [i \in DOMAIN l |-> IF l[i][1] = d THEN <<d, FALSE>> ELSE l[i]]

\* lru_update of the node lru_ptr points to.
Touch(d, l) ==
    LET i == CHOOSE j \in DOMAIN l : l[j] = <<d, TRUE>>
    IN  <<l[i]>> \o RemoveAt(l, i)

\* lru_push; a node that the page has already stays where it is.
Push(d, l) == <<<<d, TRUE>>>> \o Unlist(d, l)

Victim(l) == Last(l)[1]
Pop(l) == Unlist(Victim(l), Front(l))

\* dftl_cache_list_up: the victim's page is written if it is dirty.
DirtyVictim == Full(lru) /\ Victim(lru) \in dirty

\* A fault: the victim is thought clean.
ListUpUnwritten(d) ==
    /\ lru' = Push(d, IF Full(lru) THEN Pop(lru) ELSE lru)
    /\ UNCHANGED <<dirty, onFlash>>

ListUp(d) ==
    /\ lru' = Push(d, IF Full(lru) THEN Pop(lru) ELSE lru)
    /\ dirty' = IF Full(lru) THEN dirty \ {Victim(lru)} ELSE dirty
    /\ onFlash' = onFlash \union (IF DirtyVictim THEN {Victim(lru)} ELSE {})

\* dftl_cache_update: what it does to the cache c for an entry of page d.  The
\* page on flash is given up with the first update.  Of a page that is not
\* cached the entry is changed in memory only (dftl_cache.c:549-553).
Updated(d, c) ==
    IF Listed(d, c.lru)
    THEN [lru |-> Touch(d, c.lru), dirty |-> c.dirty \union {d},
          onFlash |-> IF d \in c.dirty THEN c.onFlash ELSE c.onFlash \ {d}]
    ELSE c

Cache == [lru |-> lru, dirty |-> dirty, onFlash |-> onFlash]
SetCache(c) == lru' = c.lru /\ dirty' = c.dirty /\ onFlash' = c.onFlash

-----------------------------------------------------------------------------
Init ==
    /\ latest = [k \in Keys |-> 0] /\ wb = <<>>
    /\ phase = "serve" /\ fresh = {}
    /\ table = [l \in Lpas |-> NULL] /\ max_try = 0
    /\ lru = <<>> /\ dirty = {} /\ onFlash = {}
    /\ busy = NULL
    /\ pc = [u \in Users |-> "idle"] /\ cnt = [u \in Users |-> 0]
    /\ want = [r \in Reqs |-> NULL] /\ from = [r \in Reqs |-> 0]
    /\ got = [r \in Reqs |-> 0] /\ ended = [r \in Reqs |-> 0]

(* Sets and the frame of a flush.  The flush that a set begins with and its
   insert are two steps: the set counts only from its insert on. *)

BufferFull == Cardinality(DOMAIN wb) >= BufSize

\* _do_wb_insert, and the end of __demand_set.
Set(k) ==
    /\ busy = NULL /\ phase = "serve"
    /\ ~BufferFull /\ latest[k] < MaxVer
    /\ latest' = [latest EXCEPT ![k] = @ + 1]
    /\ wb' = [j \in DOMAIN wb \union {k} |-> IF j = k THEN latest[k] + 1 ELSE wb[j]]
    /\ UNCHANGED <<flush, table, max_try, cache, busy, pc, cnt, reads>>

BeginFlush ==
    /\ busy = NULL /\ phase = "serve" /\ BufferFull
    /\ phase' = "assign"
    /\ UNCHANGED <<store, fresh, table, max_try, cache, busy, pc, cnt, reads>>

\* _do_bulk_mapping_update: data GC has moved values of page d.  Of a page that
\* is not cached the copy on flash is read, dropped and written anew.
Remap(c, d) == IF Listed(d, c.lru) THEN Updated(d, c)
               ELSE [c EXCEPT !.onFlash = @ \union {d}]

\* GC while pages are assigned; the values moved are taken in order of lpa.
GcRemap(l1, l2) ==
    /\ phase = "assign" /\ l1 <= l2
    /\ table[l1] # NULL /\ table[l2] # NULL
    /\ SetCache(Remap(Remap(Cache, Tpage(l1)), Tpage(l2)))
    /\ UNCHANGED <<store, flush, table, max_try, busy, pc, cnt, reads>>

BeginMapping ==
    /\ phase = "assign"
    /\ phase' = "map" /\ fresh' = {}
    /\ pc' = [u \in Users |-> IF u \in DOMAIN wb THEN "ready" ELSE pc[u]]
    /\ cnt' = [u \in Users |-> IF u \in DOMAIN wb THEN 0 ELSE cnt[u]]
    /\ UNCHANGED <<store, table, max_try, cache, busy, reads>>

\* All entries are updated; the values are programmed, the buffer is emptied.
EndFlush ==
    /\ phase = "map" /\ busy = NULL
    /\ \A k \in DOMAIN wb : pc[k] = "idle"
    /\ phase' = "serve" /\ fresh' = {} /\ wb' = <<>>
    /\ UNCHANGED <<latest, table, max_try, cache, busy, pc, cnt, reads>>

-----------------------------------------------------------------------------
(* The way to a translation page, the same for reads and wb entries.  While
   a flush is on the thread serves no reads; a call it is in is finished
   before another is taken up. *)

Served(u) ==
    /\ busy \in {NULL, u}
    /\ IF u \in Reqs THEN phase = "serve" ELSE phase = "map"

\* A request is taken up, or a probe goes on, without inflight parameters.
Ready(u) == pc[u] = "ready" /\ Served(u)

\* Reads alone: the mapping is not looked at when a probe is beyond max_try or
\* the buffer has the key (cnt = 0: the first time only).
GivesUp(r) == cnt[r] > max_try

\* A fault: the write buffer is not checked.
InBufferNever(r) == FALSE

InBuffer(r) == cnt[r] = 0 /\ want[r] \in DOMAIN wb
Looks(u) == u \in Reqs => ~GivesUp(u) /\ ~InBuffer(u)

Suspend(u, where) == pc' = [pc EXCEPT ![u] = where] /\ busy' = NULL

\* A fault: the user waits, and is put in no queue.
GoOnParked(u) == pc' = [pc EXCEPT ![u] = "check"] /\ busy' = NULL

GoOn(u) == pc' = [pc EXCEPT ![u] = "check"] /\ busy' = u

Hit(u) ==
    /\ Ready(u) /\ Looks(u)
    /\ Listed(Page(u), lru)
    /\ lru' = Touch(Page(u), lru)
    /\ GoOn(u)
    /\ UNCHANGED <<store, flush, table, max_try, dirty, onFlash, cnt, reads>>

\* dftl_cache_load; it does not look whether the page is being loaded already
\* (wait_if_flying is commented out at both calls).
Load(u) ==
    /\ Ready(u) /\ Looks(u)
    /\ ~Listed(Page(u), lru) /\ Page(u) \in onFlash
    /\ Suspend(u, "loading")
    /\ UNCHANGED <<store, flush, table, max_try, cache, cnt, reads>>

\* GOTO_LIST, or at once for a wb entry of a page that was never written.
NeedsListing(u) ==
    \/ pc[u] = "loading" /\ busy = NULL /\ Served(u)
    \/ /\ u \in Keys /\ Ready(u)
       /\ ~Listed(Page(u), lru) /\ Page(u) \notin onFlash

\* A dirty victim is written, and the user waits for that (GOTO_COMPLETE).
ListAndWait(u) ==
    /\ NeedsListing(u) /\ DirtyVictim
    /\ ListUp(Page(u))
    /\ Suspend(u, "evicting")
    /\ UNCHANGED <<store, flush, table, max_try, cnt, reads>>

List(u) ==
    /\ NeedsListing(u) /\ ~DirtyVictim
    /\ ListUp(Page(u))
    /\ GoOn(u)
    /\ UNCHANGED <<store, flush, table, max_try, cnt, reads>>

\* With the page there, or after the wait, the entry is looked at.
Checks(u) ==
    /\ \/ pc[u] = "check" /\ busy = u
       \/ pc[u] = "evicting" /\ busy = NULL
    /\ Served(u)

SameFp(u) == table[At(u)] # NULL /\ FpOf[table[At(u)][1]] = FpOf[KeyOf(u)]

\* An entry of another fingerprint: the next probe, in the same call.  A read
\* goes on over an entry that is not in use, too: its fingerprint is 0.
Probe(u) ==
    /\ Checks(u) /\ ~SameFp(u)
    /\ u \in Keys => table[At(u)] # NULL
    /\ cnt' = [cnt EXCEPT ![u] = @ + 1]
    /\ pc' = [pc EXCEPT ![u] = "ready"] /\ busy' = u
    /\ UNCHANGED <<store, flush, table, max_try, cache, reads>>

-----------------------------------------------------------------------------
(* Reads. *)

Read(r, k) ==
    /\ pc[r] = "idle"
    /\ ReadUnset \/ latest[k] > 0
    /\ pc' = [pc EXCEPT ![r] = "ready"]
    /\ cnt' = [cnt EXCEPT ![r] = 0]
    /\ want' = [want EXCEPT ![r] = k]
    /\ from' = [from EXCEPT ![r] = latest[k]]
    /\ got' = [got EXCEPT ![r] = 0]
    /\ ended' = [ended EXCEPT ![r] = 0]
    /\ UNCHANGED <<store, flush, table, max_try, cache, busy>>

\* The request goes to the completion ring with version v.
Finish(r, v) ==
    /\ got' = [got EXCEPT ![r] = v]
    /\ ended' = [ended EXCEPT ![r] = @ + 1]
    /\ Suspend(r, "idle")
    /\ UNCHANGED <<store, flush, table, max_try, cache, cnt, want, from>>

FoundInBuffer(r) ==
    /\ Ready(r) /\ ~GivesUp(r) /\ InBuffer(r)
    /\ Finish(r, wb[want[r]])

NotFound(r) ==
    /\ Ready(r) /\ GivesUp(r)
    /\ Finish(r, 0)

\* load finds no page to load: __demand_get completes the request and leaves it
\* in the retry queue; demand_get completes it once more (demand.c:318-330,
\* 406-411).
NeverWritten(r) ==
    /\ Ready(r) /\ Looks(r)
    /\ ~Listed(Page(r), lru) /\ Page(r) \notin onFlash
    /\ ended[r] < MaxEnds
    /\ got' = [got EXCEPT ![r] = 0]
    /\ ended' = [ended EXCEPT ![r] = @ + 2]
    /\ Suspend(r, "ready")
    /\ UNCHANGED <<store, flush, table, max_try, cache, cnt, want, from>>

Found(r) ==
    /\ Checks(r) /\ SameFp(r)
    /\ table[At(r)][1] = want[r]
    /\ Finish(r, table[At(r)][2])

\* The page holds another key: the next probe, after the latency of the read.
OtherKey(r) ==
    /\ Checks(r) /\ SameFp(r)
    /\ table[At(r)][1] # want[r]
    /\ cnt' = [cnt EXCEPT ![r] = @ + 1]
    /\ Suspend(r, "ready")
    /\ UNCHANGED <<store, flush, table, max_try, cache, reads>>

-----------------------------------------------------------------------------
(* Entries of the write buffer. *)

\* Of the same fingerprint and inserted by this flush: another key.
SameFlush(k) ==
    /\ Checks(k) /\ SameFp(k) /\ At(k) \in fresh
    /\ cnt' = [cnt EXCEPT ![k] = @ + 1]
    /\ pc' = [pc EXCEPT ![k] = "ready"] /\ busy' = k
    /\ UNCHANGED <<store, flush, table, max_try, cache, reads>>

\* A fault: the entry at hand is not counted.
MaxTryBefore(k) == cnt[k] - 1

\* A fault: max_try follows the last update.
MaxTryLast(k) == cnt[k]

MaxTry(k) == IF cnt[k] > max_try THEN cnt[k] ELSE max_try

\* wb_direct_update and wb_update.
Update(k) ==
    /\ Checks(k)
    /\ table[At(k)] = NULL \/ (SameFp(k) /\ At(k) \notin fresh)
    /\ table' = [table EXCEPT ![At(k)] = <<k, wb[k]>>]
    /\ SetCache(Updated(Page(k), Cache))
    /\ fresh' = fresh \union {At(k)}
    /\ max_try' = MaxTry(k)
    /\ Suspend(k, "idle")
    /\ UNCHANGED <<store, phase, cnt, reads>>

-----------------------------------------------------------------------------
Way(u) == Hit(u) \/ Load(u) \/ ListAndWait(u) \/ List(u) \/ Probe(u)

ReadStep(r) == Way(r) \/ FoundInBuffer(r) \/ NotFound(r) \/ NeverWritten(r)
                   \/ Found(r) \/ OtherKey(r)

EntryStep(k) == Way(k) \/ SameFlush(k) \/ Update(k)

FlushFrame == BeginFlush \/ BeginMapping \/ EndFlush

Next ==
    \/ \E k \in Keys : Set(k) \/ EntryStep(k)
    \/ \E r \in Reqs : ReadStep(r) \/ \E k \in Keys : Read(r, k)
    \/ FlushFrame
    \/ \E l1, l2 \in Lpas : GcRemap(l1, l2)

\* A flush runs to its end, each suspended user comes due, and between flushes
\* the thread comes back to the retry queue.
Fairness ==
    /\ WF_vars(BeginMapping) /\ WF_vars(EndFlush)
    /\ \A k \in Keys : WF_vars(EntryStep(k))
    /\ \A r \in Reqs : SF_vars(ReadStep(r))

Spec == Init /\ [][Next]_vars /\ Fairness

-----------------------------------------------------------------------------
TypeOK ==
    /\ latest \in [Keys -> 0 .. MaxVer] /\ DOMAIN wb \subseteq Keys
    /\ phase \in {"serve", "assign", "map"} /\ fresh \subseteq Lpas
    /\ \A i \in DOMAIN lru : lru[i] \in Tpages \X BOOLEAN
    /\ Len(lru) <= Capacity
    /\ dirty \subseteq Tpages
    /\ onFlash \subseteq Tpages
    /\ busy \in Users \union {NULL}
    /\ pc \in [Users -> {"idle", "ready", "loading", "evicting", "check"}]
    /\ max_try \in Nat /\ cnt \in [Users -> Nat]

\* The entries that probing for k ever comes to: after as many probes as there
\* are entries it begins anew.
Path(k) == {Lpa(k, c) : c \in 0 .. NrTpages * EPP - 1}

\* Another key has k's fingerprint, and their probes meet.  Their data are not
\* compared (UPDATE_DATA_CHECK is off), and each may take the other's entry.
Twin(k) == \E j \in Keys \ {k} : FpOf[j] = FpOf[k] /\ Path(j) \intersect Path(k) # {}

\* However reads, flushes, loads and evictions interleave, a version that a
\* read returns was current at some moment of the read: not older than the last
\* one set before it began, and not of another key.
ReadsCurrent ==
    \A r \in Reqs :
        ended[r] > 0 /\ got[r] > 0 /\ ~Twin(want[r]) => got[r] \in from[r] .. latest[want[r]]

\* A key that was set before the read began is found.
FoundWhenSet ==
    \A r \in Reqs : ended[r] > 0 /\ from[r] > 0 => got[r] > 0

\* A request is completed once and is then in no queue.
EndedOnce ==
    \A r \in Reqs : ended[r] > 0 => ended[r] = 1 /\ pc[r] = "idle"

\* The read is at a page that is neither cached nor on flash; and it is at an
\* entry of such a page: its updates came after the page was evicted.
AtNoPage(r) == ~Listed(Page(r), lru) /\ Page(r) \notin onFlash
AtLost(r) == AtNoPage(r) /\ table[At(r)] # NULL

\* A key that was set before the read began is found, however often the read was
\* suspended, unless the read meets a page whose updates were lost, or the key
\* has a twin.  So max_try, which only grows, bounds no probe too early.  And a
\* read is completed once, unless it meets such a page or, looking for a key that
\* was not set, one that was never written.
FoundOnceUnlessLost ==
    [][\A r \in Reqs :
         /\ (from[r] > 0 /\ got'[r] = 0 /\ ended'[r] > ended[r])
                => AtLost(r) \/ Twin(want[r])
         /\ ended[r] <= 1 /\ ended'[r] > 1
                => AtLost(r) \/ (AtNoPage(r) /\ (from[r] = 0 \/ Twin(want[r])))]_vars

\* A page with updates that are not on flash is in the cache, and its old page
\* was given up: no eviction, be it of a doubled node, loses the updates, and no
\* page on flash is given up twice (dftl_cache.c:422-455, 541-547).
DirtyIsListed == \A d \in dirty : Listed(d, lru) /\ d \notin onFlash

\* The thread leaves a flush, whose entries wait in two queues and are counted
\* off, and a read that was submitted is completed (dftl_wb.c:362-588).
EachEnds ==
    /\ phase = "map" ~> phase = "serve"
    /\ \A r \in Reqs : pc[r] # "idle" ~> ended[r] > 0

=============================================================================

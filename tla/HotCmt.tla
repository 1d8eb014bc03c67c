------------------------------- MODULE HotCmt -------------------------------
(***************************************************************************)
(* The hot mapping cache of builds with HOT_CMT: when a translation page   *)
(* leaves the cache, its entries with enough hits are copied into a hash   *)
(* table, which the first probe of a read looks at before the cache.       *)
(* Nothing but dftl_cache_hot_reset takes them out again.                  *)
(*                                                                         *)
(* An entry of the mapping is the place of its value; an update or data GC *)
(* moves it to another place.  Which page is evicted is LruList's, and a   *)
(* page listed up while it is cached is DemandCache's; the fingerprints    *)
(* and the hotness_score that nothing calls are left out.                  *)
(***************************************************************************)
EXTENDS Integers, FiniteSetsExt

CONSTANTS NrTpages, EPP, Capacity,
          HotTpages,    \* max_cached_hot_tpages
          T, MAX_PROBE,
          UnusedBehind, \* memory behind a row can look like an unused slot
          MaxHits,      \* bound: hits of an entry, below 256
          MaxPlace      \* bound: moves of a value

Lpas == 0 .. NrTpages * EPP - 1
Tpages == 0 .. NrTpages - 1
Entries(d) == d * EPP .. (d + 1) * EPP - 1

\* The slots of a row, and the one that comes after them.
Slots == (0 .. HotTpages - 1) \X (0 .. EPP)

HotAssumption ==
    /\ {NrTpages, EPP, Capacity, HotTpages, MAX_PROBE, MaxPlace} \subseteq Nat \ {0}
    /\ T \in Nat /\ UnusedBehind \in BOOLEAN /\ MaxHits \in T .. 255

VARIABLES place,     \* lpa -> the place of its value, 0 before the first
          cached,    \* the cached translation pages
          cnt_map, hit_cnt,
          hot        \* hot_mem_table: slot -> <<lpa, place>>

vars == <<place, cached, cnt_map, hit_cnt, hot>>

\* An unused slot has the lpa UINT32_MAX.  What lies behind a row belongs to
\* others: it can look like an unused slot, or like one of an unknown lpa.
Unused == <<-1, 0>>
Others == <<-2, 0>>

Init ==
    /\ place = [l \in Lpas |-> 0] /\ cached = {}
    /\ cnt_map = [l \in Lpas |-> 0] /\ hit_cnt = [d \in Tpages |-> 0]
    /\ hot \in [Slots -> {Unused, Others}]
    /\ \A s \in Slots : s[2] < EPP => hot[s] = Unused
    /\ \A s \in Slots : s[2] = EPP => hot[s] = Others \/ UnusedBehind

-----------------------------------------------------------------------------
(* The hash table. *)

\* D_IDX_HOT, P_IDX_HOT
Home(l) ==
    LET new_lpa == l % (HotTpages * EPP) IN <<new_lpa \div EPP, new_lpa % EPP>>

\* Quadratic probing; a slot EPP is not taken into the next row.
Probed(s, probe) ==
    LET p == s[2] + probe * probe
    IN  IF p > EPP THEN <<(s[1] + p \div EPP) % HotTpages, p % EPP>> ELSE <<s[1], p>>

\* The slots a search for l looks at, one after the other.
PathOf(l) ==
    LET path[i \in 1 .. MAX_PROBE] == IF i = 1 THEN Home(l) ELSE Probed(path[i - 1], i - 1)
    IN  path

\* A fault: the last slot looked at is taken if it is free, else the home.
SlotForFar(h, l) ==
    LET free == {i \in 1 .. MAX_PROBE : h[PathOf(l)[i]] = Unused}
    IN  PathOf(l)[IF free = {} THEN 1 ELSE Max(free)]

\* Where promote_hot puts l: the first free slot, or its home all the same.
SlotFor(h, l) ==
    LET free == {i \in 1 .. MAX_PROBE : h[PathOf(l)[i]] = Unused}
    IN  PathOf(l)[IF free = {} THEN 1 ELSE Min(free)]

\* dftl_cache_hot_is_hit: the slot of l, if it comes before a free one and
\* among the slots looked at, one less than promote_hot tries.
FoundAt(l) ==
    LET stops == {i \in 1 .. MAX_PROBE - 1 : hot[PathOf(l)[i]][1] \in {l, Unused[1]}}
    IN  {PathOf(l)[i] : i \in {n \in stops : n = Min(stops) /\ hot[PathOf(l)[n]][1] = l}}

IsHot(l) == place[l] # 0 /\ cnt_map[l] >= T

\* dftl_cache_promote_hot: the hot entries of page d, in their order.
Promoted(d) ==
    LET after[n \in 0 .. EPP] ==
            IF n = 0 THEN hot
            ELSE LET l == d * EPP + n - 1 IN
                 IF IsHot(l) THEN [after[n - 1] EXCEPT ![SlotFor(after[n - 1], l)] = <<l, place[l]>>]
                 ELSE after[n - 1]
    IN  after[EPP]

-----------------------------------------------------------------------------
(* The cache and the mapping. *)

\* is_hit of reads, of flushes and of GC.
Hit(l) ==
    /\ l \div EPP \in cached /\ cnt_map[l] < MaxHits
    /\ cnt_map' = [cnt_map EXCEPT ![l] = (@ + 1) % 256]
    /\ hit_cnt' = [hit_cnt EXCEPT ![l \div EPP] = @ + 1]
    /\ UNCHANGED <<place, cached, hot>>

\* The counts of the entries of page v begin anew.
Cleared(v) == [l \in Lpas |-> IF l \in Entries(v) THEN 0 ELSE cnt_map[l]]

\* dftl_cache_list_up of page d.
ListUp(d) ==
    /\ d \notin cached /\ Cardinality(cached) < Capacity
    /\ cached' = cached \union {d}
    /\ hit_cnt' = [hit_cnt EXCEPT ![d] = 0]
    /\ UNCHANGED <<place, cnt_map, hot>>

ListUpAndEvict(d, v) ==
    /\ d \notin cached /\ v \in cached /\ Cardinality(cached) >= Capacity
    /\ hot' = IF hit_cnt[v] >= T THEN Promoted(v) ELSE hot
    /\ cnt_map' = Cleared(v)
    /\ hit_cnt' = [hit_cnt EXCEPT ![v] = 0, ![d] = 0]
    /\ cached' = (cached \ {v}) \union {d}
    /\ UNCHANGED place

\* dftl_cache_update, by a flush or by GC, cached or not.
Update(l) ==
    /\ place[l] < MaxPlace
    /\ place' = [place EXCEPT ![l] = @ + 1]
    /\ UNCHANGED <<cached, cnt_map, hit_cnt, hot>>

\* The slots behind the rows belong to others.
dftl_cache_hot_reset ==
    /\ hot' = [s \in Slots |-> IF s[2] < EPP THEN Unused ELSE hot[s]]
    /\ UNCHANGED <<place, cached, cnt_map, hit_cnt>>

Next ==
    \/ \E l \in Lpas : Hit(l) \/ Update(l)
    \/ \E d \in Tpages : ListUp(d) \/ \E v \in Tpages : ListUpAndEvict(d, v)
    \/ dftl_cache_hot_reset

Spec == Init /\ [][Next]_vars

-----------------------------------------------------------------------------
TypeOK ==
    /\ place \in [Lpas -> 0 .. MaxPlace]
    /\ cached \subseteq Tpages /\ Cardinality(cached) <= Capacity
    /\ cnt_map \in [Lpas -> 0 .. 255] /\ hit_cnt \in [Tpages -> Nat]
    /\ \A s \in Slots : hot[s] \in (Lpas \X (1 .. MaxPlace)) \union {Unused, Others}

\* An entry of l in one of the slots a read of l looks at is found, whatever
\* was promoted between, over it or in front of it: a read stops at the first
\* free slot, and no slot of the path is freed by itself.  (A slot behind a row
\* that looked unused when it was taken is not emptied by a reset.)
PathKept ==
    \A l \in Lpas :
        (\E i \in 1 .. MAX_PROBE - 1 : hot[PathOf(l)[i]][1] = l) => FoundAt(l) # {}

=============================================================================

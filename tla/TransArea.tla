----------------------------- MODULE TransArea -----------------------------
(***************************************************************************)
(* The mapping partition of the flash: where translation pages are written *)
(* when the mapping cache evicts a dirty one or data GC rewrites one, and  *)
(* the garbage collection that reclaims it (tp_alloc and tpage_gc of       *)
(* hash_hot_cmt/dftl_pg.c over the block manager of dftl_bm.c).            *)
(*                                                                         *)
(* The algorithm thread runs each operation to its end, so an operation is *)
(* one step.  A translation page fills a page: its four grains are         *)
(* validated and invalidated together, and valid_cnt counts pages here.    *)
(***************************************************************************)
EXTENDS Superblock

CONSTANTS NrTpages,   \* nr_valid_tpages of the mapping cache
          OobZeroed   \* pages whose OOB the memset of dftl_trim_segment reaches

ASSUME TransAssumption ==
    /\ NrTpages \in Nat \ {0}
    /\ OobZeroed \in 0 .. PPS

TPages == 0 .. NrTpages - 1

VARIABLES
    wp_offt,        \* superblock -> next page to hand out
    valid,          \* the pages whose grains are set in valid_bitmap
    valid_cnt,      \* superblock -> its counter of valid pages
    oob,            \* page -> the tpage index in its OOB
    sblk_rsv,       \* the reserve superblock (t_reserve points to it)
    active_sblk,    \* the cursor of the partition
    free_sblk_cnt,  \* superblocks never handed out, the reserve included
    t_active,       \* the superblock being filled, NULL at start
    t_ppa,          \* tpage -> its page on flash (cmt[d]->t_ppa)
    line_wp,        \* the NAND's write pointers
    nand_err,       \* a NAND read or write has returned an error
    aborted         \* get_gc_target found nothing to reclaim and aborted

alloc_vars == <<wp_offt, sblk_rsv, active_sblk, free_sblk_cnt, t_active>>
vars == <<wp_offt, valid, valid_cnt, oob, sblk_rsv, active_sblk,
          free_sblk_cnt, t_active, t_ppa, line_wp, nand_err, aborted>>

-----------------------------------------------------------------------------
\* tp_alloc asks for a superblock: none yet, or the active one is full.
NeedSblk == t_active # NoSblk => Full(wp_offt, t_active)

\* The pages of set V in superblock b.
In(V, b) == {p \in V : p[1] = b}

\* Where GC puts page p of the victim's valid pages V: the read loop meets
\* them by offset, the reserve is filled from its write pointer on.
Rank(V, p) == Cardinality({q \in V : q[2] < p[2]})
Dest(V, p) == <<sblk_rsv, wp_offt[sblk_rsv] + Rank(V, p)>>
DestOf(V) == {Dest(V, p) : p \in V}

\* A fault: the copies keep the OOBs their pages had before.
OobNotCopied(v, V) ==
    [p \in Pages |-> IF p[1] = v /\ p[2] < OobZeroed THEN 0 ELSE oob[p]]

\* The OOBs after the valid pages V of victim v moved and v was trimmed.
OobAfterGc(v, V) ==
    [p \in Pages |->
        IF p \in DestOf(V) THEN oob[CHOOSE q \in V : Dest(V, q) = p]
        ELSE IF p[1] = v /\ p[2] < OobZeroed THEN 0
        ELSE oob[p]]

\* A fault: the tpages are not pointed to their copies.
TppaNotMoved(V) == t_ppa

\* The write-back loop points the tpage named by each page's OOB to its copy,
\* in page order: the last page that names d decides.
TppaAfterGc(V) ==
    [d \in TPages |->
        LET Q == {q \in V : oob[q] = d}
        IN  IF Q = {} THEN t_ppa[d]
            ELSE Dest(V, CHOOSE q \in Q : \A x \in Q : x[2] <= q[2])]

\* A fault: the trimmed victim keeps its count.
CntNotReset(v, V) == [valid_cnt EXCEPT ![sblk_rsv] = @ + Cardinality(V)]

\* The write pointers, the counts and the valid pages after that GC.
WpAfterGc(v, V) ==
    [wp_offt EXCEPT ![sblk_rsv] = @ + Cardinality(V), ![v] = 0]
CntAfterGc(v, V) ==
    [valid_cnt EXCEPT ![sblk_rsv] = @ + Cardinality(V), ![v] = 0]
ValidAfterGc(V) == (valid \ V) \union DestOf(V)

-----------------------------------------------------------------------------
Init ==
    /\ wp_offt = [b \in Sblks |-> 0]
    /\ valid = {}
    /\ valid_cnt = [b \in Sblks |-> 0]
    /\ oob = [p \in Pages |-> 0]
    /\ sblk_rsv = s_sblk
    /\ active_sblk = NoSblk
    /\ free_sblk_cnt = e_sblk - s_sblk + 1
    /\ t_active = NoSblk
    /\ t_ppa = [d \in TPages |-> NoPage]
    /\ line_wp = [b \in Sblks |-> 0]
    /\ nand_err = FALSE
    /\ aborted = FALSE

\* tp_alloc takes the next page of superblock b; the caller validates it,
\* programs it and puts d in its OOB.  The state is the one after any GC.
PlaceTpage(d, b, wp, V, cnt, oobs, tp, lw, err) ==
    LET p == <<b, wp[b]>>
    IN  /\ wp_offt' = [wp EXCEPT ![b] = @ + 1]
        /\ valid' = V \union {p}
        /\ valid_cnt' = [cnt EXCEPT ![b] = @ + 1]
        /\ oob' = [oobs EXCEPT ![p] = d]
        /\ t_ppa' = [tp EXCEPT ![d] = p]
        /\ line_wp' = Write(lw, b, p[2], 1)
        /\ nand_err' = (err \/ WriteFails(lw, b, p[2], 1))

\* A dirty tpage d is written: the active superblock has room.
WriteInActive(d) ==
    /\ ~aborted
    /\ t_ppa[d] = NoPage
    /\ ~NeedSblk
    /\ PlaceTpage(d, t_active, wp_offt, valid, valid_cnt, oob, t_ppa,
                  line_wp, nand_err)
    /\ UNCHANGED <<sblk_rsv, active_sblk, free_sblk_cnt, t_active, aborted>>

\* The active superblock is full and a free one is left besides the reserve.
WriteInNext(d) ==
    /\ ~aborted
    /\ t_ppa[d] = NoPage
    /\ NeedSblk
    /\ ~GcNeeded(free_sblk_cnt)
    /\ LET b == NextActive(wp_offt, sblk_rsv, active_sblk)
       IN  /\ active_sblk' = b
           /\ t_active' = b
           /\ free_sblk_cnt' = IF wp_offt[b] = 0 THEN free_sblk_cnt - 1
                                                 ELSE free_sblk_cnt
           /\ PlaceTpage(d, b, wp_offt, valid, valid_cnt, oob, t_ppa,
                         line_wp, nand_err)
    /\ UNCHANGED <<sblk_rsv, aborted>>

\* tpage_gc: the valid pages of the victim go to the reserve, the victim is
\* trimmed and becomes the reserve, the old reserve becomes active.
WriteAfterGc(d) ==
    /\ ~aborted
    /\ t_ppa[d] = NoPage
    /\ NeedSblk
    /\ GcNeeded(free_sblk_cnt)
    /\ LET v    == GcTarget(wp_offt, sblk_rsv, valid_cnt)
           V    == In(valid, v)
           r    == sblk_rsv
           off  == wp_offt[r]
           k    == Cardinality(V)
           read == \A p \in V : Programmed(line_wp, p)
       IN  /\ Reclaimable(wp_offt, valid_cnt, v, 1)
           /\ PlaceTpage(d, r, WpAfterGc(v, V), ValidAfterGc(V),
                         CntAfterGc(v, V), OobAfterGc(v, V), TppaAfterGc(V),
                         Trim(Write(line_wp, r, off, k), v),
                         nand_err \/ ~read \/ WriteFails(line_wp, r, off, k))
           /\ t_active' = r
           /\ sblk_rsv' = v
    /\ UNCHANGED <<active_sblk, free_sblk_cnt, aborted>>

\* GC is needed and no full superblock holds an invalid page.
WriteAborts(d) ==
    /\ ~aborted
    /\ t_ppa[d] = NoPage
    /\ NeedSblk
    /\ GcNeeded(free_sblk_cnt)
    /\ ~Reclaimable(wp_offt, valid_cnt,
                    GcTarget(wp_offt, sblk_rsv, valid_cnt), 1)
    /\ aborted' = TRUE
    /\ UNCHANGED <<wp_offt, valid, valid_cnt, oob, sblk_rsv, active_sblk,
                   free_sblk_cnt, t_active, t_ppa, line_wp, nand_err>>

\* The copy of d on flash goes out of date: an entry of the cached tpage is
\* updated (dftl_cache_update), or data GC is about to rewrite the tpage.
DropTpage(d) ==
    /\ ~aborted
    /\ t_ppa[d] # NoPage
    /\ valid' = valid \ {t_ppa[d]}
    /\ valid_cnt' = [valid_cnt EXCEPT ![t_ppa[d][1]] = @ - 1]
    /\ t_ppa' = [t_ppa EXCEPT ![d] = NoPage]
    /\ UNCHANGED <<wp_offt, oob, sblk_rsv, active_sblk, free_sblk_cnt,
                   t_active, line_wp, nand_err, aborted>>

Next ==
    \E d \in TPages :
        \/ WriteInActive(d)
        \/ WriteInNext(d)
        \/ WriteAfterGc(d)
        \/ WriteAborts(d)
        \/ DropTpage(d)

Spec == Init /\ [][Next]_vars

-----------------------------------------------------------------------------
\* The variables keep their types; wp_offt and valid_cnt stay within a
\* superblock, so get_page_num is never asked for a page of a full one.
TypeOK ==
    /\ wp_offt \in [Sblks -> 0 .. PPS]
    /\ valid \subseteq Pages
    /\ valid_cnt \in [Sblks -> 0 .. PPS]
    /\ oob \in [Pages -> TPages]
    /\ sblk_rsv \in Sblks
    /\ active_sblk \in Sblks \union {NoSblk}
    /\ free_sblk_cnt \in 0 .. (e_sblk - s_sblk + 1)
    /\ t_active \in Sblks \union {NoSblk}
    /\ t_ppa \in [TPages -> Pages \union {NoPage}]
    /\ line_wp \in [Sblks -> 0 .. PPS]
    /\ nand_err \in BOOLEAN
    /\ aborted \in BOOLEAN

\* The page numbers tp, the valid pages V and the OOBs tell one story: the
\* page a tpage points to is valid and names it, and every valid page is the
\* one its OOB's tpage points to.
Consistent(V, oobs, tp) ==
    /\ \A d \in TPages : tp[d] # NoPage => tp[d] \in V /\ oobs[tp[d]] = d
    /\ \A p \in V : tp[oobs[p]] = p

\* It does after every write, drop and GC.  GC trusts the OOB alone
\* (dftl_pg.c:467): a stale or doubled entry would redirect another tpage.
MappingConsistent == Consistent(valid, oob, t_ppa)

\* Every page a mapping load or GC may read has been programmed and the line
\* pointers follow the allocator's, so that no NAND write lands on a
\* programmed page or ahead of its line (ssd.c:267-282, 305-308).
NandInStep ==
    /\ \A p \in valid : Programmed(line_wp, p)
    /\ line_wp = wp_offt
    /\ ~nand_err

\* The counter that greedy victim selection and the abort test rely on is the
\* number of valid pages, through every GC (an unsigned counter that slips
\* below zero would hide its superblock from GC for ever).
CountsExact == \A b \in Sblks : valid_cnt[b] = Cardinality(In(valid, b))

\* The assertion of dftl_get_active_sblk: the reserve is empty whenever GC is
\* about to fill it; and it is never the superblock being filled.
ReserveReady ==
    /\ wp_offt[sblk_rsv] = 0
    /\ t_active # sblk_rsv

\* free_sblk_cnt, which is never incremented, still counts the empty
\* superblocks; at least the reserve is one of them.
FreeExact ==
    /\ free_sblk_cnt = Cardinality({b \in Sblks : wp_offt[b] = 0})
    /\ free_sblk_cnt >= 1

\* Only the superblock being filled is partly written, and until GC takes
\* over it is the one the cursor names.
CursorSound ==
    /\ \A b \in Sblks : b # t_active => wp_offt[b] \in {0, PPS}
    /\ t_active = NoSblk => \A b \in Sblks : wp_offt[b] = 0
    /\ t_active # NoSblk => wp_offt[t_active] > 0
    /\ ~GcNeeded(free_sblk_cnt) => active_sblk = t_active

\* When a superblock is wanted and the counter says there is one, the search
\* finds an empty one: tp_alloc never dereferences the NULL it may return,
\* and never reopens a superblock that GC freed behind the cursor.
SearchFinds ==
    (NeedSblk /\ ~GcNeeded(free_sblk_cnt)) =>
        LET b == NextActive(wp_offt, sblk_rsv, active_sblk)
        IN  b # NoSblk /\ wp_offt[b] = 0

\* The roles of superblocks through every GC: however they change, the reserve
\* is empty for the next GC, free_sblk_cnt is exact at its limit, and the search
\* finds the superblock it promises.
RolesSound == ReserveReady /\ FreeExact /\ CursorSound /\ SearchFinds

\* Fewer translation pages than the partition holds besides the reserve.
Provisioned == NrTpages <= (e_sblk - s_sblk) * PPS

\* With that provision GC always finds a page to reclaim, whatever the order
\* of evictions and updates: abort() is never reached.
NeverAborts == Provisioned => ~aborted

\* Without it, GC gives up only when there is truly nothing to reclaim.
AbortsOnlyWhenFull ==
    aborted => \A b \in Sblks \ {sblk_rsv} : PagesOf(b) \subseteq valid

\* The abstract store: the tpages whose page is valid, programmed and named.
StoredTpages ==
    {d \in TPages : /\ t_ppa[d] \in valid
                    /\ oob[t_ppa[d]] = d
                    /\ Programmed(line_wp, t_ppa[d])}

\* The invariant that is inductive; the runs check it part by part.
IInv ==
    /\ TypeOK
    /\ MappingConsistent
    /\ NandInStep
    /\ CountsExact
    /\ ReserveReady
    /\ FreeExact
    /\ CursorSound

Store == INSTANCE TpageStore WITH stored <- StoredTpages

\* The mapping area implements the store: a write adds its tpage and nothing
\* else, a drop removes its tpage and nothing else, GC changes nothing.
ImplementsStore == Store!Spec

=============================================================================

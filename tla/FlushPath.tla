----------------------------- MODULE FlushPath -----------------------------
(***************************************************************************)
(* The write path of the FTL, from __demand_set to the NAND: the write     *)
(* buffer and its flush (dftl_wb.c), which packs the buffered values into  *)
(* pages (_do_wb_assign_ppa), points the hash-probed mapping entries to    *)
(* them (_do_wb_mapping_update) and programs the pages (_do_wb_flush),     *)
(* with the data garbage collection dp_alloc may run in between            *)
(* (dftl_pg.c).  The partition is the data partition (DATA_S).             *)
(*                                                                         *)
(* The algorithm thread runs the whole flush inside one set; its loops are *)
(* steps here, one per page and one per entry.  The mapping is flat: the   *)
(* table in memory keeps every entry whether its translation page is       *)
(* cached or not, so a flush in which no cache load waits sees only that.  *)
(* The emulator stores no data; cell is what the programmed page would     *)
(* hold, and is read by the properties alone.                              *)
(*                                                                         *)
(* An OOB is kept while something can still read it: GC reads those of     *)
(* valid grains, an overwrite the one its mapping entry leads to.  Stale   *)
(* OOBs that nothing leads to stay in the code and are voided here.        *)
(*                                                                         *)
(* Where an assertion of the code is false, or it aborts, the behaviour    *)
(* ends and failed names the place.  The code ignores a command the NAND   *)
(* refuses and goes on: nand_err records it.                               *)
(***************************************************************************)
EXTENDS Superblock, Sequences, SequencesExt

CONSTANTS GRAIN_PER_PAGE,
          Keys,           \* naturals, in the order the skiplist keeps them
          Vals,
          NotFound,       \* what a read of an unknown key returns
          LenOf,          \* value -> its grains, header and key included
          MAX_WRITE_BUF,  \* entries of the write buffer
          NrLpas,         \* nr_valid_tentries, the entries of the mapping
          HashOf,         \* key -> h_params->hash
          FpOf,           \* key -> h_params->key_fp
          OobZeroed       \* grains whose OOB the memset of trim reaches

GrainsPerSblk == PPS * GRAIN_PER_PAGE

ASSUME FlushAssumption ==
    /\ GRAIN_PER_PAGE \in Nat \ {0}
    /\ Keys \subseteq Nat
    /\ NotFound \notin Vals
    /\ LenOf \in [Vals -> 1 .. GRAIN_PER_PAGE]
    /\ MAX_WRITE_BUF \in Nat \ {0}
    /\ NrLpas \in Nat \ {0}
    /\ HashOf \in [Keys -> Nat]
    /\ FpOf \in [Keys -> Nat]
    /\ OobZeroed \in 0 .. GrainsPerSblk

Lpas == 0 .. NrLpas - 1

\* A grain is named by its superblock and its offset in it (PPA_TO_PGA).
Grains == Sblks \X (0 .. GrainsPerSblk - 1)
NoGrain == <<NoSblk, 0>>     \* UINT32_MAX in a mapping entry
NoKey == -1
NoOob == [lpa |-> 0, length |-> 0]
NoCell == <<NoKey, NotFound>>

VARIABLES
    wp_offt, valid_cnt, sblk_rsv, active_sblk, free_sblk_cnt, line_wp,
    valid,       \* the grains set in valid_bitmap
    oob,         \* grain -> [lpa, length], written for a value's first grain
    d_active,    \* the superblock being filled, NULL at start
    wb,          \* the write buffer: key -> value
    pc,          \* where __demand_set is
    todo,        \* the entries the current loop has not treated yet
    ent_ppa,     \* wb_entry->ppa of the entries placed in this flush
    fl,          \* the flush list, page by page
    hash_table,  \* what this flush has inserted: pairs of grain and lpa
    pte_ppa,     \* the mapping: lpa -> first grain of the value
    pte_fp,      \* the mapping: lpa -> fingerprint
    real_keys,   \* lpa -> the key that owns the entry
    max_try,     \* the longest probe of any set so far
    gc_bucket,   \* the pointer: never set, freed, or freed once too often
    nand_err,    \* the NAND has refused a command
    failed,      \* the failure that ended the behaviour
    cell         \* the flash: first grain of a valid value -> key and value

vars == <<wp_offt, valid_cnt, sblk_rsv, active_sblk, free_sblk_cnt, line_wp,
          valid, oob, d_active, wb, pc, todo, ent_ppa, fl, hash_table,
          pte_ppa, pte_fp, real_keys, max_try, gc_bucket, nand_err, failed,
          cell>>

pt_vars == <<active_sblk, free_sblk_cnt, d_active>>
end_vars == <<nand_err, failed>>
map_vars == <<pte_fp, real_keys, max_try, hash_table>>

-----------------------------------------------------------------------------
\* The function f, and g where f has no value.
Over(f, g) == [x \in DOMAIN f \union DOMAIN g |->
                  IF x \in DOMAIN f THEN f[x] ELSE g[x]]

\* A fault: the loop over the grains of a value runs one too far.
SpanTooFar(g, n) == {<<g[1], g[2] + i>> : i \in 0 .. n}

\* The grains of a value of n grains that starts at g.
Span(g, n) == {<<g[1], g[2] + i>> : i \in 0 .. n - 1}

PageOf(g) == <<g[1], g[2] \div GRAIN_PER_PAGE>>

\* A value of len grains fits in a page that has used ones.
Fits(used, len) == len <= GRAIN_PER_PAGE - used

\* The greedy packing of both _do_wb_assign_ppa and GC: as long as one fits,
\* a value of the longest length that does, of those the last in its bucket.
FillPage(items) ==
    LET Add(page) ==
            LET fit == {x \in page.left : Fits(page.used, x.len)}
                x   == CHOOSE x \in fit :
                          \A y \in fit : \/ y.len < x.len
                                         \/ y.len = x.len /\ y.id <= x.id
            IN  IF fit = {} THEN page
                ELSE [left |-> page.left \ {x},
                      used |-> page.used + x.len,
                      at   |-> Over([n \in {x.id} |-> page.used], page.at)]
        filled[i \in 0 .. GRAIN_PER_PAGE] ==
            IF i = 0 THEN [left |-> items, used |-> 0, at |-> <<>>]
                     ELSE Add(filled[i - 1])
    IN  filled[GRAIN_PER_PAGE]

\* The first grains of the values GC finds in page o of superblock v: it skips
\* from a valid grain by the length in its OOB.
FirstGrains(v, o) ==
    LET Scan(s, j) ==
            LET g == <<v, o * GRAIN_PER_PAGE + j>>
            IN  IF j < s.skip \/ g \notin valid THEN s
                ELSE [skip |-> j + oob[g].length, found |-> s.found \union {g}]
        scan[j \in 0 .. GRAIN_PER_PAGE] ==
            IF j = 0 THEN [skip |-> 0, found |-> {}]
                     ELSE Scan(scan[j - 1], j - 1)
    IN  scan[GRAIN_PER_PAGE].found

ValuesIn(v) == UNION {FirstGrains(v, o) : o \in 0 .. PPS - 1}

\* Where the values M go: pages of the reserve from its first, packed.  One
\* page more than the reserve has shows that they do not fit.
Layout(M) ==
    LET AddPage(a) ==
            LET page == FillPage(a.left)
            IN  IF a.left = {} THEN a
                ELSE [left  |-> page.left,
                      pages |-> a.pages + 1,
                      at    |-> Over([n \in DOMAIN page.at |->
                                         a.pages * GRAIN_PER_PAGE + page.at[n]],
                                     a.at)]
        packed[i \in 0 .. PPS + 1] ==
            IF i = 0 THEN [left  |-> {[id |-> g[2], len |-> oob[g].length] : g \in M},
                           pages |-> 0, at |-> <<>>]
                     ELSE AddPage(packed[i - 1])
    IN  packed[PPS + 1]

\* A fault: a grain is no longer valid and still counted.
CountedStill(gs, cnt) == cnt

\* What the counts come to when the grains gs are no longer valid.
CountedOff(gs, cnt) ==
    [b \in Sblks |-> cnt[b] - Cardinality({g \in gs : g[1] = b})]

\* validate_grain of the grains gs, V and cnt being what is valid before.
validate(gs, V, cnt) ==
    /\ valid' = V \union gs
    /\ valid_cnt' = [b \in Sblks |-> cnt[b] + Cardinality({g \in gs : g[1] = b})]

\* invalidate_grain of the grains gs, which asserts that they are valid.
invalidate(gs) ==
    /\ failed' = IF gs \subseteq valid THEN "none" ELSE "invalidate_grain"
    /\ valid' = valid \ gs
    /\ valid_cnt' = CountedOff(gs, valid_cnt)

\* The OOBs oobs as far as the grains gs lead to them.
Kept(oobs, gs) == [g \in Grains |-> IF g \in gs THEN oobs[g] ELSE NoOob]

-----------------------------------------------------------------------------
Init ==
    /\ wp_offt = [b \in Sblks |-> 0]
    /\ valid_cnt = [b \in Sblks |-> 0]
    /\ sblk_rsv = s_sblk
    /\ active_sblk = NoSblk
    /\ free_sblk_cnt = e_sblk - s_sblk + 1
    /\ line_wp = [b \in Sblks |-> 0]
    /\ valid = {}
    /\ oob = [g \in Grains |-> NoOob]
    /\ d_active = NoSblk
    /\ wb = <<>>
    /\ pc = "idle"
    /\ todo = {}
    /\ ent_ppa = <<>>
    /\ fl = <<>>
    /\ hash_table = {}
    /\ pte_ppa = [l \in Lpas |-> NoGrain]
    /\ pte_fp = [l \in Lpas |-> 0]
    /\ real_keys = [l \in Lpas |-> NoKey]
    /\ max_try = 0
    /\ gc_bucket = "null"
    /\ nand_err = FALSE
    /\ failed = "none"
    /\ cell = [g \in Grains |-> NoCell]

Running == failed = "none"

\* A set finds room in the buffer: the entry is added or its value replaced.
Insert(k, v) ==
    /\ Running /\ pc = "idle"
    /\ Cardinality(DOMAIN wb) < MAX_WRITE_BUF
    /\ wb' = Over([j \in {k} |-> v], wb)
    /\ UNCHANGED <<wp_offt, valid_cnt, sblk_rsv, line_wp, valid, oob, pc,
                   todo, ent_ppa, fl, pte_ppa, gc_bucket, cell>>
    /\ UNCHANGED pt_vars /\ UNCHANGED map_vars /\ UNCHANGED end_vars

\* A set finds the buffer full: the flush comes before its insert.
BeginFlush ==
    /\ Running /\ pc = "idle"
    /\ Cardinality(DOMAIN wb) = MAX_WRITE_BUF
    /\ pc' = "assign"
    /\ todo' = DOMAIN wb
    /\ UNCHANGED <<wp_offt, valid_cnt, sblk_rsv, line_wp, valid, oob, wb,
                   ent_ppa, fl, pte_ppa, gc_bucket, cell>>
    /\ UNCHANGED pt_vars /\ UNCHANGED map_vars /\ UNCHANGED end_vars

-----------------------------------------------------------------------------
\* _do_wb_assign_ppa: dp_alloc hands out the next page of superblock b and it
\* is filled.  The state is the one after any GC.  The lpa in the OOB stays 0
\* until the mapping is updated.
AssignPage(b, wp, V, cnt, oobs, cells) ==
    \E page \in {FillPage({[id |-> k, len |-> LenOf[wb[k]]] : k \in todo})} :
    LET new == [k \in DOMAIN page.at |->
                   <<b, wp[b] * GRAIN_PER_PAGE + page.at[k]>>]
        key  == AntiFunction(new)
        rest == todo \ DOMAIN new
    IN  /\ wp_offt' = [wp EXCEPT ![b] = @ + 1]
        /\ validate(UNION {Span(new[k], LenOf[wb[k]]) : k \in DOMAIN new}, V, cnt)
        /\ oob' = Over([g \in DOMAIN key |->
                            [lpa |-> 0, length |-> LenOf[wb[key[g]]]]], oobs)
        /\ cell' = Over([g \in DOMAIN key |-> <<key[g], wb[key[g]]>>], cells)
        /\ ent_ppa' = Over(new, ent_ppa)
        /\ fl' = Append(fl, <<b, wp[b]>>)
        /\ todo' = IF rest = {} THEN DOMAIN wb ELSE rest
        /\ pc' = IF rest = {} THEN "map" ELSE "assign"
        /\ UNCHANGED <<wb, pte_fp, real_keys, max_try, hash_table>>

NeedSblk == d_active # NoSblk => Full(wp_offt, d_active)

AssignInActive ==
    /\ Running /\ pc = "assign"
    /\ ~NeedSblk
    /\ AssignPage(d_active, wp_offt, valid, valid_cnt, oob, cell)
    /\ UNCHANGED <<sblk_rsv, line_wp, pte_ppa, gc_bucket, nand_err, failed>>
    /\ UNCHANGED pt_vars

AssignInNext ==
    /\ Running /\ pc = "assign"
    /\ NeedSblk
    /\ ~GcNeeded(free_sblk_cnt)
    /\ LET b == NextActive(wp_offt, sblk_rsv, active_sblk)
       IN  /\ active_sblk' = b
           /\ d_active' = b
           /\ free_sblk_cnt' = IF wp_offt[b] = 0 THEN free_sblk_cnt - 1
                                                 ELSE free_sblk_cnt
           /\ AssignPage(b, wp_offt, valid, valid_cnt, oob, cell)
    /\ UNCHANGED <<sblk_rsv, line_wp, pte_ppa, gc_bucket, nand_err, failed>>

\* How dpage_gc_dvalue ends for victim v, whose values begin at the grains M
\* and fill copied pages of the reserve.  When no page of the reserve is left,
\* the get_page_num of dp_alloc after it fails.
GcOutcome(v, M, copied) ==
    LET covered == UNION {Span(g, oob[g].length) : g \in M}
        here    == {g \in valid : g[1] = v}
    IN  CASE \E g \in M : oob[g].length = 0 -> "no OOB"
          [] ~(covered \subseteq here) -> "invalidate_grain"
          [] covered # here -> "valid grain left"
          [] copied >= PPS -> "get_page_num"
          [] OTHER -> "none"

\* A fault: GC moves the values and leaves the mapping as it was.
PpaNotMoved(M, to) == pte_ppa

\* The mapping after GC: the entry named by each OOB is pointed to the copy;
\* the fingerprint stays.  Of several values that name one, the last decides.
PpaAfterGc(M, to) ==
    [l \in Lpas |->
        LET Q == {g \in M : oob[g].lpa = l}
        IN  IF Q = {} THEN pte_ppa[l]
            ELSE to[(CHOOSE g \in Q : \A h \in Q : h[2] <= g[2])[2]]]

\* A fault: the copies are not given the OOBs of the originals.
NotMoved(x, v, to, none, zeroed) ==
    [g \in Grains |-> IF g[1] = v /\ g[2] < zeroed THEN none ELSE x[g]]

\* What the grains hold after GC: x is oob or cell, none what the first
\* zeroed grains of the victim are left with.
MovedTo(x, v, to, none, zeroed) ==
    LET from == AntiFunction(to)
    IN  Over([g \in DOMAIN from |-> x[<<v, from[g]>>]],
             [g \in Grains |-> IF g[1] = v /\ g[2] < zeroed THEN none ELSE x[g]])

\* The places of the layout, from the next page of the reserve on.
CopiesAt(lay) ==
    [n \in DOMAIN lay.at |->
        <<sblk_rsv, wp_offt[sblk_rsv] * GRAIN_PER_PAGE + lay.at[n]>>]

\* The grains of the copies.
Copied(M, to) == UNION {Span(to[g[2]], oob[g].length) : g \in M}

\* GC copies the values M of victim v to the places to, which takes so many
\* pages of the reserve, and dp_alloc hands out the page behind them.
GcThenPlace(v, M, to, pages) ==
    LET r     == sblk_rsv
        moved == Copied(M, to)
        from  == {PageOf(g) : g \in {h \in valid : h[1] = v}}
    IN  /\ GcOutcome(v, M, pages) = "none"
        /\ nand_err' = \/ nand_err
                       \/ \E p \in from : ~Programmed(line_wp, p)
                       \/ WriteFails(line_wp, r, wp_offt[r], pages)
        /\ AssignPage(r,
              [wp_offt EXCEPT ![r] = @ + pages, ![v] = 0],
              {g \in valid : g[1] # v} \union moved,
              [valid_cnt EXCEPT ![r] = @ + Cardinality(moved), ![v] = 0],
              Kept(MovedTo(oob, v, to, NoOob, OobZeroed),
                   valid \union moved \union Range(ent_ppa)
                         \union Range(PpaAfterGc(M, to))),
              MovedTo(cell, v, to, NoCell, GrainsPerSblk))
        /\ pte_ppa' = PpaAfterGc(M, to)
        /\ line_wp' = Trim(Write(line_wp, r, wp_offt[r], pages), v)
        /\ d_active' = r
        /\ sblk_rsv' = v
        /\ gc_bucket' = IF M # {} THEN "freed"
                        ELSE IF gc_bucket = "null" THEN "null"
                        ELSE "freed twice"

AssignAfterGc ==
    /\ Running /\ pc = "assign"
    /\ NeedSblk
    /\ GcNeeded(free_sblk_cnt)
    /\ \E v \in {GcTarget(wp_offt, sblk_rsv, valid_cnt)} :
       /\ Reclaimable(wp_offt, valid_cnt, v, GRAIN_PER_PAGE)
       /\ \E M \in {ValuesIn(v)} : \E lay \in {Layout(M)} :
             GcThenPlace(v, M, CopiesAt(lay), lay.pages)
    /\ UNCHANGED <<active_sblk, free_sblk_cnt, failed>>

GcFails ==
    /\ Running /\ pc = "assign"
    /\ NeedSblk
    /\ GcNeeded(free_sblk_cnt)
    /\ LET v == GcTarget(wp_offt, sblk_rsv, valid_cnt)
       IN  failed' = IF ~Reclaimable(wp_offt, valid_cnt, v, GRAIN_PER_PAGE)
                       THEN "no superblock to reclaim"
                       ELSE GcOutcome(v, ValuesIn(v), Layout(ValuesIn(v)).pages)
    /\ failed' # "none"
    /\ UNCHANGED <<wp_offt, valid_cnt, sblk_rsv, line_wp, valid, oob, wb, pc,
                   todo, ent_ppa, fl, pte_ppa, gc_bucket, cell>>
    /\ UNCHANGED pt_vars /\ UNCHANGED map_vars /\ UNCHANGED nand_err

-----------------------------------------------------------------------------
\* get_lpa: quadratic probing.
Lpa(k, c) == (HashOf[k] + c + c * c) % NrLpas

\* The tries after which probing has been everywhere it will ever go.
Tries == 0 .. NrLpas

\* The entries of this flush, each with its place.  The buckets of d_htable hold
\* the lpa alone; an entry has one place in a flush, so that the bucket of
\* another place does not hold it.
d_htable_insert(ppa, l) == hash_table' = hash_table \union {<<ppa, l>>}
d_htable_find(ppa, l) == <<ppa, l>> \in hash_table

\* A fault: a set takes initial entries only.
TakesFresh(k, l) == pte_ppa[l] = NoGrain

\* A set takes the entry: it is initial, or it bears the key's fingerprint
\* and is not one of this flush (UPDATE_DATA_CHECK is off: the key is not
\* compared).
Takes(k, l) ==
    \/ pte_ppa[l] = NoGrain
    \/ pte_fp[l] = FpOf[k] /\ ~d_htable_find(pte_ppa[l], l)

\* A fault: only the first grain of the overwritten value is invalidated.
FirstOnly(l) == {pte_ppa[l]} \ {NoGrain}

\* The grains that an update of entry l invalidates, by the length in the OOB.
Overwritten(l) ==
    IF pte_ppa[l] = NoGrain THEN {} ELSE Span(pte_ppa[l], oob[pte_ppa[l]].length)

\* _do_wb_mapping_update for one entry: the queue holds them in key order, but
\* one that waits for its translation page is overtaken by the others.  An
\* entry it has probed in vain stays taken, so its probes are one step.
MapEntry ==
    /\ Running /\ pc = "map" /\ todo # {}
    /\ \E k \in todo, c \in Tries :
       /\ Takes(k, Lpa(k, c))
       /\ \A i \in 0 .. c - 1 : ~Takes(k, Lpa(k, i))
       /\ LET l   == Lpa(k, c)
              old == Overwritten(l)
          IN  /\ invalidate(old)
              /\ pte_ppa' = [pte_ppa EXCEPT ![l] = ent_ppa[k]]
              /\ pte_fp' = [pte_fp EXCEPT ![l] = FpOf[k]]
              /\ real_keys' = [real_keys EXCEPT ![l] = k]
              /\ d_htable_insert(ent_ppa[k], l)
              /\ max_try' = IF c > max_try THEN c ELSE max_try
              /\ oob' = Kept([oob EXCEPT ![ent_ppa[k]].lpa = l],
                              valid' \union Range(ent_ppa) \union Range(pte_ppa'))
              /\ cell' = [g \in Grains |-> IF g \in old THEN NoCell ELSE cell[g]]
              /\ todo' = todo \ {k}
    /\ UNCHANGED <<wp_offt, sblk_rsv, line_wp, wb, pc, ent_ppa, fl, gc_bucket,
                   nand_err>>
    /\ UNCHANGED pt_vars

\* _do_wb_flush: each run of adjacent pages is one NAND write, which gives up
\* at the first page it cannot program.
Adjacent(p, q) == \/ p[1] = q[1] /\ p[2] + 1 = q[2]
                  \/ p[1] + 1 = q[1] /\ p[2] = PPS - 1 /\ q[2] = 0

Flush ==
    /\ Running /\ pc = "map" /\ todo = {}
    /\ LET Program(w, i) ==
               LET p     == fl[i]
                   again == i = 1 \/ ~Adjacent(fl[i - 1], p)
                   ok    == (again \/ w.ok) /\ ~WriteFails(w.line, p[1], p[2], 1)
               IN  [line |-> IF ok THEN Write(w.line, p[1], p[2], 1) ELSE w.line,
                    ok |-> ok, all |-> w.all /\ ok]
           written[i \in 0 .. Len(fl)] ==
               IF i = 0 THEN [line |-> line_wp, ok |-> TRUE, all |-> TRUE]
                        ELSE Program(written[i - 1], i)
           done == written[Len(fl)]
       IN  /\ line_wp' = done.line
           /\ nand_err' = (nand_err \/ ~done.all)
    /\ wb' = <<>>
    /\ hash_table' = {}
    /\ ent_ppa' = <<>>
    /\ fl' = <<>>
    /\ pc' = "idle"
    /\ UNCHANGED <<wp_offt, valid_cnt, sblk_rsv, valid, oob, todo, pte_ppa,
                   pte_fp, real_keys, max_try, gc_bucket, failed, cell>>
    /\ UNCHANGED pt_vars

Next ==
    \/ \E k \in Keys, v \in Vals : Insert(k, v)
    \/ BeginFlush
    \/ AssignInActive
    \/ AssignInNext
    \/ AssignAfterGc
    \/ GcFails
    \/ MapEntry
    \/ Flush

Spec == Init /\ [][Next]_vars

-----------------------------------------------------------------------------
Failures == {"no superblock to reclaim", "no OOB", "invalidate_grain",
             "valid grain left", "get_page_num"}

\* The variables keep their types; the write pointers stay in their
\* superblock.
TypeOK ==
    /\ wp_offt \in [Sblks -> 0 .. PPS]
    /\ valid_cnt \in [Sblks -> 0 .. GrainsPerSblk]
    /\ sblk_rsv \in Sblks
    /\ active_sblk \in Sblks \union {NoSblk}
    /\ free_sblk_cnt \in 1 .. (e_sblk - s_sblk + 1)
    /\ line_wp \in [Sblks -> 0 .. PPS]
    /\ valid \subseteq Grains
    /\ oob \in [Grains -> [lpa : Lpas, length : 0 .. GRAIN_PER_PAGE]]
    /\ d_active \in Sblks \union {NoSblk}
    /\ DOMAIN wb \subseteq Keys
    /\ \A k \in DOMAIN wb : wb[k] \in Vals
    /\ pc \in {"idle", "assign", "map"}
    /\ todo \subseteq DOMAIN wb
    /\ DOMAIN ent_ppa \subseteq DOMAIN wb
    /\ \A k \in DOMAIN ent_ppa : ent_ppa[k] \in Grains
    /\ fl \in Seq(Pages)
    /\ hash_table \subseteq Grains \X Lpas
    /\ pte_ppa \in [Lpas -> Grains \union {NoGrain}]
    /\ pte_fp \in [Lpas -> Nat]
    /\ real_keys \in [Lpas -> Keys \union {NoKey}]
    /\ max_try \in Tries
    /\ gc_bucket \in {"null", "freed", "freed twice"}
    /\ nand_err \in BOOLEAN
    /\ failed \in Failures \union {"none"}
    /\ cell \in [Grains -> (Keys \X Vals) \union {NoCell}]

\* GC within a flush leaves the superblocks alone to which the flush has written.
Settled ==
    pc = "assign" /\ NeedSblk /\ GcNeeded(free_sblk_cnt) =>
        \A i \in DOMAIN fl : fl[i][1] # GcTarget(wp_offt, sblk_rsv, valid_cnt)

\* No assertion of the block manager fails on the write path, GC always finds
\* room and takes no page of the flush, and the NAND accepts every command.
NoFailure == failed = "none" /\ Settled /\ ~nand_err

Mapped == {l \in Lpas : pte_ppa[l] # NoGrain}

\* The entries of the flush that are placed and not mapped yet.
Pending == CASE pc = "assign" -> DOMAIN ent_ppa
             [] pc = "map"    -> todo
             [] OTHER         -> {}

\* Every valid grain belongs to one value, mapped or about to be, and every
\* value owns its grains: nothing is leaked, nothing is shared, through
\* packing, overwriting and GC.
GrainsOwned ==
    LET Owner  == ({"lpa"} \X Mapped) \union ({"entry"} \X Pending)
        At(o)  == IF o[1] = "lpa" THEN pte_ppa[o[2]] ELSE ent_ppa[o[2]]
        Own(o) == Span(At(o), oob[At(o)].length)
    IN  /\ valid = UNION {Own(o) : o \in Owner}
        /\ \A o, q \in Owner : o # q => Own(o) \cap Own(q) = {}

\* The OOB GC will trust names the entry that points to the value.
OobNamesEntry == \A l \in Mapped : oob[pte_ppa[l]].lpa = l

\* valid_cnt, by which the victim is chosen, counts the valid grains.
CountsExact ==
    \A b \in Sblks : valid_cnt[b] = Cardinality({g \in valid : g[1] = b})

\* The NAND follows the allocator but for the pages of the flush list, and
\* no page with a valid grain is missing on it once the flush is over.
NandInStep ==
    /\ \A b \in Sblks :
          wp_offt[b] = line_wp[b] + Cardinality({i \in DOMAIN fl : fl[i][1] = b})
    /\ \A g \in valid : \/ Programmed(line_wp, PageOf(g))
                        \/ \E i \in DOMAIN fl : fl[i] = PageOf(g)

\* The key the emulator remembers for an entry is the key on the flash page
\* the entry points to, so comparing it stands for reading the page.
RealKeysTrue == \A l \in Mapped : real_keys[l] = cell[pte_ppa[l]][1]

\* A key owns at most one mapping entry: an older value can never come back.
OneEntryPerKey ==
    \A l, m \in Mapped : real_keys[l] = real_keys[m] => l = m

\* GC frees the bucket it allocated and nothing else.
BucketFreedOnce == gc_bucket # "freed twice"

\* invalidate_grain is asked of valid grains only: the entry that a set
\* overwrites still leads to a live value.
InvalidateIsValid == failed # "invalidate_grain"

\* get_page_num is asked of a superblock with a page left.
PageLeft == failed # "get_page_num"

-----------------------------------------------------------------------------
\* __demand_get on the mapping: it probes from the key's own entry on and
\* stops where the fingerprint is the key's and the entry is initial (not
\* found) or the key on the page is the one asked for, or after last probes.
Probe(k, last) ==
    LET Stops(l) == /\ pte_fp[l] = FpOf[k]
                    /\ pte_ppa[l] = NoGrain \/ real_keys[l] = k
        Value(g) == IF g = NoGrain THEN NotFound ELSE cell[g][2]
        probe[c \in 0 .. NrLpas + 1] ==
            IF c > last THEN NotFound
            ELSE IF Stops(Lpa(k, c)) THEN Value(pte_ppa[Lpa(k, c)])
            ELSE probe[c + 1]
    IN  probe[0]

\* A fault: the read gives up one probe before the longest a set has needed.
LookupShort(k) == Probe(k, max_try - 1)

Lookup(k) == Probe(k, max_try)

\* A read tries the write buffer first.
Read(k) == IF k \in DOMAIN wb THEN wb[k] ELSE Lookup(k)

KV == INSTANCE KVStore WITH kv <- [k \in Keys |-> Read(k)]

\* Whatever is buffered, flushed, moved by GC or probed, a read returns the
\* value last set.
ImplementsKVStore == KV!Spec

=============================================================================

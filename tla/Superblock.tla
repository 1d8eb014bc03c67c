----------------------------- MODULE Superblock -----------------------------
(***************************************************************************)
(* One partition of the block manager (hash_hot_cmt/dftl_bm.c): the        *)
(* superblocks s_sblk .. e_sblk of _PPS pages each, written front to back. *)
(* The operators are the decisions dftl_bm.c takes over the write pointers *)
(* (wp_offt), the reserve superblock (sblk_rsv), the search cursor         *)
(* (active_sblk) and the valid counts (valid_cnt); the modules that extend *)
(* this one keep those as variables, one set per partition.                *)
(***************************************************************************)
EXTENDS Integers, FiniteSets

CONSTANTS s_sblk,   \* first superblock of the partition
          e_sblk,   \* last superblock of the partition
          PPS       \* pages per superblock

\* One superblock is the reserve, and the first search for an active one
\* starts after a usable one: three superblocks is the least that works.
ASSUME PartitionAssumption ==
    /\ s_sblk \in Nat
    /\ e_sblk \in Nat
    /\ s_sblk + 2 <= e_sblk
    /\ PPS \in Nat \ {0}

NoSblk == -1

Sblks == s_sblk .. e_sblk

\* A page is named by its superblock and its offset (SBLK_OFFT2PPA).
Pages == Sblks \X (0 .. PPS - 1)
NoPage == <<NoSblk, 0>>

PagesOf(b) == {p \in Pages : p[1] = b}

-----------------------------------------------------------------------------
\* dftl_check_full
Full(wp, b) == wp[b] >= PPS

\* A superblock the search may return: not the reserve, not full.
Usable(wp, rsv, b) == b # rsv /\ ~Full(wp, b)

\* The lowest superblock of S, where the ascending loops stop.
Lowest(S) == IF S = {} THEN NoSblk ELSE CHOOSE b \in S : \A c \in S : b <= c

\* The cursor the search starts from: the first usable superblock when there
\* is no active one yet.
StartOf(wp, rsv, cursor) ==
    IF cursor = NoSblk THEN Lowest({b \in Sblks : Usable(wp, rsv, b)})
                       ELSE cursor

\* A fault: the search does not wrap around to the superblocks before.
NextActiveAhead(wp, rsv, cursor) ==
    Lowest({b \in Sblks : b > StartOf(wp, rsv, cursor) /\ Usable(wp, rsv, b)})

\* dftl_get_active_sblk, not for the reserve: the first usable superblock
\* strictly after the cursor, then the first one strictly before it.
NextActive(wp, rsv, cursor) ==
    LET start  == StartOf(wp, rsv, cursor)
        after  == {b \in Sblks : b > start /\ Usable(wp, rsv, b)}
        before == {b \in Sblks : b < start /\ Usable(wp, rsv, b)}
    IN  IF after # {} THEN Lowest(after) ELSE Lowest(before)

\* dftl_isgc_needed: one free superblock is kept, the reserve.
GcNeeded(free) == free <= 1

\* What dftl_get_gc_target looks at: the full superblocks but the reserve.
Candidates(wp, rsv) == {b \in Sblks : b # rsv /\ Full(wp, b)}

\* A fault: the superblock with the most valid units.
GcTargetFullest(wp, rsv, valid_cnt) ==
    LET C == Candidates(wp, rsv)
    IN  Lowest({b \in C : \A c \in C : valid_cnt[b] >= valid_cnt[c]})

\* dftl_get_gc_target: of these the one with the fewest valid units, the
\* lowest if there are several.
GcTarget(wp, rsv, valid_cnt) ==
    LET C     == Candidates(wp, rsv)
        Fewest == {b \in C : \A c \in C : valid_cnt[b] <= valid_cnt[c]}
    IN  Lowest(Fewest)

\* The test before abort(): the superblock holds something to reclaim.
\* Units is what one page counts in valid_cnt.
Reclaimable(wp, valid_cnt, b, Units) ==
    b # NoSblk /\ valid_cnt[b] < wp[b] * Units

-----------------------------------------------------------------------------
(***************************************************************************)
(* The emulated NAND (lower/ssd.c).  A line is one superblock.  A page may *)
(* be programmed once and only at the line's write pointer, so the pages   *)
(* whose ppa_state is set are exactly those below line_wp, and line_wp     *)
(* alone stands for both.                                                  *)
(***************************************************************************)
Programmed(line_wp, p) == p[2] < line_wp[p[1]]

\* ssd_write_ppa: n pages from offset off of line b.  At a page that is
\* already programmed (-1) or ahead of the write pointer (-2) it gives up.
WriteFails(line_wp, b, off, n) == n > 0 /\ line_wp[b] # off

Write(line_wp, b, off, n) ==
    IF WriteFails(line_wp, b, off, n)
      THEN line_wp
      ELSE [line_wp EXCEPT ![b] = @ + n]

\* A fault: the erased line keeps its write pointer.
TrimKeepsLine(line_wp, b) == line_wp

\* ssd_trim_block
Trim(line_wp, b) == [line_wp EXCEPT ![b] = 0]

=============================================================================

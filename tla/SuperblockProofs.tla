-------------------------- MODULE SuperblockProofs --------------------------
(***************************************************************************)
(* What the decisions of the block manager return, for every partition:    *)
(* lemmas about the operators of Superblock, cited by the proofs about the *)
(* state machines built from them.                                         *)
(***************************************************************************)
EXTENDS Superblock, FiniteSetTheorems, FunctionTheorems, NumberFacts

\* The partition is a finite, nonempty set of superblock numbers, none of
\* which is the NULL of the code.
LEMMA SblksFacts ==
    /\ Sblks \subseteq Nat
    /\ NoSblk \notin Sblks
    /\ IsFiniteSet(Sblks)
    /\ Cardinality(Sblks) = e_sblk - s_sblk + 1
<1>1. /\ IsFiniteSet(s_sblk .. e_sblk)
      /\ Cardinality(s_sblk .. e_sblk) =
            IF s_sblk > e_sblk THEN 0 ELSE e_sblk - s_sblk + 1
  BY FS_Interval, PartitionAssumption
<1>. QED
  BY <1>1, PartitionAssumption DEF Sblks, NoSblk

\* The pages of a partition, and of one superblock, are finitely many.
LEMMA PagesFacts ==
    /\ IsFiniteSet(Pages)
    /\ NoPage \notin Pages
    /\ \A b \in Sblks : /\ IsFiniteSet(PagesOf(b))
                        /\ Cardinality(PagesOf(b)) = PPS
<1>1. IsFiniteSet(0 .. PPS - 1) /\ Cardinality(0 .. PPS - 1) = PPS
  BY FS_Interval, PartitionAssumption
<1>2. IsFiniteSet(Pages)
  BY <1>1, SblksFacts, FS_Product DEF Pages
<1>3. NoPage \notin Pages
  BY SblksFacts DEF NoPage, Pages
<1>4. ASSUME NEW b \in Sblks
      PROVE  IsFiniteSet(PagesOf(b)) /\ Cardinality(PagesOf(b)) = PPS
  <2>1. PagesOf(b) = {b} \X (0 .. PPS - 1)
    BY DEF PagesOf, Pages
  <2>2. IsFiniteSet({b}) /\ Cardinality({b}) = 1
    BY FS_Singleton
  <2> DEFINE S == {b}
             T == 0 .. PPS - 1
  <2>3. Cardinality(S \X T) = 1 * PPS /\ IsFiniteSet(S \X T)
    <3>1. IsFiniteSet(S) /\ Cardinality(S) = 1 /\ IsFiniteSet(T) /\ Cardinality(T) = PPS
      BY <1>1, <2>2
    <3>. HIDE DEF S, T
    <3>. QED
      BY <3>1, FS_Product
  <2>. QED
    BY <2>1, <2>3, PartitionAssumption
<1>. QED
  BY <1>2, <1>3, <1>4

\* An ascending loop over a nonempty choice stops at its least member.
LEMMA LowestIn ==
    ASSUME NEW S, S \subseteq Sblks, S # {}
    PROVE  Lowest(S) \in S /\ \A c \in S : Lowest(S) <= c
<1>1. \E b \in S : \A c \in S : b <= c
  BY LeastNatural, SblksFacts
<1>. QED
  BY <1>1 DEF Lowest

\* dftl_get_active_sblk finds a usable superblock when there is one other
\* than the cursor, or two of them before the first call.
LEMMA NextActiveUsable ==
    ASSUME NEW wp, NEW rsv, NEW cursor \in Sblks \union {NoSblk},
           NEW b \in Sblks, Usable(wp, rsv, b), b # cursor,
           cursor = NoSblk => \E c \in Sblks : c # b /\ Usable(wp, rsv, c)
    PROVE  /\ NextActive(wp, rsv, cursor) \in Sblks
           /\ Usable(wp, rsv, NextActive(wp, rsv, cursor))
<1> DEFINE U == {c \in Sblks : Usable(wp, rsv, c)}
           start == StartOf(wp, rsv, cursor)
           after == {c \in Sblks : c > start /\ Usable(wp, rsv, c)}
           before == {c \in Sblks : c < start /\ Usable(wp, rsv, c)}
<1>1. start \in Sblks
  <2>1. CASE cursor = NoSblk
    <3>1. Lowest(U) \in U
      BY LowestIn
    <3>. QED
      BY <2>1, <3>1 DEF StartOf
  <2>2. CASE cursor # NoSblk
    BY <2>2 DEF StartOf
  <2>. QED
    BY <2>1, <2>2
<1>2. \E c \in U : c # start
  <2>1. CASE cursor = NoSblk
    BY <2>1
  <2>2. CASE cursor # NoSblk
    BY <2>2 DEF StartOf
  <2>. QED
    BY <2>1, <2>2
<1>3. after # {} \/ before # {}
  <2>1. PICK c \in U : c # start
    BY <1>2
  <2>2. c \in Int /\ start \in Int
    <3>1. \A x \in Sblks : x \in Int
      BY SblksFacts
    <3>2. c \in Sblks
      BY <2>1
    <3> HIDE DEF start
    <3>. QED
      BY <1>1, <3>1, <3>2
  <2>3. c > start \/ c < start
    BY <2>1, <2>2
  <2>. QED
    BY <2>1, <2>3
<1>4. after # {} => Lowest(after) \in after
  BY LowestIn
<1>5. before # {} => Lowest(before) \in before
  BY LowestIn
<1>6. NextActive(wp, rsv, cursor) =
        IF after # {} THEN Lowest(after) ELSE Lowest(before)
  BY DEF NextActive
<1>. QED
  BY <1>3, <1>4, <1>5, <1>6

\* dftl_get_gc_target returns a full superblock, not the reserve, that no
\* other one undercuts in valid pages.
LEMMA GcTargetLeast ==
    ASSUME NEW wp, NEW rsv, NEW cnt \in [Sblks -> Nat],
           Candidates(wp, rsv) # {}
    PROVE  LET v == GcTarget(wp, rsv, cnt)
           IN  /\ v \in Candidates(wp, rsv)
               /\ \A c \in Candidates(wp, rsv) : cnt[v] <= cnt[c]
<1> DEFINE C == Candidates(wp, rsv)
           Fewest == {b \in C : \A c \in C : cnt[b] <= cnt[c]}
           N == {cnt[b] : b \in C}
<1>1. C \subseteq Sblks
  BY DEF Candidates
<1>2. \E n \in N : \A m \in N : n <= m
  <2>1. N \subseteq Nat /\ N # {}
    BY <1>1
  <2>. QED
    BY <2>1, LeastNatural
<1>3. Fewest # {}
  BY <1>2
<1>4. Lowest(Fewest) \in Fewest
  BY <1>1, <1>3, LowestIn
<1>5. GcTarget(wp, rsv, cnt) = Lowest(Fewest)
  BY DEF GcTarget
<1>. QED
  BY <1>4, <1>5

\* With no full superblock besides the reserve there is no target.
LEMMA GcTargetNone ==
    ASSUME NEW wp, NEW rsv, NEW cnt, Candidates(wp, rsv) = {}
    PROVE  GcTarget(wp, rsv, cnt) = NoSblk
BY DEF GcTarget, Lowest

=============================================================================

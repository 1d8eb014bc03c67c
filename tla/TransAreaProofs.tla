-------------------------- MODULE TransAreaProofs --------------------------
(***************************************************************************)
(* Proofs about TransArea for every partition of at least three            *)
(* superblocks and every number of translation pages: IInv is inductive,   *)
(* GC never gives up when the partition is provisioned, and the mapping    *)
(* area implements TpageStore.                                             *)
(***************************************************************************)
EXTENDS TransArea, SuperblockProofs

\* The rank of a page among the valid pages of one superblock lies below
\* their number and tells them apart.
LEMMA RankFacts ==
    ASSUME NEW V, IsFiniteSet(V), V \subseteq Pages,
           \A p, q \in V : p[1] = q[1]
    PROVE  /\ \A p \in V : Rank(V, p) \in 0 .. Cardinality(V) - 1
           /\ \A p, q \in V : Rank(V, p) = Rank(V, q) => p = q
<1> DEFINE Below(p) == {q \in V : q[2] < p[2]}
<1>1. \A p \in V : p[2] \in Int /\ p = <<p[1], p[2]>>
  BY PartitionAssumption DEF Pages
<1>2. Cardinality(V) \in Nat
  BY FS_CardinalityType
<1>3. ASSUME NEW p \in V
      PROVE  /\ IsFiniteSet(Below(p))
             /\ Cardinality(Below(p)) \in Nat
             /\ Cardinality(Below(p)) < Cardinality(V)
  <2>1. Below(p) \in SUBSET V /\ Below(p) \in SUBSET (V \ {p})
    BY <1>1
  <2>2. IsFiniteSet(V \ {p}) /\ Cardinality(V \ {p}) = Cardinality(V) - 1
    BY FS_RemoveElement
  <2>3. IsFiniteSet(Below(p)) /\ Cardinality(Below(p)) <= Cardinality(V \ {p})
    BY <2>1, <2>2, FS_Subset
  <2>4. Cardinality(Below(p)) \in Nat
    BY <2>3, FS_CardinalityType
  <2>. QED
    BY <1>2, <2>2, <2>3, <2>4
<1>4. ASSUME NEW p \in V, NEW q \in V, p[2] < q[2]
      PROVE  Cardinality(Below(p)) < Cardinality(Below(q))
  <2>1. Below(p) \union {p} \in SUBSET Below(q)
    BY <1>1, <1>4
  <2>2. p \notin Below(p)
    BY <1>1
  <2>3. Cardinality(Below(p) \union {p}) = Cardinality(Below(p)) + 1
    BY <1>3, <2>2, FS_AddElement
  <2>4. Cardinality(Below(p) \union {p}) <= Cardinality(Below(q))
    BY <1>3, <2>1, FS_Subset
  <2>5. Cardinality(Below(p)) \in Nat /\ Cardinality(Below(q)) \in Nat
    BY <1>3
  <2> HIDE DEF Below
  <2>. QED
    BY <2>3, <2>4, <2>5
<1>5. \A p \in V : Rank(V, p) = Cardinality(Below(p))
  BY DEF Rank
<1>6. ASSUME NEW p \in V, NEW q \in V, Rank(V, p) = Rank(V, q)
      PROVE  p = q
  <2>1. ~ (p[2] < q[2]) /\ ~ (q[2] < p[2])
    <3>1. Cardinality(Below(p)) = Cardinality(Below(q))
      BY <1>5, <1>6
    <3>2. Cardinality(Below(p)) \in Nat /\ Cardinality(Below(q)) \in Nat
      BY <1>3
    <3>3. p[2] < q[2] => Cardinality(Below(p)) < Cardinality(Below(q))
      BY <1>4
    <3>4. q[2] < p[2] => Cardinality(Below(q)) < Cardinality(Below(p))
      BY <1>4
    <3> HIDE DEF Below
    <3>. QED
      BY <3>1, <3>2, <3>3, <3>4
  <2>2. p[2] = q[2]
    BY <1>1, <2>1
  <2>. QED
    BY <1>1, <2>2
<1>7. ASSUME NEW p \in V
      PROVE  Rank(V, p) \in 0 .. Cardinality(V) - 1
  <2>1. Rank(V, p) \in Nat /\ Rank(V, p) < Cardinality(V)
    BY <1>3, <1>5
  <2>. QED
    BY <1>2, <2>1
<1>. QED
  BY <1>6, <1>7

\* The number of valid pages of a superblock is a natural, at most PPS.
LEMMA InFacts ==
    ASSUME NEW V, V \subseteq Pages, NEW b \in Sblks
    PROVE  /\ IsFiniteSet(In(V, b))
           /\ Cardinality(In(V, b)) \in 0 .. PPS
<1>1. In(V, b) \in SUBSET PagesOf(b)
  BY DEF In, PagesOf
<1>2. IsFiniteSet(PagesOf(b)) /\ Cardinality(PagesOf(b)) = PPS
  BY PagesFacts
<1>3. IsFiniteSet(In(V, b)) /\ Cardinality(In(V, b)) <= PPS
  BY <1>1, <1>2, FS_Subset
<1>. QED
  BY <1>3, FS_CardinalityType, PartitionAssumption

\* What holds of write pointers, valid pages, counts, OOBs and page numbers
\* between operations, and between GC and the write that called it.
Sound(wp, V, cnt, oobs, tp) ==
    /\ wp \in [Sblks -> 0 .. PPS]
    /\ V \subseteq Pages
    /\ cnt \in [Sblks -> 0 .. PPS]
    /\ oobs \in [Pages -> TPages]
    /\ tp \in [TPages -> Pages \union {NoPage}]
    /\ Consistent(V, oobs, tp)
    /\ \A p \in V : Programmed(wp, p)
    /\ \A c \in Sblks : cnt[c] = Cardinality(In(V, c))

\* Writing a tpage without a copy into the next page of a superblock with
\* room keeps everything that holds of the pages, the OOBs and the counts.
LEMMA PlaceKeeps ==
    ASSUME NEW wp, NEW V, NEW cnt, NEW oobs, NEW tp,
           Sound(wp, V, cnt, oobs, tp),
           NEW d \in TPages, tp[d] = NoPage,
           NEW b \in Sblks, wp[b] < PPS,
           NEW err, ~err,
           PlaceTpage(d, b, wp, V, cnt, oobs, tp, wp, err)
    PROVE  /\ Sound(wp_offt', valid', valid_cnt', oob', t_ppa')
           /\ line_wp' = wp_offt'
           /\ nand_err' \in BOOLEAN /\ ~nand_err'
           /\ wp_offt' = [wp EXCEPT ![b] = @ + 1]
           /\ t_ppa' = [tp EXCEPT ![d] = <<b, wp[b]>>]
           /\ t_ppa'[d] # NoPage
<1>. /\ wp \in [Sblks -> 0 .. PPS] /\ V \subseteq Pages
     /\ cnt \in [Sblks -> 0 .. PPS] /\ oobs \in [Pages -> TPages]
     /\ tp \in [TPages -> Pages \union {NoPage}]
     /\ Consistent(V, oobs, tp)
     /\ \A p \in V : Programmed(wp, p)
     /\ \A c \in Sblks : cnt[c] = Cardinality(In(V, c))
  BY DEF Sound
<1> PICK p : p = <<b, wp[b]>>
  OBVIOUS
<1>0. /\ wp_offt' = [wp EXCEPT ![b] = @ + 1]
      /\ valid' = V \union {p}
      /\ valid_cnt' = [cnt EXCEPT ![b] = @ + 1]
      /\ oob' = [oobs EXCEPT ![p] = d]
      /\ t_ppa' = [tp EXCEPT ![d] = p]
      /\ line_wp' = Write(wp, b, p[2], 1)
      /\ nand_err' = (err \/ WriteFails(wp, b, p[2], 1))
  BY DEF PlaceTpage
<1> USE <1>0
<1>1. p \in Pages /\ p[1] = b /\ p[2] = wp[b]
  <2>1. wp[b] \in 0 .. PPS - 1
    BY PartitionAssumption
  <2>. QED
    BY <2>1 DEF Pages
<1>2. p \notin V
  BY <1>1, PartitionAssumption DEF Programmed
<1>3. wp_offt' \in [Sblks -> 0 .. PPS]
  BY PartitionAssumption
<1>4. valid' \subseteq Pages
  BY <1>1
<1>5. oob' \in [Pages -> TPages] /\ t_ppa' \in [TPages -> Pages \union {NoPage}]
  BY <1>1
<1>6. p # NoPage
  BY <1>1, PagesFacts
<1>7. Consistent(valid', oob', t_ppa')
  <2>1. ASSUME NEW e \in TPages, t_ppa'[e] # NoPage
        PROVE  t_ppa'[e] \in valid' /\ oob'[t_ppa'[e]] = e
    <3>1. CASE e = d
      BY <1>1, <3>1
    <3>2. CASE e # d
      <4>1. t_ppa'[e] = tp[e]
        BY <3>2
      <4>2. tp[e] \in V /\ oobs[tp[e]] = e
        BY <2>1, <4>1 DEF Consistent
      <4>. QED
        BY <1>2, <4>1, <4>2
    <3>. QED
      BY <3>1, <3>2
  <2>2. ASSUME NEW q \in valid'
        PROVE  t_ppa'[oob'[q]] = q
    <3>1. CASE q = p
      BY <1>1, <3>1
    <3>2. CASE q # p
      <4>1. q \in V /\ oob'[q] = oobs[q]
        BY <3>2
      <4>2. tp[oobs[q]] = q /\ q \in Pages /\ oobs[q] \in TPages
        BY <4>1 DEF Consistent
      <4>3. oobs[q] # d
        BY <4>2, PagesFacts
      <4>. QED
        BY <4>1, <4>2, <4>3
    <3>. QED
      BY <3>1, <3>2
  <2>. QED
    BY <2>1, <2>2 DEF Consistent
<1>8. \A q \in valid' : Programmed(wp_offt', q)
  <2>1. ASSUME NEW q \in valid' PROVE q[2] < wp_offt'[q[1]]
    <3>1. q[1] \in Sblks /\ q[2] \in Int /\ wp[q[1]] \in Int
      BY <1>4, PartitionAssumption DEF Pages
    <3>2. wp_offt'[q[1]] = IF q[1] = b THEN wp[b] + 1 ELSE wp[q[1]]
      BY <3>1
    <3>3. CASE q = p
      BY <1>1, <3>1, <3>2, <3>3
    <3>4. CASE q # p
      <4>1. q[2] < wp[q[1]]
        BY <3>4 DEF Programmed
      <4>. QED
        BY <3>1, <3>2, <4>1
    <3>. QED
      BY <3>3, <3>4
  <2>. QED
    BY <2>1 DEF Programmed
<1>9. ASSUME NEW c \in Sblks
      PROVE  valid_cnt'[c] = Cardinality(In(valid', c))
  <2>1. IsFiniteSet(In(V, c)) /\ Cardinality(In(V, c)) = cnt[c]
    BY InFacts
  <2>2. CASE c = b
    <3>1. In(valid', c) = In(V, c) \union {p} /\ p \notin In(V, c)
      BY <1>1, <1>2, <2>2 DEF In
    <3>2. Cardinality(In(V, c) \union {p}) = Cardinality(In(V, c)) + 1
      BY <2>1, <3>1, FS_AddElement
    <3>. QED
      BY <2>1, <2>2, <3>1, <3>2
  <2>3. CASE c # b
    <3>1. In(valid', c) = In(V, c)
      BY <1>1, <2>3 DEF In
    <3>. QED
      BY <2>1, <2>3, <3>1
  <2>. QED
    BY <2>2, <2>3
<1>10. valid_cnt' \in [Sblks -> 0 .. PPS]
  <2>1. \A c \in Sblks : valid_cnt'[c] \in 0 .. PPS
    BY <1>4, <1>9, InFacts
  <2>. QED
    BY <2>1
<1>11. line_wp' = wp_offt' /\ nand_err' \in BOOLEAN /\ ~nand_err'
  BY <1>1 DEF Write, WriteFails
<1>12. t_ppa'[d] # NoPage
  BY <1>6
<1>. QED
  BY <1>3, <1>4, <1>5, <1>7, <1>8, <1>9, <1>10, <1>11, <1>12 DEF Sound

\* GC of a full superblock with a page to reclaim moves every valid page to
\* the empty reserve, points its tpage to the copy and keeps the counts.
LEMMA GcKeeps ==
    ASSUME TypeOK, MappingConsistent, NandInStep, CountsExact,
           wp_offt[sblk_rsv] = 0,
           NEW v \in Sblks, v # sblk_rsv, wp_offt[v] = PPS, valid_cnt[v] < PPS,
           NEW V, V = In(valid, v)
    PROVE  /\ Sound(WpAfterGc(v, V), ValidAfterGc(V), CntAfterGc(v, V),
                    OobAfterGc(v, V), TppaAfterGc(V))
           /\ \A e \in TPages : TppaAfterGc(V)[e] = NoPage <=> t_ppa[e] = NoPage
           /\ WpAfterGc(v, V)[sblk_rsv] = Cardinality(V)
           /\ Cardinality(V) \in Nat /\ Cardinality(V) < PPS
           /\ WpAfterGc(v, V)[v] = 0
           /\ \A c \in Sblks :
                  c # sblk_rsv /\ c # v => WpAfterGc(v, V)[c] = wp_offt[c]
           /\ \A p \in V : Programmed(line_wp, p)
           /\ ~WriteFails(line_wp, sblk_rsv, wp_offt[sblk_rsv], Cardinality(V))
           /\ Trim(Write(line_wp, sblk_rsv, wp_offt[sblk_rsv], Cardinality(V)), v)
                = WpAfterGc(v, V)
<1> PICK r, k : r = sblk_rsv /\ k = Cardinality(V)
  OBVIOUS
<1> PICK oobs1, tp1 : oobs1 = OobAfterGc(v, V) /\ tp1 = TppaAfterGc(V)
  OBVIOUS
<1>0. PICK wp1, V1, cnt1 :
      /\ wp1 = WpAfterGc(v, V) /\ V1 = ValidAfterGc(V)
      /\ cnt1 = CntAfterGc(v, V)
  OBVIOUS
<1> wp1 = [wp_offt EXCEPT ![r] = @ + k, ![v] = 0]
  BY <1>0 DEF WpAfterGc
<1> V1 = (valid \ V) \union DestOf(V)
  BY <1>0 DEF ValidAfterGc
<1> cnt1 = [valid_cnt EXCEPT ![r] = @ + k, ![v] = 0]
  BY <1>0 DEF CntAfterGc
<1> wp_offt[r] = 0 /\ v # r
  OBVIOUS
<1>1. /\ r \in Sblks /\ v \in Sblks /\ r # v
      /\ wp_offt \in [Sblks -> 0 .. PPS] /\ valid \subseteq Pages
      /\ valid_cnt \in [Sblks -> 0 .. PPS] /\ oob \in [Pages -> TPages]
      /\ t_ppa \in [TPages -> Pages \union {NoPage}]
      /\ line_wp = wp_offt
  BY DEF TypeOK, NandInStep
<1>2. /\ IsFiniteSet(V) /\ V \subseteq valid /\ V \subseteq Pages
      /\ \A p \in V : p[1] = v
      /\ \A p \in valid \ V : p[1] # v
  BY <1>1, InFacts DEF In
<1>3. k \in Nat /\ k < PPS /\ k = valid_cnt[v]
  BY <1>1, InFacts DEF CountsExact
<1>4. ASSUME NEW p \in V
      PROVE  /\ Dest(V, p) = <<r, Rank(V, p)>>
             /\ Rank(V, p) \in 0 .. k - 1
             /\ Dest(V, p) \in Pages
             /\ Dest(V, p)[1] = r
             /\ Dest(V, p)[2] \in 0 .. k - 1
  <2>1. Rank(V, p) \in 0 .. k - 1
    BY <1>2, RankFacts
  <2>2. Rank(V, p) \in 0 .. PPS - 1 /\ 0 + Rank(V, p) = Rank(V, p)
    BY <1>3, <2>1, PartitionAssumption
  <2>3. Dest(V, p) = <<r, Rank(V, p)>>
    BY <2>2 DEF Dest
  <2>. QED
    BY <1>1, <2>1, <2>2, <2>3 DEF Pages
<1>5. ASSUME NEW p \in V, NEW q \in V, Dest(V, p) = Dest(V, q)
      PROVE  p = q
  <2>1. Rank(V, p) = Rank(V, q)
    BY <1>4, <1>5
  <2>. QED
    BY <1>2, <2>1, RankFacts
<1>6. ASSUME NEW p \in valid PROVE p[1] # r /\ p \notin DestOf(V)
  <2>1. p[2] < wp_offt[p[1]] /\ p[2] \in 0 .. PPS - 1
    BY <1>1 DEF NandInStep, Programmed, Pages
  <2>2. p[1] # r
    BY <1>1, <2>1
  <2>. QED
    BY <1>4, <2>2 DEF DestOf
<1>7. V1 \subseteq Pages
  BY <1>1, <1>4 DEF DestOf
<1>8. NoPage \notin Pages
  BY PagesFacts
<1>9. ASSUME NEW e \in TPages
      PROVE  tp1[e] = IF t_ppa[e] \in V THEN Dest(V, t_ppa[e]) ELSE t_ppa[e]
  <2> DEFINE Q == {q \in V : oob[q] = e}
  <2>1. tp1[e] = IF Q = {} THEN t_ppa[e]
                 ELSE Dest(V, CHOOSE q \in Q : \A x \in Q : x[2] <= q[2])
    BY DEF TppaAfterGc
  <2>2. \A q \in Q : q = t_ppa[e]
    BY <1>2 DEF MappingConsistent, Consistent
  <2>3. t_ppa[e] \in V => t_ppa[e] \in Q
    BY <1>2, <1>8 DEF MappingConsistent, Consistent
  <2>4. CASE t_ppa[e] \in V
    <3>1. Q = {t_ppa[e]}
      BY <2>2, <2>3, <2>4
    <3>2. t_ppa[e][2] \in Int
      BY <1>2, <2>4, PartitionAssumption DEF Pages
    <3>3. (CHOOSE q \in Q : \A x \in Q : x[2] <= q[2]) = t_ppa[e]
      BY <3>1, <3>2
    <3>. QED
      BY <2>1, <2>4, <3>1, <3>3
  <2>5. CASE t_ppa[e] \notin V
    <3>1. Q = {}
      BY <2>2, <2>5
    <3>. QED
      BY <2>1, <2>5, <3>1
  <2>. QED
    BY <2>4, <2>5
<1>10. ASSUME NEW p \in V PROVE oobs1[Dest(V, p)] = oob[p]
  <2>1. Dest(V, p) \in DestOf(V) /\ Dest(V, p) \in Pages
    BY <1>4 DEF DestOf
  <2>2. (CHOOSE q \in V : Dest(V, q) = Dest(V, p)) = p
    BY <1>5
  <2>. QED
    BY <2>1, <2>2 DEF OobAfterGc
<1>11. ASSUME NEW p \in valid \ V PROVE oobs1[p] = oob[p]
  <2>1. p \in Pages /\ p \notin DestOf(V) /\ p[1] # v
    BY <1>1, <1>2, <1>6
  <2>. QED
    BY <2>1 DEF OobAfterGc
<1>12. oobs1 \in [Pages -> TPages]
  <2>1. 0 \in TPages
    BY TransAssumption DEF TPages
  <2>2. ASSUME NEW p \in DestOf(V)
        PROVE  (CHOOSE q \in V : Dest(V, q) = p) \in V
    BY DEF DestOf
  <2>3. ASSUME NEW p \in Pages PROVE oobs1[p] \in TPages
    <3>1. CASE p \in DestOf(V)
      BY <1>1, <1>2, <2>2, <3>1 DEF OobAfterGc
    <3>2. CASE p \notin DestOf(V)
      BY <1>1, <2>1, <3>2 DEF OobAfterGc
    <3>. QED
      BY <3>1, <3>2
  <2>. QED
    BY <2>3 DEF OobAfterGc
<1>13. tp1 \in [TPages -> Pages \union {NoPage}]
  <2>1. \A e \in TPages : tp1[e] \in Pages \union {NoPage}
    BY <1>1, <1>4, <1>9
  <2>. QED
    BY <2>1 DEF TppaAfterGc
<1>14. \A e \in TPages : tp1[e] = NoPage <=> t_ppa[e] = NoPage
  BY <1>2, <1>4, <1>8, <1>9
<1>15. Consistent(V1, oobs1, tp1)
  <2>1. ASSUME NEW e \in TPages, tp1[e] # NoPage
        PROVE  tp1[e] \in V1 /\ oobs1[tp1[e]] = e
    <3>1. t_ppa[e] \in valid /\ oob[t_ppa[e]] = e
      BY <1>14, <2>1 DEF MappingConsistent, Consistent
    <3>2. CASE t_ppa[e] \in V
      BY <1>9, <1>10, <3>1, <3>2 DEF DestOf
    <3>3. CASE t_ppa[e] \notin V
      BY <1>9, <1>11, <3>1, <3>3
    <3>. QED
      BY <3>2, <3>3
  <2>2. ASSUME NEW p \in V1 PROVE tp1[oobs1[p]] = p
    <3>1. CASE p \in valid \ V
      <4>1. oob[p] \in TPages /\ t_ppa[oob[p]] = p
        BY <1>1, <3>1 DEF MappingConsistent, Consistent
      <4>. QED
        BY <1>9, <1>11, <3>1, <4>1
    <3>2. CASE p \in DestOf(V)
      <4>1. PICK q \in V : p = Dest(V, q)
        BY <3>2 DEF DestOf
      <4>2. oob[q] \in TPages /\ t_ppa[oob[q]] = q
        BY <1>1, <1>2 DEF MappingConsistent, Consistent
      <4>. QED
        BY <1>9, <1>10, <4>1, <4>2
    <3>. QED
      BY <3>1, <3>2
  <2>. QED
    BY <2>1, <2>2 DEF Consistent
<1>16. /\ wp1 \in [Sblks -> 0 .. PPS] /\ wp1[r] = k /\ wp1[v] = 0
       /\ \A c \in Sblks : c # r /\ c # v => wp1[c] = wp_offt[c]
  <2>1. wp_offt[r] + k = k /\ k \in 0 .. PPS
    BY <1>3, PartitionAssumption
  <2>. QED
    BY <1>1, <2>1
<1>17. \A p \in V1 : Programmed(wp1, p)
  <2>1. ASSUME NEW p \in valid \ V PROVE p[2] < wp1[p[1]]
    <3>1. p[1] # r /\ p[1] # v /\ p[1] \in Sblks
      BY <1>1, <1>2, <1>6 DEF Pages
    <3>. QED
      BY <1>1, <1>16, <3>1 DEF NandInStep, Programmed
  <2>2. ASSUME NEW p \in DestOf(V) PROVE p[2] < wp1[p[1]]
    <3>1. PICK q \in V : p = Dest(V, q)
      BY <2>2 DEF DestOf
    <3>. QED
      BY <1>3, <1>4, <1>16, <3>1
  <2>. QED
    BY <2>1, <2>2 DEF Programmed
<1>18. IsFiniteSet(DestOf(V)) /\ Cardinality(DestOf(V)) = k
  <2> DEFINE f == [p \in V |-> Dest(V, p)]
  <2>1. f \in [V -> DestOf(V)]
    BY DEF DestOf
  <2>2. \A p, q \in V : f[p] = f[q] => p = q
    BY <1>5
  <2>3. \A t \in DestOf(V) : \E p \in V : f[p] = t
    BY DEF DestOf
  <2>4. f \in Bijection(V, DestOf(V))
    BY <2>1, <2>2, <2>3, Fun_IsBij
  <2>5. ExistsBijection(V, DestOf(V))
    BY <2>4 DEF ExistsBijection
  <2>. QED
    BY <1>2, <2>5, FS_Bijection
<1>19. ASSUME NEW c \in Sblks
       PROVE  cnt1[c] = Cardinality(In(V1, c)) /\ cnt1[c] \in Nat
  <2>1. CASE c = v
    <3>1. In(V1, c) = {}
      BY <1>1, <1>2, <1>4, <2>1 DEF In, DestOf
    <3>. QED
      BY <1>1, <2>1, <3>1, FS_EmptySet
  <2>2. CASE c = r
    <3>1. In(valid, r) = {}
      BY <1>6 DEF In
    <3>2. valid_cnt[r] = 0
      BY <1>1, <3>1, FS_EmptySet DEF CountsExact
    <3>3. In(V1, c) = DestOf(V)
      BY <1>4, <1>6, <2>2 DEF In, DestOf
    <3>4. cnt1[c] = k
      BY <1>1, <1>3, <2>2, <3>2
    <3>. QED
      BY <1>3, <1>18, <3>3, <3>4
  <2>3. CASE c # v /\ c # r
    <3>1. In(V1, c) = In(valid, c)
      BY <1>2, <1>4, <2>3 DEF In, DestOf
    <3>. QED
      BY <1>1, <2>3, <3>1 DEF CountsExact
  <2>. QED
    BY <2>1, <2>2, <2>3
<1>20. cnt1 \in [Sblks -> 0 .. PPS]
  <2>1. DOMAIN cnt1 = Sblks /\ cnt1 = [c \in Sblks |-> cnt1[c]]
    BY <1>1
  <2>2. \A c \in Sblks : cnt1[c] \in 0 .. PPS
    BY <1>7, <1>19, InFacts
  <2>. QED
    BY <2>1, <2>2
<1>21. /\ \A p \in V : Programmed(line_wp, p)
       /\ ~WriteFails(line_wp, r, wp_offt[r], k)
       /\ Trim(Write(line_wp, r, wp_offt[r], k), v) = wp1
  BY <1>1, <1>2 DEF NandInStep, WriteFails, Write, Trim
<1>. QED
  <2>1. Sound(wp1, V1, cnt1, oobs1, tp1)
    BY <1>7, <1>12, <1>13, <1>15, <1>16, <1>17, <1>19, <1>20 DEF Sound
  <2>. QED
    BY <1>0, <1>3, <1>14, <1>16, <1>21, <2>1

-----------------------------------------------------------------------------
\* When GC is due, every superblock but the reserve is full, so the victim is
\* a least-valid one among all of them.
LEMMA VictimFacts ==
    ASSUME IInv, NeedSblk, GcNeeded(free_sblk_cnt),
           NEW v, v = GcTarget(wp_offt, sblk_rsv, valid_cnt)
    PROVE  /\ v \in Sblks /\ v # sblk_rsv /\ wp_offt[v] = PPS
           /\ \A b \in Sblks \ {sblk_rsv} :
                  wp_offt[b] = PPS /\ valid_cnt[v] <= valid_cnt[b]
           /\ {b \in Sblks : wp_offt[b] = 0} = {sblk_rsv}
           /\ free_sblk_cnt = 1
           /\ t_active \in Sblks /\ t_active # sblk_rsv
<1> DEFINE Empty == {b \in Sblks : wp_offt[b] = 0}
<1>1. /\ sblk_rsv \in Sblks /\ wp_offt \in [Sblks -> 0 .. PPS]
      /\ valid_cnt \in [Sblks -> 0 .. PPS] /\ wp_offt[sblk_rsv] = 0
      /\ free_sblk_cnt = Cardinality(Empty) /\ free_sblk_cnt \in Int
      /\ t_active \in Sblks \union {NoSblk} /\ t_active # sblk_rsv
  BY DEF IInv, TypeOK, ReserveReady, FreeExact
<1>2. free_sblk_cnt = 1
  BY <1>1 DEF IInv, FreeExact, GcNeeded
<1>3. IsFiniteSet(Empty)
  BY SblksFacts, FS_Subset
<1>4. Empty = {sblk_rsv}
  <2>1. PICK x : Empty = {x}
    BY <1>1, <1>2, <1>3, FS_Singleton
  <2>2. sblk_rsv \in Empty
    BY <1>1
  <2>. QED
    BY <2>1, <2>2
<1>5. \E b \in Sblks : b # sblk_rsv
  <2>1. s_sblk \in Sblks /\ e_sblk \in Sblks /\ s_sblk # e_sblk
    BY PartitionAssumption DEF Sblks
  <2>. QED
    BY <2>1
<1>6. t_active # NoSblk
  BY <1>4, <1>5 DEF IInv, CursorSound
<1>7. Full(wp_offt, t_active)
  BY <1>6 DEF NeedSblk
<1>8. ASSUME NEW b \in Sblks \ {sblk_rsv} PROVE wp_offt[b] = PPS
  <2>1. wp_offt[b] # 0
    BY <1>4
  <2>2. CASE b = t_active
    <3>1. wp_offt[b] >= PPS /\ wp_offt[b] \in 0 .. PPS
      BY <1>1, <1>7, <2>2 DEF Full
    <3>. QED
      BY <3>1, PartitionAssumption
  <2>3. CASE b # t_active
    BY <2>1, <2>3 DEF IInv, CursorSound
  <2>. QED
    BY <2>2, <2>3
<1>9. Candidates(wp_offt, sblk_rsv) = Sblks \ {sblk_rsv}
  <2>1. ASSUME NEW b \in Sblks \ {sblk_rsv} PROVE Full(wp_offt, b)
    BY <1>8, PartitionAssumption DEF Full
  <2>. QED
    BY <2>1 DEF Candidates
<1>10. /\ v \in Candidates(wp_offt, sblk_rsv)
       /\ \A c \in Candidates(wp_offt, sblk_rsv) : valid_cnt[v] <= valid_cnt[c]
  <2>1. valid_cnt \in [Sblks -> Nat]
    BY <1>1, PartitionAssumption
  <2>2. Candidates(wp_offt, sblk_rsv) # {}
    BY <1>5, <1>9
  <2>. QED
    BY <2>1, <2>2, GcTargetLeast
<1>. QED
  BY <1>1, <1>2, <1>4, <1>6, <1>8, <1>9, <1>10

\* A superblock is found, and an empty one, whenever the counter says so.
LEMMA NextFacts ==
    ASSUME IInv, NeedSblk, ~GcNeeded(free_sblk_cnt),
           NEW b, b = NextActive(wp_offt, sblk_rsv, active_sblk)
    PROVE  b \in Sblks /\ b # sblk_rsv /\ b # t_active /\ wp_offt[b] = 0
<1> DEFINE Empty == {c \in Sblks : wp_offt[c] = 0}
<1>1. /\ sblk_rsv \in Sblks /\ wp_offt \in [Sblks -> 0 .. PPS]
      /\ wp_offt[sblk_rsv] = 0
      /\ free_sblk_cnt = Cardinality(Empty) /\ free_sblk_cnt > 1
      /\ active_sblk = t_active
      /\ t_active \in Sblks \union {NoSblk} /\ t_active # sblk_rsv
  BY DEF IInv, TypeOK, ReserveReady, FreeExact, CursorSound, GcNeeded
<1>2. ASSUME NEW c \in Sblks, c # sblk_rsv
      PROVE  Usable(wp_offt, sblk_rsv, c) <=> wp_offt[c] < PPS
  BY <1>1, <1>2, PartitionAssumption DEF Usable, Full
<1>3. PICK c \in Sblks : c # sblk_rsv /\ wp_offt[c] = 0
  <2>1. Empty # {sblk_rsv}
    <3>1. Cardinality({sblk_rsv}) = 1
      BY FS_Singleton
    <3>2. Cardinality(Empty) # 1
      BY <1>1
    <3>. QED
      BY <3>1, <3>2
  <2>2. sblk_rsv \in Empty
    BY <1>1
  <2>. QED
    BY <2>1, <2>2
<1>4. Usable(wp_offt, sblk_rsv, c)
  BY <1>2, <1>3, PartitionAssumption
<1>5. c # t_active
  <2>1. t_active # NoSblk => wp_offt[t_active] > 0
    BY DEF IInv, CursorSound
  <2>. QED
    BY <1>3, <2>1, SblksFacts
<1>6. ASSUME active_sblk = NoSblk
      PROVE  \E x \in Sblks : x # c /\ Usable(wp_offt, sblk_rsv, x)
  <2>1. \A x \in Sblks : wp_offt[x] = 0
    BY <1>1, <1>6 DEF IInv, CursorSound
  <2>2. PICK x \in Sblks : x # c /\ x # sblk_rsv
    <3>1. /\ s_sblk \in Sblks /\ s_sblk + 1 \in Sblks /\ e_sblk \in Sblks
          /\ s_sblk # s_sblk + 1 /\ s_sblk + 1 # e_sblk /\ s_sblk # e_sblk
      BY PartitionAssumption DEF Sblks
    <3>. QED
      BY <3>1
  <2>. QED
    BY <1>2, <2>1, <2>2, PartitionAssumption
<1>7. b \in Sblks /\ Usable(wp_offt, sblk_rsv, b)
  <2>1. active_sblk \in Sblks \union {NoSblk}
    BY <1>1
  <2>2. c # active_sblk
    BY <1>1, <1>5
  <2>. QED
    BY <1>3, <1>4, <1>6, <2>1, <2>2, NextActiveUsable
<1>8. b # sblk_rsv /\ wp_offt[b] < PPS
  <2>1. b # sblk_rsv
    BY <1>7 DEF Usable
  <2>. QED
    BY <1>2, <1>7, <2>1
<1>9. b # t_active
  <2>1. CASE t_active = NoSblk
    BY <1>7, <2>1, SblksFacts
  <2>2. CASE t_active # NoSblk
    <3>1. wp_offt[t_active] >= PPS
      BY <2>2 DEF NeedSblk, Full
    <3>2. t_active \in Sblks /\ wp_offt[t_active] \in Int /\ wp_offt[b] \in Int
      BY <1>1, <1>7, <2>2, PartitionAssumption
    <3>. QED
      BY <1>8, <3>1, <3>2, PartitionAssumption
  <2>. QED
    BY <2>1, <2>2
<1>10. wp_offt[b] \in {0, PPS}
  BY <1>7, <1>9 DEF IInv, CursorSound
<1>. QED
  BY <1>7, <1>8, <1>9, <1>10, PartitionAssumption

-----------------------------------------------------------------------------
\* The partition as dftl_page_init and the block manager leave it is sound.
LEMMA InitSound == Init => IInv
<1> SUFFICES ASSUME Init PROVE IInv
  OBVIOUS
<1>1. s_sblk \in Sblks /\ 0 \in TPages /\ 0 \in 0 .. PPS
  BY PartitionAssumption, TransAssumption DEF Sblks, TPages
<1>2. e_sblk - s_sblk + 1 \in 0 .. e_sblk - s_sblk + 1
  BY PartitionAssumption
<1>3. TypeOK
  BY <1>1, <1>2 DEF Init, TypeOK
<1>4. MappingConsistent /\ NandInStep /\ CursorSound
  <2>1. MappingConsistent
    BY DEF Init, MappingConsistent, Consistent
  <2>2. NandInStep
    BY DEF Init, NandInStep
  <2>3. ~GcNeeded(free_sblk_cnt)
    BY PartitionAssumption DEF Init, GcNeeded
  <2>4. CursorSound
    BY <2>3 DEF Init, CursorSound
  <2>. QED
    BY <2>1, <2>2, <2>4
<1>5. CountsExact
  <2>1. \A b \in Sblks : In(valid, b) = {}
    BY DEF Init, In
  <2>. QED
    BY <2>1, FS_EmptySet DEF Init, CountsExact
<1>6. ReserveReady
  BY <1>1, SblksFacts DEF Init, ReserveReady
<1>7. FreeExact
  <2>1. {b \in Sblks : wp_offt[b] = 0} = Sblks
    BY DEF Init
  <2>2. free_sblk_cnt = Cardinality(Sblks) /\ free_sblk_cnt >= 1
    BY SblksFacts, PartitionAssumption DEF Init
  <2>. QED
    BY <2>1, <2>2 DEF FreeExact
<1>. QED
  BY <1>3, <1>4, <1>5, <1>6, <1>7 DEF IInv

\* A write into the superblock being filled keeps everything.
LEMMA InActiveKeeps ==
    ASSUME IInv, NEW d \in TPages, WriteInActive(d)
    PROVE  IInv' /\ t_ppa' = [t_ppa EXCEPT ![d] = <<t_active, wp_offt[t_active]>>]
                 /\ t_ppa'[d] # NoPage
<1> DEFINE p == <<t_active, wp_offt[t_active]>>
<1>1. t_active \in Sblks /\ wp_offt[t_active] < PPS
  <2>1. t_active # NoSblk /\ ~Full(wp_offt, t_active)
    BY DEF WriteInActive, NeedSblk
  <2>2. t_active \in Sblks /\ wp_offt[t_active] \in 0 .. PPS
    BY <2>1 DEF IInv, TypeOK
  <2>. QED
    BY <2>1, <2>2, PartitionAssumption DEF Full
<1>2. PlaceTpage(d, t_active, wp_offt, valid, valid_cnt, oob, t_ppa, line_wp,
                 nand_err)
  BY DEF WriteInActive
<1>3. /\ Sound(wp_offt, valid, valid_cnt, oob, t_ppa)
      /\ line_wp = wp_offt /\ ~nand_err /\ t_ppa[d] = NoPage
      /\ wp_offt \in [Sblks -> 0 .. PPS]
  BY DEF IInv, TypeOK, MappingConsistent, NandInStep, CountsExact, Sound,
         WriteInActive
<1>4. /\ Sound(wp_offt', valid', valid_cnt', oob', t_ppa')
      /\ line_wp' = wp_offt'
      /\ nand_err' \in BOOLEAN /\ ~nand_err'
      /\ wp_offt' = [wp_offt EXCEPT ![t_active] = @ + 1]
      /\ t_ppa' = [t_ppa EXCEPT ![d] = p]
      /\ t_ppa'[d] # NoPage
  BY <1>1, <1>2, <1>3, PlaceKeeps
<1>5. /\ wp_offt' \in [Sblks -> 0 .. PPS] /\ valid' \subseteq Pages
      /\ valid_cnt' \in [Sblks -> 0 .. PPS] /\ oob' \in [Pages -> TPages]
      /\ t_ppa' \in [TPages -> Pages \union {NoPage}]
      /\ Consistent(valid', oob', t_ppa')
      /\ \A q \in valid' : Programmed(wp_offt', q)
      /\ \A c \in Sblks : valid_cnt'[c] = Cardinality(In(valid', c))
  BY <1>4 DEF Sound
<1>7. UNCHANGED <<sblk_rsv, active_sblk, free_sblk_cnt, t_active, aborted>>
  BY DEF WriteInActive
<1>8. TypeOK'
  BY <1>4, <1>5, <1>7 DEF IInv, TypeOK
<1>9. MappingConsistent' /\ NandInStep' /\ CountsExact'
  BY <1>4, <1>5 DEF MappingConsistent, NandInStep, CountsExact
<1>10. t_active # sblk_rsv /\ wp_offt[sblk_rsv] = 0 /\ wp_offt[t_active] > 0
  BY <1>1, SblksFacts DEF IInv, ReserveReady, CursorSound
<1>11. /\ \A c \in Sblks : c # t_active => wp_offt'[c] = wp_offt[c]
       /\ wp_offt'[t_active] = wp_offt[t_active] + 1
       /\ wp_offt'[t_active] > 0
  BY <1>1, <1>3, <1>4, <1>10, PartitionAssumption
<1>12. ReserveReady'
  BY <1>7, <1>10, <1>11 DEF IInv, TypeOK, ReserveReady
<1>13. FreeExact'
  <2>1. {b \in Sblks : wp_offt'[b] = 0} = {b \in Sblks : wp_offt[b] = 0}
    BY <1>10, <1>11
  <2>. QED
    BY <1>7, <2>1 DEF IInv, FreeExact
<1>14. CursorSound'
  BY <1>1, <1>7, <1>11, SblksFacts DEF IInv, CursorSound
<1>. QED
  BY <1>4, <1>8, <1>9, <1>12, <1>13, <1>14 DEF IInv

\* A write that opens the next free superblock keeps everything.
LEMMA InNextKeeps ==
    ASSUME IInv, NEW d \in TPages, WriteInNext(d)
    PROVE  IInv' /\ \E p : t_ppa' = [t_ppa EXCEPT ![d] = p] /\ p # NoPage
<1> DEFINE b == NextActive(wp_offt, sblk_rsv, active_sblk)
           p == <<b, wp_offt[b]>>
<1>1. /\ b \in Sblks /\ b # sblk_rsv /\ b # t_active /\ wp_offt[b] = 0
      /\ wp_offt[b] < PPS
  BY NextFacts, PartitionAssumption DEF WriteInNext
<1>2. /\ active_sblk' = b /\ t_active' = b
      /\ free_sblk_cnt' = free_sblk_cnt - 1
      /\ PlaceTpage(d, b, wp_offt, valid, valid_cnt, oob, t_ppa, line_wp,
                    nand_err)
      /\ UNCHANGED <<sblk_rsv, aborted>>
      /\ NeedSblk /\ ~GcNeeded(free_sblk_cnt)
  BY <1>1 DEF WriteInNext
<1> HIDE DEF b
<1>3. /\ Sound(wp_offt, valid, valid_cnt, oob, t_ppa)
      /\ line_wp = wp_offt /\ ~nand_err /\ t_ppa[d] = NoPage
      /\ wp_offt \in [Sblks -> 0 .. PPS]
  BY DEF IInv, TypeOK, MappingConsistent, NandInStep, CountsExact, Sound,
         WriteInNext
<1>4. /\ Sound(wp_offt', valid', valid_cnt', oob', t_ppa')
      /\ line_wp' = wp_offt'
      /\ nand_err' \in BOOLEAN /\ ~nand_err'
      /\ wp_offt' = [wp_offt EXCEPT ![b] = @ + 1]
      /\ t_ppa' = [t_ppa EXCEPT ![d] = p]
      /\ t_ppa'[d] # NoPage
  BY <1>1, <1>2, <1>3, PlaceKeeps
<1>5. /\ wp_offt' \in [Sblks -> 0 .. PPS] /\ valid' \subseteq Pages
      /\ valid_cnt' \in [Sblks -> 0 .. PPS] /\ oob' \in [Pages -> TPages]
      /\ t_ppa' \in [TPages -> Pages \union {NoPage}]
      /\ Consistent(valid', oob', t_ppa')
      /\ \A q \in valid' : Programmed(wp_offt', q)
      /\ \A c \in Sblks : valid_cnt'[c] = Cardinality(In(valid', c))
  BY <1>4 DEF Sound
<1>7. /\ free_sblk_cnt \in 0 .. e_sblk - s_sblk + 1 /\ free_sblk_cnt > 1
      /\ free_sblk_cnt' \in 0 .. e_sblk - s_sblk + 1 /\ free_sblk_cnt' >= 1
  BY <1>2, PartitionAssumption DEF IInv, TypeOK, GcNeeded
<1>8. TypeOK'
  BY <1>1, <1>2, <1>4, <1>5, <1>7 DEF IInv, TypeOK
<1>9. MappingConsistent' /\ NandInStep' /\ CountsExact'
  BY <1>4, <1>5 DEF MappingConsistent, NandInStep, CountsExact
<1>10. /\ \A c \in Sblks : c # b => wp_offt'[c] = wp_offt[c]
       /\ wp_offt'[b] = 1
  BY <1>1, <1>3, <1>4
<1>11. ReserveReady'
  BY <1>1, <1>2, <1>10 DEF IInv, TypeOK, ReserveReady
<1>12. FreeExact'
  <2> DEFINE Empty == {c \in Sblks : wp_offt[c] = 0}
  <2>1. {c \in Sblks : wp_offt'[c] = 0} = Empty \ {b}
    BY <1>1, <1>10
  <2>2. IsFiniteSet(Empty) /\ b \in Empty
    BY <1>1, SblksFacts, FS_Subset
  <2>3. Cardinality(Empty \ {b}) = Cardinality(Empty) - 1
    BY <2>2, FS_RemoveElement
  <2>4. free_sblk_cnt = Cardinality(Empty)
    BY DEF IInv, FreeExact
  <2>. QED
    BY <1>2, <1>7, <2>1, <2>3, <2>4 DEF FreeExact
<1>13. CursorSound'
  <2>1. ASSUME NEW c \in Sblks, c # b PROVE wp_offt[c] \in {0, PPS}
    <3>1. CASE c = t_active
      <4>1. wp_offt[c] >= PPS /\ wp_offt[c] \in 0 .. PPS
        BY <1>2, <1>3, <3>1, SblksFacts DEF NeedSblk, Full
      <4>. QED
        BY <4>1, PartitionAssumption
    <3>2. CASE c # t_active
      BY <3>2 DEF IInv, CursorSound
    <3>. QED
      BY <3>1, <3>2
  <2>. QED
    BY <1>1, <1>2, <1>10, <2>1, SblksFacts DEF CursorSound
<1>. QED
  BY <1>4, <1>8, <1>9, <1>11, <1>12, <1>13 DEF IInv

\* A write that calls GC keeps everything: the valid pages move to the
\* reserve, and the page after them takes the new one.
LEMMA AfterGcKeeps ==
    ASSUME IInv, NEW d \in TPages, WriteAfterGc(d)
    PROVE  IInv' /\ \E tp, p : /\ t_ppa' = [tp EXCEPT ![d] = p] /\ p # NoPage
                               /\ tp \in [TPages -> Pages \union {NoPage}]
                               /\ \A e \in TPages :
                                     tp[e] = NoPage <=> t_ppa[e] = NoPage
<1> PICK v, V, r :
      /\ v = GcTarget(wp_offt, sblk_rsv, valid_cnt)
      /\ V = In(valid, v)
      /\ r = sblk_rsv
  OBVIOUS
<1> DEFINE err == \/ nand_err \/ ~(\A p \in V : Programmed(line_wp, p))
                  \/ WriteFails(line_wp, r, wp_offt[r], Cardinality(V))
           lw == Trim(Write(line_wp, r, wp_offt[r], Cardinality(V)), v)
           wp == WpAfterGc(v, V)
           tp == TppaAfterGc(V)
<1>1. /\ NeedSblk /\ GcNeeded(free_sblk_cnt)
      /\ Reclaimable(wp_offt, valid_cnt, v, 1)
      /\ PlaceTpage(d, r, wp, ValidAfterGc(V), CntAfterGc(v, V),
                    OobAfterGc(v, V), tp, lw, err)
      /\ t_active' = r /\ sblk_rsv' = v
      /\ UNCHANGED <<active_sblk, free_sblk_cnt, aborted>>
  BY DEF WriteAfterGc
<1>2. /\ v \in Sblks /\ v # r /\ wp_offt[v] = PPS
      /\ \A b \in Sblks \ {r} : wp_offt[b] = PPS
      /\ {b \in Sblks : wp_offt[b] = 0} = {r}
      /\ free_sblk_cnt = 1
  BY <1>1, VictimFacts
<1>3. r \in Sblks /\ wp_offt[r] = 0
  BY DEF IInv, TypeOK, ReserveReady
<1>4. valid_cnt[v] < PPS
  <2>1. valid_cnt[v] < wp_offt[v] * 1
    BY <1>1 DEF Reclaimable
  <2>. QED
    BY <1>2, <2>1, PartitionAssumption
<1>5. TypeOK /\ MappingConsistent /\ NandInStep /\ CountsExact
  BY DEF IInv
<1>6. /\ Sound(wp, ValidAfterGc(V), CntAfterGc(v, V), OobAfterGc(v, V), tp)
      /\ \A e \in TPages : tp[e] = NoPage <=> t_ppa[e] = NoPage
      /\ wp[r] = Cardinality(V)
      /\ Cardinality(V) \in Nat /\ Cardinality(V) < PPS
      /\ wp[v] = 0
      /\ \A c \in Sblks : c # r /\ c # v => wp[c] = wp_offt[c]
      /\ \A p \in V : Programmed(line_wp, p)
      /\ ~WriteFails(line_wp, r, wp_offt[r], Cardinality(V))
      /\ lw = wp
  BY <1>2, <1>3, <1>4, <1>5, GcKeeps
<1>7. ~err
  BY <1>5, <1>6 DEF NandInStep
<1>8. tp[d] = NoPage
  BY <1>6 DEF WriteAfterGc
<1>9. PlaceTpage(d, r, wp, ValidAfterGc(V), CntAfterGc(v, V),
                 OobAfterGc(v, V), tp, wp, err)
  BY <1>1, <1>6
<1> HIDE DEF err, lw, wp, tp
<1>10. /\ Sound(wp_offt', valid', valid_cnt', oob', t_ppa')
       /\ line_wp' = wp_offt'
       /\ nand_err' \in BOOLEAN /\ ~nand_err'
       /\ wp_offt' = [wp EXCEPT ![r] = @ + 1]
       /\ t_ppa' = [tp EXCEPT ![d] = <<r, wp[r]>>]
       /\ t_ppa'[d] # NoPage
  BY <1>3, <1>6, <1>7, <1>8, <1>9, PlaceKeeps
<1>11. /\ wp \in [Sblks -> 0 .. PPS]
       /\ tp \in [TPages -> Pages \union {NoPage}]
  BY <1>6 DEF Sound
<1>12. /\ wp_offt'[r] > 0 /\ wp_offt'[v] = 0
       /\ \A c \in Sblks : c # r /\ c # v => wp_offt'[c] = PPS
  BY <1>2, <1>3, <1>6, <1>10, <1>11
<1>13. /\ wp_offt' \in [Sblks -> 0 .. PPS] /\ valid' \subseteq Pages
       /\ valid_cnt' \in [Sblks -> 0 .. PPS] /\ oob' \in [Pages -> TPages]
       /\ t_ppa' \in [TPages -> Pages \union {NoPage}]
       /\ Consistent(valid', oob', t_ppa')
       /\ \A q \in valid' : Programmed(wp_offt', q)
       /\ \A c \in Sblks : valid_cnt'[c] = Cardinality(In(valid', c))
  BY <1>10 DEF Sound
<1>14. TypeOK'
  BY <1>1, <1>2, <1>3, <1>10, <1>13 DEF IInv, TypeOK
<1>15. MappingConsistent' /\ NandInStep' /\ CountsExact'
  BY <1>10, <1>13 DEF MappingConsistent, NandInStep, CountsExact
<1>16. ReserveReady'
  BY <1>1, <1>2, <1>12 DEF ReserveReady
<1>17. FreeExact'
  <2>1. {b \in Sblks : wp_offt'[b] = 0} = {v}
    BY <1>2, <1>3, <1>12, PartitionAssumption
  <2>2. Cardinality({v}) = 1
    BY FS_Singleton
  <2>. QED
    BY <1>1, <1>2, <2>1, <2>2 DEF FreeExact
<1>18. CursorSound'
  BY <1>1, <1>2, <1>3, <1>12, SblksFacts DEF CursorSound, GcNeeded
<1>19. <<r, wp[r]>> # NoPage
  BY <1>3, SblksFacts DEF NoPage
<1>. QED
  BY <1>6, <1>10, <1>11, <1>14, <1>15, <1>16, <1>17, <1>18, <1>19 DEF IInv

\* Dropping a page clears its bit and takes one off its superblock's count.
LEMMA DropKeeps ==
    ASSUME IInv, NEW d \in TPages, DropTpage(d)
    PROVE  IInv'
<1> DEFINE p == t_ppa[d]
<1>1. /\ p \in valid /\ p \in Pages /\ p[1] \in Sblks
      /\ oob[p] = d
      /\ t_ppa' = [t_ppa EXCEPT ![d] = NoPage]
      /\ valid' = valid \ {p}
      /\ valid_cnt' = [valid_cnt EXCEPT ![p[1]] = @ - 1]
      /\ UNCHANGED <<wp_offt, oob, sblk_rsv, active_sblk, free_sblk_cnt,
                     t_active, line_wp, nand_err, aborted>>
  BY DEF IInv, TypeOK, MappingConsistent, Consistent, DropTpage, Pages
<1>2. ASSUME NEW c \in Sblks
      PROVE  valid_cnt'[c] = Cardinality(In(valid', c))
  <2>1. /\ IsFiniteSet(In(valid, c)) /\ valid_cnt[c] = Cardinality(In(valid, c))
        /\ valid_cnt \in [Sblks -> 0 .. PPS]
    BY InFacts DEF IInv, TypeOK, CountsExact
  <2>2. CASE c = p[1]
    <3>1. In(valid', c) = In(valid, c) \ {p} /\ p \in In(valid, c)
      BY <1>1, <2>2 DEF In
    <3>2. Cardinality(In(valid, c) \ {p}) = Cardinality(In(valid, c)) - 1
      BY <2>1, <3>1, FS_RemoveElement
    <3>. QED
      BY <1>1, <2>1, <2>2, <3>1, <3>2
  <2>3. CASE c # p[1]
    <3>1. In(valid', c) = In(valid, c)
      BY <1>1, <2>3 DEF In
    <3>. QED
      BY <1>1, <2>1, <2>3, <3>1
  <2>. QED
    BY <2>2, <2>3
<1>3. valid' \subseteq Pages
  BY <1>1 DEF IInv, TypeOK
<1>4. valid_cnt' \in [Sblks -> 0 .. PPS]
  <2>1. \A c \in Sblks : valid_cnt'[c] \in 0 .. PPS
    BY <1>2, <1>3, InFacts
  <2>2. valid_cnt' = [c \in Sblks |-> valid_cnt'[c]]
    BY <1>1 DEF IInv, TypeOK
  <2>. QED
    BY <2>1, <2>2
<1>5. TypeOK'
  BY <1>1, <1>3, <1>4 DEF IInv, TypeOK
<1>6. MappingConsistent'
  <2>1. ASSUME NEW e \in TPages, t_ppa'[e] # NoPage
        PROVE  t_ppa'[e] \in valid' /\ oob'[t_ppa'[e]] = e
    <3>1. e # d /\ t_ppa'[e] = t_ppa[e]
      BY <1>1, <2>1 DEF IInv, TypeOK
    <3>2. t_ppa[e] \in valid /\ oob[t_ppa[e]] = e
      BY <2>1, <3>1 DEF IInv, MappingConsistent, Consistent
    <3>. QED
      BY <1>1, <3>1, <3>2
  <2>2. ASSUME NEW q \in valid' PROVE t_ppa'[oob'[q]] = q
    <3>1. q \in valid /\ q # p /\ oob[q] \in TPages /\ t_ppa[oob[q]] = q
      BY <1>1 DEF IInv, TypeOK, MappingConsistent, Consistent
    <3>. QED
      BY <1>1, <3>1 DEF IInv, TypeOK
  <2>. QED
    BY <2>1, <2>2 DEF MappingConsistent, Consistent
<1>7. NandInStep'
  BY <1>1 DEF IInv, NandInStep, Programmed
<1>8. CountsExact'
  BY <1>2 DEF CountsExact
<1>9. ReserveReady' /\ FreeExact' /\ CursorSound'
  BY <1>1 DEF IInv, ReserveReady, FreeExact, CursorSound, Full
<1>. QED
  BY <1>5, <1>6, <1>7, <1>8, <1>9 DEF IInv

\* Every step keeps the invariant.
LEMMA StepKeeps == IInv /\ [Next]_vars => IInv'
<1> SUFFICES ASSUME IInv, [Next]_vars PROVE IInv'
  OBVIOUS
<1>1. ASSUME NEW d \in TPages, WriteInActive(d) PROVE IInv'
  BY <1>1, InActiveKeeps
<1>2. ASSUME NEW d \in TPages, WriteInNext(d) PROVE IInv'
  BY <1>2, InNextKeeps
<1>3. ASSUME NEW d \in TPages, WriteAfterGc(d) PROVE IInv'
  BY <1>3, AfterGcKeeps
<1>4. ASSUME NEW d \in TPages, WriteAborts(d) PROVE IInv'
  BY <1>4 DEF WriteAborts, IInv, TypeOK, MappingConsistent, NandInStep,
              Programmed, CountsExact, ReserveReady, FreeExact, CursorSound
<1>5. ASSUME NEW d \in TPages, DropTpage(d) PROVE IInv'
  BY <1>5, DropKeeps
<1>6. CASE UNCHANGED vars
  BY <1>6 DEF vars, IInv, TypeOK, MappingConsistent, NandInStep,
              Programmed, CountsExact, ReserveReady, FreeExact, CursorSound
<1>. QED
  BY <1>1, <1>2, <1>3, <1>4, <1>5, <1>6 DEF Next

\* The inductive invariant holds in every reachable state: the mapping, the
\* OOBs, the bitmap, the counters and the NAND agree through every GC.
THEOREM Invariance == Spec => []IInv
BY InitSound, StepKeeps, PTL DEF Spec

\* The variables keep their types; wp_offt never passes the superblock's end.
THEOREM TypeCorrect == Spec => []TypeOK
<1>1. IInv => TypeOK
  BY DEF IInv
<1>. QED
  BY <1>1, Invariance, PTL

\* Every page GC meets names the tpage that points to it, and conversely.
THEOREM MappingCorrect == Spec => []MappingConsistent
<1>1. IInv => MappingConsistent
  BY DEF IInv
<1>. QED
  BY <1>1, Invariance, PTL

\* Every page that can be read was programmed, and no NAND command fails.
THEOREM NandCorrect == Spec => []NandInStep
<1>1. IInv => NandInStep
  BY DEF IInv
<1>. QED
  BY <1>1, Invariance, PTL

\* The valid counters are exact, so greedy selection sees the truth.
THEOREM CountsCorrect == Spec => []CountsExact
<1>1. IInv => CountsExact
  BY DEF IInv
<1>. QED
  BY <1>1, Invariance, PTL

\* The reserve is empty whenever GC fills it: the assertion of
\* dftl_get_active_sblk holds.
THEOREM ReserveCorrect == Spec => []ReserveReady
<1>1. IInv => ReserveReady
  BY DEF IInv
<1>. QED
  BY <1>1, Invariance, PTL

\* The search for a superblock finds an empty one whenever it is made.
THEOREM SearchCorrect == Spec => []SearchFinds
<1>1. IInv => SearchFinds
  <2>1. ASSUME IInv, NeedSblk, ~GcNeeded(free_sblk_cnt)
        PROVE  /\ NextActive(wp_offt, sblk_rsv, active_sblk) # NoSblk
               /\ wp_offt[NextActive(wp_offt, sblk_rsv, active_sblk)] = 0
    BY <2>1, NextFacts, SblksFacts
  <2>. QED
    BY <2>1 DEF SearchFinds
<1>. QED
  BY <1>1, Invariance, PTL

\* Reserve, active superblock, counter and search agree through every GC.
THEOREM RolesCorrect == Spec => []RolesSound
<1>1. IInv => ReserveReady /\ FreeExact /\ CursorSound
  BY DEF IInv
<1>. QED
  BY <1>1, Invariance, SearchCorrect, PTL DEF RolesSound

-----------------------------------------------------------------------------
\* When GC would abort, every page outside the reserve is valid.
LEMMA AbortFull ==
    ASSUME IInv, NEW d \in TPages, WriteAborts(d)
    PROVE  \A b \in Sblks \ {sblk_rsv} : PagesOf(b) \subseteq valid
<1> PICK v : v = GcTarget(wp_offt, sblk_rsv, valid_cnt)
  OBVIOUS
<1>1. /\ v \in Sblks /\ v # sblk_rsv /\ wp_offt[v] = PPS
      /\ \A b \in Sblks \ {sblk_rsv} : valid_cnt[v] <= valid_cnt[b]
  BY VictimFacts DEF WriteAborts
<1>2. valid_cnt \in [Sblks -> 0 .. PPS] /\ valid \subseteq Pages
  BY DEF IInv, TypeOK
<1>3. valid_cnt[v] >= PPS
  <2>1. ~(valid_cnt[v] < wp_offt[v] * 1)
    BY <1>1, SblksFacts DEF WriteAborts, Reclaimable
  <2>2. valid_cnt[v] \in 0 .. PPS
    BY <1>1, <1>2
  <2>. QED
    BY <1>1, <2>1, <2>2, PartitionAssumption
<1>4. ASSUME NEW b \in Sblks \ {sblk_rsv}
      PROVE  PagesOf(b) \subseteq valid
  <2>1. valid_cnt[b] = PPS
    <3>1. valid_cnt[v] <= valid_cnt[b]
      BY <1>1
    <3>2. valid_cnt[b] \in 0 .. PPS /\ valid_cnt[v] \in 0 .. PPS
      BY <1>1, <1>2
    <3>. QED
      BY <1>3, <3>1, <3>2, PartitionAssumption
  <2>2. Cardinality(In(valid, b)) = PPS
    BY <2>1 DEF IInv, CountsExact
  <2>3. IsFiniteSet(PagesOf(b)) /\ Cardinality(PagesOf(b)) = PPS
    BY PagesFacts
  <2>4. In(valid, b) \in SUBSET PagesOf(b)
    BY <1>2 DEF In, PagesOf
  <2>5. In(valid, b) = PagesOf(b)
    BY <2>2, <2>3, <2>4, FS_Subset
  <2>. QED
    BY <2>5 DEF In
<1>. QED
  BY <1>4

\* The valid pages are never more than the tpages that have a copy: with the
\* provision, GC always has something to reclaim.
LEMMA ProvisionedNoAbort ==
    ASSUME IInv, Provisioned, NEW d \in TPages
    PROVE  ~WriteAborts(d)
<1> SUFFICES ASSUME WriteAborts(d) PROVE FALSE
  OBVIOUS
<1> DEFINE Others == Sblks \ {sblk_rsv}
           Packed == Others \X (0 .. PPS - 1)
           Rest == TPages \ {d}
           f == [p \in Packed |-> oob[p]]
<1>1. /\ sblk_rsv \in Sblks /\ oob \in [Pages -> TPages]
      /\ MappingConsistent /\ t_ppa[d] = NoPage
  BY DEF IInv, TypeOK, WriteAborts
<1>2. IsFiniteSet(Packed) /\ Cardinality(Packed) = (e_sblk - s_sblk) * PPS
  <2>1. IsFiniteSet(0 .. PPS - 1) /\ Cardinality(0 .. PPS - 1) = PPS
    BY FS_Interval, PartitionAssumption
  <2>2. IsFiniteSet(Others) /\ Cardinality(Others) = Cardinality(Sblks) - 1
    BY <1>1, SblksFacts, FS_RemoveElement
  <2>3. Cardinality(Others) = e_sblk - s_sblk
    BY <2>2, SblksFacts, PartitionAssumption
  <2>4. IsFiniteSet(Packed) /\
        Cardinality(Packed) = Cardinality(Others) * Cardinality(0 .. PPS - 1)
    BY <2>1, <2>2, FS_Product
  <2>. QED
    BY <2>1, <2>3, <2>4
<1>3. IsFiniteSet(Rest) /\ Cardinality(Rest) = NrTpages - 1
  <2>1. IsFiniteSet(TPages) /\ Cardinality(TPages) = NrTpages
    BY FS_Interval, TransAssumption DEF TPages
  <2>2. Cardinality(TPages \ {d}) = Cardinality(TPages) - 1
    BY <2>1, FS_RemoveElement
  <2>3. IsFiniteSet(TPages \ {d})
    BY <2>1, FS_RemoveElement
  <2>. QED
    BY <2>1, <2>2, <2>3
<1>4. ASSUME NEW p \in Packed
      PROVE  p \in valid /\ oob[p] \in Rest /\ t_ppa[oob[p]] = p
  <2>1. p[1] \in Others /\ p \in PagesOf(p[1])
    BY DEF PagesOf, Pages
  <2>2. p \in valid
    BY <2>1, AbortFull
  <2>3. oob[p] \in TPages /\ t_ppa[oob[p]] = p /\ p \in Pages
    BY <1>1, <2>1, <2>2 DEF MappingConsistent, Consistent, PagesOf
  <2>. QED
    BY <1>1, <2>2, <2>3, PagesFacts
<1>5. f \in Injection(Packed, Rest)
  <2>1. f \in [Packed -> Rest]
    BY <1>4
  <2>2. \A p, q \in Packed : f[p] = f[q] => p = q
    BY <1>4
  <2>. QED
    BY <2>1, <2>2, Fun_IsInj
<1>6. Cardinality(Packed) <= Cardinality(Rest)
  BY <1>2, <1>3, <1>5, FS_Injection DEF ExistsInjection
<1> HIDE DEF Packed, Rest
<1>7. (e_sblk - s_sblk) * PPS <= NrTpages - 1
  BY <1>2, <1>3, <1>6
<1>8. (e_sblk - s_sblk) * PPS \in Int /\ NrTpages \in Int
  BY PartitionAssumption, TransAssumption
<1>. QED
  BY <1>7, <1>8 DEF Provisioned

\* abort() is unreachable in a partition with more room, the reserve left
\* out, than translation pages, for every order of writes and drops.
THEOREM NoAbort == Spec => []NeverAborts
<1>1. Init => NeverAborts
  BY DEF Init, NeverAborts
<1>2. IInv /\ NeverAborts /\ [Next]_vars => NeverAborts'
  <2> SUFFICES ASSUME IInv, NeverAborts, [Next]_vars PROVE NeverAborts'
    OBVIOUS
  <2>1. ASSUME NEW d \in TPages, WriteAborts(d) PROVE NeverAborts'
    BY <2>1, ProvisionedNoAbort DEF NeverAborts, Provisioned
  <2>2. CASE UNCHANGED aborted
    BY <2>2 DEF NeverAborts, Provisioned
  <2>3. \A d \in TPages :
          WriteInActive(d) \/ WriteInNext(d) \/ WriteAfterGc(d) \/ DropTpage(d)
            => UNCHANGED aborted
    BY DEF WriteInActive, WriteInNext, WriteAfterGc, DropTpage
  <2>. QED
    BY <2>1, <2>2, <2>3 DEF Next, vars
<1>. QED
  BY <1>1, <1>2, Invariance, PTL DEF Spec

\* Without the provision, abort() is reached only when nothing can be
\* reclaimed: GC does not give up early.
THEOREM AbortIsLastResort == Spec => []AbortsOnlyWhenFull
<1>1. Init => AbortsOnlyWhenFull
  BY DEF Init, AbortsOnlyWhenFull
<1>2. IInv /\ AbortsOnlyWhenFull /\ [Next]_vars => AbortsOnlyWhenFull'
  <2> SUFFICES ASSUME IInv, AbortsOnlyWhenFull, [Next]_vars
               PROVE  AbortsOnlyWhenFull'
    OBVIOUS
  <2>1. ASSUME NEW d \in TPages, WriteAborts(d) PROVE AbortsOnlyWhenFull'
    <3>1. \A b \in Sblks \ {sblk_rsv} : PagesOf(b) \subseteq valid
      BY <2>1, AbortFull
    <3>. QED
      BY <2>1, <3>1 DEF AbortsOnlyWhenFull, WriteAborts
  <2>2. ASSUME NEW d \in TPages,
               WriteInActive(d) \/ WriteInNext(d) \/ WriteAfterGc(d) \/ DropTpage(d)
        PROVE  AbortsOnlyWhenFull'
    BY <2>2 DEF WriteInActive, WriteInNext, WriteAfterGc, DropTpage,
                AbortsOnlyWhenFull
  <2>3. CASE UNCHANGED vars
    BY <2>3 DEF vars, AbortsOnlyWhenFull
  <2>. QED
    BY <2>1, <2>2, <2>3 DEF Next
<1>. QED
  BY <1>1, <1>2, Invariance, PTL DEF Spec

-----------------------------------------------------------------------------
\* Under the invariant a tpage is stored exactly when it has a page.
LEMMA StoredIsMapped ==
    ASSUME IInv
    PROVE  StoredTpages = {d \in TPages : t_ppa[d] # NoPage}
<1>1. NoPage \notin valid
  BY PagesFacts DEF IInv, TypeOK
<1>2. ASSUME NEW d \in TPages, t_ppa[d] # NoPage
      PROVE  d \in StoredTpages
  BY <1>2 DEF IInv, MappingConsistent, Consistent, NandInStep, StoredTpages
<1>. QED
  BY <1>1, <1>2 DEF StoredTpages

\* The mapping area implements the store: a write is Store, a drop is Drop,
\* and GC moves copies without losing or reviving any.
THEOREM Refinement == Spec => ImplementsStore
<1>1. Init => Store!Init
  <2> SUFFICES ASSUME Init PROVE StoredTpages = {}
    BY DEF Store!Init
  <2>. QED
    BY DEF Init, StoredTpages
<1>2. IInv /\ IInv' /\ [Next]_vars => [Store!Next]_StoredTpages
  <2> SUFFICES ASSUME IInv, IInv', [Next]_vars
               PROVE  Store!Next \/ StoredTpages' = StoredTpages
    OBVIOUS
  <2>1. /\ StoredTpages = {d \in TPages : t_ppa[d] # NoPage}
        /\ StoredTpages' = {d \in TPages : t_ppa'[d] # NoPage}
        /\ t_ppa \in [TPages -> Pages \union {NoPage}]
    <3>1. StoredTpages = {d \in TPages : t_ppa[d] # NoPage}
      BY StoredIsMapped
    <3>2. (IInv => StoredTpages = {d \in TPages : t_ppa[d] # NoPage})'
      BY StoredIsMapped, PTL
    <3>. QED
      BY <3>1, <3>2 DEF IInv, TypeOK
  <2>2. ASSUME NEW d \in TPages, t_ppa[d] = NoPage,
               NEW tp \in [TPages -> Pages \union {NoPage}],
               \A e \in TPages : tp[e] = NoPage <=> t_ppa[e] = NoPage,
               NEW p, p # NoPage, t_ppa' = [tp EXCEPT ![d] = p]
        PROVE  Store!Next
    <3>1. \A e \in TPages : t_ppa'[e] # NoPage <=> e = d \/ t_ppa[e] # NoPage
      BY <2>2
    <3>2. d \notin StoredTpages /\ StoredTpages' = StoredTpages \union {d}
      BY <2>1, <2>2, <3>1
    <3>. QED
      BY <3>2 DEF Store!Next, Store!Store
  <2>3. ASSUME NEW d \in TPages, WriteInActive(d) PROVE Store!Next
    <3>1. /\ t_ppa' = [t_ppa EXCEPT ![d] = <<t_active, wp_offt[t_active]>>]
          /\ t_ppa'[d] # NoPage
      BY <2>3, InActiveKeeps
    <3>2. <<t_active, wp_offt[t_active]>> # NoPage
      BY <2>1, <3>1
    <3>. QED
      BY <2>1, <2>2, <2>3, <3>1, <3>2 DEF WriteInActive
  <2>4. ASSUME NEW d \in TPages, WriteInNext(d) PROVE Store!Next
    BY <2>1, <2>2, <2>4, InNextKeeps DEF WriteInNext
  <2>5. ASSUME NEW d \in TPages, WriteAfterGc(d) PROVE Store!Next
    BY <2>2, <2>5, AfterGcKeeps DEF WriteAfterGc
  <2>6. ASSUME NEW d \in TPages, WriteAborts(d)
        PROVE  StoredTpages' = StoredTpages
    BY <2>1, <2>6 DEF WriteAborts
  <2>7. ASSUME NEW d \in TPages, DropTpage(d) PROVE Store!Next
    <3>1. \A e \in TPages : t_ppa'[e] # NoPage <=> e # d /\ t_ppa[e] # NoPage
      BY <2>1, <2>7 DEF DropTpage
    <3>2. d \in StoredTpages /\ StoredTpages' = StoredTpages \ {d}
      BY <2>1, <2>7, <3>1 DEF DropTpage
    <3>. QED
      BY <3>2 DEF Store!Next, Store!Drop
  <2>8. CASE UNCHANGED vars
    BY <2>1, <2>8 DEF vars
  <2>. QED
    BY <2>3, <2>4, <2>5, <2>6, <2>7, <2>8 DEF Next
<1>. QED
  BY <1>1, <1>2, Invariance, PTL DEF Spec, ImplementsStore, Store!Spec

=============================================================================

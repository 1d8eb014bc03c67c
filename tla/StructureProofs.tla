--------------------------- MODULE StructureProofs ---------------------------
(***************************************************************************)
(* Proofs about the components that MCStructures puts side by side, for    *)
(* every value of their sizes.  What each keeps is a state predicate of    *)
(* its own: HotOK, ClockOK, LinesOK, QueueOK, LruOK and SkipOK.            *)
(***************************************************************************)
EXTENDS MCStructures, NumberFacts

\* A list of different elements is no longer than there are, and shorter when
\* one of them is missing.
LEMMA HowMany ==
    ASSUME NEW S, IsFiniteSet(S), NEW n \in Nat, NEW C \in [1 .. n -> S],
           \A i, j \in 1 .. n : C[i] = C[j] => i = j
    PROVE  /\ n <= Cardinality(S)
           /\ Cardinality({C[i] : i \in 1 .. n}) = n
           /\ \A r \in S : (\A i \in 1 .. n : C[i] # r) => n < Cardinality(S)
<1>1. PICK D : D = {C[i] : i \in 1 .. n}
  OBVIOUS
<1>2. D \subseteq S /\ IsFiniteSet(D)
  BY <1>1, FS_Subset
<1>3. IsFiniteSet(1 .. n) /\ Cardinality(1 .. n) = n
  <2>1. 1 \in Int /\ n \in Int
    OBVIOUS
  <2>. QED
    BY <2>1, FS_Interval
<1>4. ~ Cardinality(D) < n
  <2>1. SUFFICES ASSUME Cardinality(D) < n PROVE FALSE
    OBVIOUS
  <2>2. C \in [1 .. n -> D]
    BY <1>1
  <2>3. \E x, y \in 1 .. n : x # y /\ C[x] = C[y]
    BY <1>2, <1>3, <2>1, <2>2, FS_PigeonHole
  <2>. QED
    BY <2>3
<1>5. Cardinality(D) <= n
  <2>1. PICK f : f = C
    OBVIOUS
  <2>2. DOMAIN f = 1 .. n /\ D = {f[x] : x \in 1 .. n}
    BY <1>1, <2>1
  <2>3. f \in Surjection(1 .. n, D)
    BY <1>1, <2>1 DEF Surjection
  <2>. QED
    BY <1>3, <2>3, FS_Surjection
<1>6. Cardinality(D) \in Nat /\ Cardinality(S) \in Nat /\ Cardinality(D) <= Cardinality(S)
  BY <1>2, FS_Subset, FS_CardinalityType
<1>7. ASSUME NEW r \in S, r \notin D PROVE Cardinality(D) # Cardinality(S)
  BY <1>2, <1>7, FS_Subset
<1>. QED
  BY <1>1, <1>4, <1>5, <1>6, <1>7

\* The first i elements of C, and one more.
LEMMA OneMore ==
    ASSUME NEW S, NEW n \in Nat, NEW C \in [1 .. n -> S], NEW i \in 0 .. n - 1
    PROVE  Append([j \in 1 .. i |-> C[j]], C[i + 1]) = [j \in 1 .. i + 1 |-> C[j]]
<1>1. PICK s : s = [j \in 1 .. i |-> C[j]]
  OBVIOUS
<1>2. s \in Seq(S) /\ Len(s) = i
  <2>1. s \in [1 .. i -> S] /\ i \in Nat
    BY <1>1
  <2>. QED
    BY <2>1, FunctionIsSeq
<1>3. C[i + 1] \in S
  OBVIOUS
<1>4. /\ Append(s, C[i + 1]) \in Seq(S) /\ Len(Append(s, C[i + 1])) = i + 1
      /\ \A j \in 1 .. i : Append(s, C[i + 1])[j] = s[j]
      /\ Append(s, C[i + 1])[i + 1] = C[i + 1]
  BY <1>2, <1>3, AppendProperties
<1>. QED
  BY <1>1, <1>4

-----------------------------------------------------------------------------
(* The hot mapping cache. *)

Contents == (Hot!Lpas \X (1 .. MaxPlace)) \union {Hot!Unused, Hot!Others}

\* The sizes of the table.
LEMMA HotSizes ==
    /\ NrTpages \in Nat \ {0} /\ EPP \in Nat \ {0} /\ Capacity \in Nat
    /\ HotTpages \in Nat \ {0} /\ MAX_PROBE \in Nat \ {0}
    /\ MaxPlace \in Nat /\ MaxHits \in 0 .. 255 /\ HotT \in Nat
BY PartsAssumption DEF Hot!HotAssumption

\* Probing stays in the table.
LEMMA ProbedInside ==
    ASSUME NEW s \in Hot!Slots, NEW probe \in Nat
    PROVE  Hot!Probed(s, probe) \in Hot!Slots
<1>1. s[1] \in 0 .. HotTpages - 1 /\ s[2] \in 0 .. EPP
  BY DEF Hot!Slots
<1>2. probe * probe \in Nat
  OBVIOUS
<1>. QED
  BY <1>1, <1>2, HotSizes DEF Hot!Slots, Hot!Probed

LEMMA HomeInside ==
    ASSUME NEW l \in Hot!Lpas
    PROVE  Hot!Home(l) \in Hot!Slots /\ Hot!Home(l)[2] < EPP
<1>1. l \in Nat
  BY HotSizes DEF Hot!Lpas
<1>. QED
  BY <1>1, HotSizes DEF Hot!Slots, Hot!Home

\* The path of an entry begins at its home and goes from slot to slot.
LEMMA PathFacts ==
    ASSUME NEW l \in Hot!Lpas
    PROVE  /\ \A i \in 1 .. MAX_PROBE : Hot!PathOf(l)[i] \in Hot!Slots
           /\ Hot!PathOf(l)[1] = Hot!Home(l)
<1> DEFINE first == Hot!Home(l)
           path[i \in 1 .. MAX_PROBE] ==
               IF i = 1 THEN first ELSE Hot!Probed(path[i - 1], i - 1)
           F == [i \in 1 .. MAX_PROBE |->
                    [s \in Hot!Slots |-> IF i = 1 THEN first ELSE Hot!Probed(s, i - 1)]]
<1>1. Hot!PathOf(l) = path
  BY DEF Hot!PathOf
<1>2. first \in Hot!Slots
  BY HomeInside
<1>. HIDE DEF first
<1>3. MAX_PROBE \in Nat /\ 1 \in 1 .. MAX_PROBE
  BY HotSizes
<1>4. F \in [1 .. MAX_PROBE -> [Hot!Slots -> Hot!Slots]]
  <2>1. ASSUME NEW i \in 1 .. MAX_PROBE, NEW s \in Hot!Slots
        PROVE  (IF i = 1 THEN first ELSE Hot!Probed(s, i - 1)) \in Hot!Slots
    <3>1. i - 1 \in Nat
      BY <1>3
    <3>. QED
      BY <1>2, <3>1, ProbedInside
  <2>. QED
    BY <2>1
<1>5. \E g : /\ g = [i \in 1 .. MAX_PROBE |->
                        IF i = 1 THEN first ELSE Hot!Probed(g[i - 1], i - 1)]
             /\ \A i \in 1 .. MAX_PROBE : g[i] \in Hot!Slots
  <2>. HIDE DEF F
  <2>1. PICK h \in [0 .. MAX_PROBE -> Hot!Slots] :
            h[0] = first /\ \A i \in 1 .. MAX_PROBE : h[i] = F[i][h[i - 1]]
    <3>1. PICK U, a, H : U = Hot!Slots /\ a = first /\ H = F
      OBVIOUS
    <3>2. a \in U /\ MAX_PROBE \in Nat /\ H \in [1 .. MAX_PROBE -> [U -> U]]
      BY <1>2, <1>3, <1>4, <3>1
    <3>3. \E h \in [0 .. MAX_PROBE -> U] :
              h[0] = a /\ \A i \in 1 .. MAX_PROBE : h[i] = H[i][h[i - 1]]
      BY ONLY <3>2, Iteration
    <3>. QED
      BY <3>1, <3>3
  <2> DEFINE g == [i \in 1 .. MAX_PROBE |-> h[i]]
  <2>2. ASSUME NEW i \in 1 .. MAX_PROBE
        PROVE  /\ g[i] = IF i = 1 THEN first ELSE Hot!Probed(g[i - 1], i - 1)
               /\ g[i] \in Hot!Slots
    <3>1. i \in 0 .. MAX_PROBE /\ i - 1 \in 0 .. MAX_PROBE
      BY <1>3
    <3>2. h[i] \in Hot!Slots /\ h[i - 1] \in Hot!Slots
      BY <2>1, <3>1
    <3>3. h[i] = IF i = 1 THEN first ELSE Hot!Probed(h[i - 1], i - 1)
      BY <2>1, <3>2 DEF F
    <3>4. i # 1 => i - 1 \in 1 .. MAX_PROBE
      BY <1>3
    <3>. QED
      BY <3>2, <3>3, <3>4
  <2>3. g = [i \in 1 .. MAX_PROBE |->
                IF i = 1 THEN first ELSE Hot!Probed(g[i - 1], i - 1)]
    <3>1. g = [i \in 1 .. MAX_PROBE |-> g[i]]
      OBVIOUS
    <3>. HIDE DEF g
    <3>. QED
      BY <2>2, <3>1
  <2>. HIDE DEF g
  <2>. QED
    BY <2>2, <2>3
<1>6. path = [i \in 1 .. MAX_PROBE |->
                 IF i = 1 THEN first ELSE Hot!Probed(path[i - 1], i - 1)]
  BY <1>5
<1>. HIDE DEF path
<1>7. \A i \in 1 .. MAX_PROBE : path[i] \in Hot!Slots
  <2> DEFINE S == {i \in 0 .. MAX_PROBE : i # 0 => path[i] \in Hot!Slots}
  <2>1. 0 \in S
    BY <1>3
  <2>2. ASSUME NEW i \in 0 .. MAX_PROBE - 1, i \in S PROVE i + 1 \in S
    <3>1. i + 1 \in 1 .. MAX_PROBE /\ (i + 1) - 1 = i /\ i \in Nat /\ i + 1 \in 0 .. MAX_PROBE
      BY <1>3
    <3>2. path[i + 1] = IF i + 1 = 1 THEN first ELSE Hot!Probed(path[i], i)
      BY <1>6, <3>1
    <3>3. path[i + 1] \in Hot!Slots
      BY <1>2, <2>2, <3>1, <3>2, ProbedInside
    <3>. QED
      BY <3>1, <3>3
  <2>. HIDE DEF S
  <2>3. 0 .. MAX_PROBE \subseteq S
    BY <1>3, <2>1, <2>2, Induction
  <2>. QED
    BY <1>3, <2>3 DEF S
<1>. QED
  BY <1>1, <1>3, <1>6, <1>7 DEF first

\* h is a table in which each entry on the path of its lpa is reached: before the
\* slot no slot of the path is free.  Paths may come to a slot twice.  What lies
\* behind the rows is not touched.
HotTable(h) ==
    /\ h \in [Hot!Slots -> Contents]
    /\ \A s \in Hot!Slots : s[2] = EPP => h[s] = Hot!Others
    /\ \A l \in Hot!Lpas, i \in 1 .. MAX_PROBE :
          h[Hot!PathOf(l)[i]][1] = l =>
              \E a \in 1 .. i : /\ Hot!PathOf(l)[a] = Hot!PathOf(l)[i]
                                /\ \A j \in 1 .. a - 1 : h[Hot!PathOf(l)[j]] # Hot!Unused

\* The slot taken is the first free one, or the home.
LEMMA SlotFacts ==
    ASSUME NEW h, HotTable(h), NEW l \in Hot!Lpas
    PROVE  \E i \in 1 .. MAX_PROBE :
              /\ Hot!SlotFor(h, l) = Hot!PathOf(l)[i]
              /\ \A j \in 1 .. i - 1 : h[Hot!PathOf(l)[j]] # Hot!Unused
              /\ h[Hot!PathOf(l)[i]] = Hot!Unused \/ i = 1
              /\ \A j \in 1 .. MAX_PROBE : h[Hot!PathOf(l)[j]] = Hot!Unused => i <= j
<1> DEFINE free == {i \in 1 .. MAX_PROBE : h[Hot!PathOf(l)[i]] = Hot!Unused}
<1>1. Hot!SlotFor(h, l) = Hot!PathOf(l)[IF free = {} THEN 1 ELSE Hot!Min(free)]
  BY DEF Hot!SlotFor
<1>2. CASE free = {}
  BY <1>1, <1>2, HotSizes
<1>3. CASE free # {}
  <2>1. \E m \in free : \A n \in free : m <= n
    <3>1. free \subseteq Nat
      BY HotSizes
    <3>. HIDE DEF free
    <3>. QED
      BY <1>3, <3>1, LeastNatural
  <2>2. Hot!Min(free) \in free /\ \A n \in free : Hot!Min(free) <= n
    <3>. HIDE DEF free
    <3>. QED
      BY <2>1 DEF Hot!Min
  <2>3. PICK i : i = Hot!Min(free)
    OBVIOUS
  <2>4. /\ i \in 1 .. MAX_PROBE /\ h[Hot!PathOf(l)[i]] = Hot!Unused
        /\ \A n \in free : i <= n
        /\ Hot!SlotFor(h, l) = Hot!PathOf(l)[i]
    BY <1>1, <1>3, <2>2, <2>3
  <2>5. ASSUME NEW j \in 1 .. i - 1 PROVE h[Hot!PathOf(l)[j]] # Hot!Unused
    <3>1. j \in 1 .. MAX_PROBE /\ ~(i <= j)
      BY <2>4, HotSizes
    <3>. QED
      BY <2>4, <3>1
  <2>. QED
    BY <2>4, <2>5
<1>. QED
  BY <1>2, <1>3

\* Putting an entry where promote_hot does keeps the table so.
LEMMA PromoteOne ==
    ASSUME NEW h, HotTable(h), NEW l \in Hot!Lpas, NEW x \in 1 .. MaxPlace
    PROVE  HotTable([h EXCEPT ![Hot!SlotFor(h, l)] = <<l, x>>])
<1>1. PICK i \in 1 .. MAX_PROBE :
              /\ Hot!SlotFor(h, l) = Hot!PathOf(l)[i]
              /\ \A j \in 1 .. i - 1 : h[Hot!PathOf(l)[j]] # Hot!Unused
              /\ h[Hot!PathOf(l)[i]] = Hot!Unused \/ i = 1
              /\ \A j \in 1 .. MAX_PROBE : h[Hot!PathOf(l)[j]] = Hot!Unused => i <= j
  BY SlotFacts
<1>2. PICK s : s = Hot!PathOf(l)[i]
  OBVIOUS
<1>3. s \in Hot!Slots /\ (i = 1 => s[2] < EPP)
  BY <1>1, <1>2, PathFacts, HomeInside
<1>4. PICK g : g = [h EXCEPT ![s] = <<l, x>>]
  OBVIOUS
<1>5. /\ h \in [Hot!Slots -> Contents]
      /\ \A t \in Hot!Slots : t[2] = EPP => h[t] = Hot!Others
  BY DEF HotTable
<1>6. /\ g[s] = <<l, x>> /\ \A t \in Hot!Slots : t # s => g[t] = h[t]
      /\ l \in Nat /\ <<l, x>> # Hot!Unused /\ Hot!Others # Hot!Unused
      /\ <<l, x>> \in Contents
  BY <1>3, <1>4, <1>5, HotSizes DEF Hot!Unused, Hot!Others, Hot!Lpas, Contents
<1>7. g \in [Hot!Slots -> Contents]
  BY <1>3, <1>4, <1>5, <1>6
<1>8. ASSUME NEW t \in Hot!Slots, t[2] = EPP PROVE g[t] = Hot!Others
  <2>1. s[2] # EPP
    BY <1>1, <1>2, <1>3, <1>5, <1>6, HotSizes DEF Hot!Slots
  <2>. QED
    BY <1>5, <1>6, <1>8, <2>1
<1>9. ASSUME NEW m \in Hot!Lpas, NEW n \in 1 .. MAX_PROBE, g[Hot!PathOf(m)[n]][1] = m
      PROVE  \E a \in 1 .. n : /\ Hot!PathOf(m)[a] = Hot!PathOf(m)[n]
                               /\ \A j \in 1 .. a - 1 : g[Hot!PathOf(m)[j]] # Hot!Unused
  <2>1. \A j \in 1 .. MAX_PROBE :
            Hot!PathOf(m)[j] \in Hot!Slots
            /\ (h[Hot!PathOf(m)[j]] # Hot!Unused => g[Hot!PathOf(m)[j]] # Hot!Unused)
    BY <1>6, PathFacts
  <2>2. CASE Hot!PathOf(m)[n] # s
    <3>1. h[Hot!PathOf(m)[n]][1] = m
      BY <1>6, <1>9, <2>1, <2>2
    <3>2. PICK a \in 1 .. n : /\ Hot!PathOf(m)[a] = Hot!PathOf(m)[n]
                              /\ \A j \in 1 .. a - 1 : h[Hot!PathOf(m)[j]] # Hot!Unused
      BY <3>1 DEF HotTable
    <3>3. \A j \in 1 .. a - 1 : j \in 1 .. MAX_PROBE
      BY HotSizes
    <3>. QED
      BY <2>1, <3>2, <3>3
  <2>3. CASE Hot!PathOf(m)[n] = s
    <3>1. m = l
      BY <1>6, <1>9, <2>3
    <3>2. i \in 1 .. n
      BY <1>1, <1>2, <2>3, <3>1, HotSizes
    <3>3. \A j \in 1 .. i - 1 : j \in 1 .. MAX_PROBE
      BY HotSizes
    <3>. QED
      BY <1>1, <1>2, <2>1, <2>3, <3>1, <3>2, <3>3
  <2>. QED
    BY <2>2, <2>3
<1>10. HotTable(g)
  BY <1>7, <1>8, <1>9 DEF HotTable
<1>. QED
  BY <1>1, <1>2, <1>4, <1>10

LEMMA SameCardinality == \A S : Hot!Cardinality(S) = Cardinality(S)
BY DEF Hot!Cardinality, Cardinality

\* The state of the hot mapping cache.
HotOK ==
    /\ hPlace \in [Hot!Lpas -> 0 .. MaxPlace]
    /\ hCached \subseteq Hot!Tpages /\ Cardinality(hCached) <= Capacity
    /\ hCntMap \in [Hot!Lpas -> 0 .. 255] /\ hHitCnt \in [Hot!Tpages -> Nat]
    /\ HotTable(hHot)

\* Promoting the entries of a page one after the other keeps the table.
LEMMA PromotedTable ==
    ASSUME HotOK, NEW d \in Hot!Tpages
    PROVE  HotTable(Hot!Promoted(d))
<1> DEFINE first == hHot
           Lpa(n) == d * EPP + n - 1
           Step(h, n) ==
               IF Hot!IsHot(Lpa(n))
                 THEN [h EXCEPT ![Hot!SlotFor(h, Lpa(n))] = <<Lpa(n), hPlace[Lpa(n)]>>]
                 ELSE h
           after[n \in 0 .. EPP] == IF n = 0 THEN first ELSE Step(after[n - 1], n)
           Tables == {h \in [Hot!Slots -> Contents] : HotTable(h)}
           F == [n \in 1 .. EPP |-> [h \in Tables |-> Step(h, n)]]
<1>1. Hot!Promoted(d) = after[EPP]
  BY DEF Hot!Promoted
<1>2. first \in Tables /\ EPP \in Nat
  BY HotSizes DEF HotOK, HotTable
<1>3. ASSUME NEW n \in 1 .. EPP, NEW h \in Tables PROVE Step(h, n) \in Tables
  <2>1. Lpa(n) \in Hot!Lpas
    <3>1. PICK i : i = NrTpages - 1 - d
      OBVIOUS
    <3>2. i \in Nat /\ d \in Nat /\ NrTpages = d + 1 + i
      BY <3>1, HotSizes DEF Hot!Tpages
    <3>3. NrTpages * EPP = d * EPP + EPP + i * EPP /\ i * EPP \in Nat /\ d * EPP \in Nat
      BY <1>2, <3>2
    <3>. QED
      BY <1>2, <3>3 DEF Hot!Lpas
  <2>2. CASE Hot!IsHot(Lpa(n))
    <3>1. PICK l \in Hot!Lpas : l = Lpa(n)
      BY <2>1
    <3>2. hPlace[l] \in 1 .. MaxPlace
      BY <2>2, <3>1 DEF Hot!IsHot, HotOK
    <3>3. HotTable([h EXCEPT ![Hot!SlotFor(h, l)] = <<l, hPlace[l]>>])
      BY <3>2, PromoteOne
    <3>4. Step(h, n) = [h EXCEPT ![Hot!SlotFor(h, l)] = <<l, hPlace[l]>>]
      BY <2>2, <3>1
    <3>. HIDE DEF Step, Lpa
    <3>5. HotTable(Step(h, n))
      BY <3>3, <3>4
    <3>6. Step(h, n) \in [Hot!Slots -> Contents]
      BY <3>5 DEF HotTable
    <3>. QED
      BY <3>5, <3>6
  <2>3. CASE ~Hot!IsHot(Lpa(n))
    BY <2>3
  <2>. QED
    BY <2>2, <2>3
<1>. HIDE DEF first, Step, Tables
<1>4. F \in [1 .. EPP -> [Tables -> Tables]]
  BY <1>3
<1>5. \E g : g = [n \in 0 .. EPP |-> IF n = 0 THEN first ELSE Step(g[n - 1], n)]
  <2>. HIDE DEF F
  <2>1. PICK g \in [0 .. EPP -> Tables] :
            g[0] = first /\ \A n \in 1 .. EPP : g[n] = F[n][g[n - 1]]
    <3>1. PICK U, a, H : U = Tables /\ a = first /\ H = F
      OBVIOUS
    <3>2. a \in U /\ EPP \in Nat /\ H \in [1 .. EPP -> [U -> U]]
      BY <1>2, <1>4, <3>1
    <3>3. \E g \in [0 .. EPP -> U] : g[0] = a /\ \A n \in 1 .. EPP : g[n] = H[n][g[n - 1]]
      BY ONLY <3>2, Iteration, SMTT(30)
    <3>. QED
      BY <3>1, <3>3
  <2>2. ASSUME NEW n \in 0 .. EPP
        PROVE  g[n] = IF n = 0 THEN first ELSE Step(g[n - 1], n)
    <3>1. CASE n = 0
      BY <2>1, <3>1
    <3>2. CASE n # 0
      <4>1. n \in 1 .. EPP /\ n - 1 \in 0 .. EPP
        BY <1>2, <3>2
      <4>2. g[n - 1] \in Tables /\ g[n] = F[n][g[n - 1]]
        BY <2>1, <4>1
      <4>3. F[n][g[n - 1]] = Step(g[n - 1], n)
        BY <4>1, <4>2 DEF F
      <4>. QED
        BY <3>2, <4>2, <4>3
    <3>. QED
      BY <3>1, <3>2
  <2>. QED
    BY <2>1, <2>2
<1>6. after = [n \in 0 .. EPP |-> IF n = 0 THEN first ELSE Step(after[n - 1], n)]
  BY <1>5
<1>. HIDE DEF after
<1>7. after[EPP] \in Tables
  <2> DEFINE S == {n \in 0 .. EPP : after[n] \in Tables}
  <2>1. 0 \in S
    BY <1>2, <1>6
  <2>2. ASSUME NEW n \in 0 .. EPP - 1, n \in S PROVE n + 1 \in S
    <3>1. n + 1 \in 1 .. EPP /\ (n + 1) - 1 = n /\ n + 1 # 0 /\ n + 1 \in 0 .. EPP
      BY <1>2
    <3>2. after[n + 1] = Step(after[n], n + 1)
      BY <1>6, <3>1
    <3>. QED
      BY <1>3, <2>2, <3>1, <3>2
  <2>. HIDE DEF S
  <2>3. 0 .. EPP \subseteq S
    BY <1>2, <2>1, <2>2, Induction
  <2>. QED
    BY <1>2, <2>3 DEF S
<1>. QED
  BY <1>1, <1>7 DEF Tables

\* The steps of the hot mapping cache.
LEMMA HotKeeps ==
    ASSUME HotOK, Hot!Next
    PROVE  HotOK'
<1>1. IsFiniteSet(hCached) /\ Cardinality(hCached) \in Nat
  <2>1. IsFiniteSet(Hot!Tpages)
    BY HotSizes, FS_Interval DEF Hot!Tpages
  <2>. QED
    BY <2>1, FS_Subset, FS_CardinalityType DEF HotOK
<1>2. CASE \E l \in Hot!Lpas : Hot!Hit(l)
  <2>1. PICK l \in Hot!Lpas : Hot!Hit(l)
    BY <1>2
  <2>2. l \div EPP \in Hot!Tpages
    BY <2>1 DEF Hot!Hit, HotOK
  <2>3. hCntMap[l] \in 0 .. 255 /\ (hCntMap[l] + 1) % 256 \in 0 .. 255
    BY DEF HotOK
  <2>. QED
    BY <2>1, <2>2, <2>3 DEF Hot!Hit, HotOK
<1>3. CASE \E l \in Hot!Lpas : Hot!Update(l)
  <2>1. PICK l \in Hot!Lpas : Hot!Update(l)
    BY <1>3
  <2>2. hPlace[l] + 1 \in 0 .. MaxPlace
    BY <2>1, HotSizes DEF Hot!Update, HotOK
  <2>. QED
    BY <2>1, <2>2 DEF Hot!Update, HotOK
<1>4. CASE \E d \in Hot!Tpages : Hot!ListUp(d)
  <2>1. PICK d \in Hot!Tpages : Hot!ListUp(d)
    BY <1>4
  <2>2. Cardinality(hCached \union {d}) = Cardinality(hCached) + 1
    BY <1>1, <2>1, FS_AddElement DEF Hot!ListUp
  <2>3. Cardinality(hCached) < Capacity
    BY <2>1, SameCardinality DEF Hot!ListUp
  <2>. QED
    BY <1>1, <2>1, <2>2, <2>3, HotSizes DEF Hot!ListUp, HotOK
<1>5. CASE \E d, v \in Hot!Tpages : Hot!ListUpAndEvict(d, v)
  <2>1. PICK d \in Hot!Tpages, v \in Hot!Tpages : Hot!ListUpAndEvict(d, v)
    BY <1>5
  <2>2. Cardinality((hCached \ {v}) \union {d}) = Cardinality(hCached)
    <3>1. /\ IsFiniteSet(hCached \ {v})
          /\ Cardinality(hCached \ {v}) = Cardinality(hCached) - 1
      BY <1>1, <2>1, FS_RemoveElement DEF Hot!ListUpAndEvict
    <3>2. Cardinality((hCached \ {v}) \union {d}) = Cardinality(hCached \ {v}) + 1
      BY <2>1, <3>1, FS_AddElement DEF Hot!ListUpAndEvict
    <3>. QED
      BY <1>1, <3>1, <3>2
  <2>3. HotTable(hHot')
    BY <2>1, PromotedTable DEF Hot!ListUpAndEvict, HotOK
  <2>4. hCntMap' \in [Hot!Lpas -> 0 .. 255]
    BY <2>1 DEF Hot!ListUpAndEvict, Hot!Cleared, HotOK
  <2>. QED
    BY <2>1, <2>2, <2>3, <2>4 DEF Hot!ListUpAndEvict, HotOK
<1>6. CASE Hot!dftl_cache_hot_reset
  <2> DEFINE h == [s \in Hot!Slots |-> IF s[2] < EPP THEN Hot!Unused ELSE hHot[s]]
  <2>1. hHot' = h /\ UNCHANGED <<hPlace, hCached, hCntMap, hHitCnt>>
    BY <1>6 DEF Hot!dftl_cache_hot_reset
  <2>2. \A s \in Hot!Slots : s[2] \in 0 .. EPP /\ (s[2] < EPP \/ s[2] = EPP)
    BY HotSizes DEF Hot!Slots
  <2>3. \A s \in Hot!Slots : h[s] \in {Hot!Unused, Hot!Others}
    BY <2>2 DEF HotOK, HotTable
  <2>4. \A l \in Hot!Lpas : Hot!Unused[1] # l /\ Hot!Others[1] # l
    BY HotSizes DEF Hot!Unused, Hot!Others, Hot!Lpas
  <2>5. HotTable(h)
    <3>1. h \in [Hot!Slots -> Contents]
      BY <2>3 DEF Contents
    <3>2. \A s \in Hot!Slots : s[2] = EPP => h[s] = Hot!Others
      BY <2>2, HotSizes DEF HotOK, HotTable
    <3>3. \A l \in Hot!Lpas, i \in 1 .. MAX_PROBE : h[Hot!PathOf(l)[i]][1] # l
      BY <2>3, <2>4, PathFacts
    <3>. HIDE DEF h
    <3>. QED
      BY <3>1, <3>2, <3>3 DEF HotTable
  <2>. HIDE DEF h
  <2>. QED
    BY <2>1, <2>5 DEF HotOK
<1>. QED
  BY <1>2, <1>3, <1>4, <1>5, <1>6 DEF Hot!Next

LEMMA HotStart == Hot!Init => HotOK
<1>. SUFFICES ASSUME Hot!Init PROVE HotOK
  OBVIOUS
<1>1. hCached = {} /\ Cardinality({}) = 0
  BY FS_EmptySet DEF Hot!Init
<1>2. HotTable(hHot)
  <2>1. /\ hHot \in [Hot!Slots -> {Hot!Unused, Hot!Others}]
        /\ \A s \in Hot!Slots : s[2] = EPP => hHot[s] = Hot!Others
    BY DEF Hot!Init
  <2>2. \A l \in Hot!Lpas : Hot!Unused[1] # l /\ Hot!Others[1] # l
    BY HotSizes DEF Hot!Unused, Hot!Others, Hot!Lpas
  <2>3. \A l \in Hot!Lpas, i \in 1 .. MAX_PROBE : hHot[Hot!PathOf(l)[i]][1] # l
    BY <2>1, <2>2, PathFacts
  <2>. QED
    BY <2>1, <2>3 DEF HotTable, Contents
<1>. QED
  BY <1>1, <1>2, HotSizes, PartsAssumption DEF HotOK, Hot!Init, Hot!HotAssumption

\* Probing finds what is in the table.
LEMMA HotFinds == HotOK => Hot!TypeOK /\ Hot!PathKept
<1>. SUFFICES ASSUME HotOK PROVE Hot!TypeOK /\ Hot!PathKept
  OBVIOUS
<1>1. Hot!TypeOK
  BY SameCardinality DEF HotOK, HotTable, Contents, Hot!TypeOK
<1>2. ASSUME NEW l \in Hot!Lpas, NEW i \in 1 .. MAX_PROBE - 1, hHot[Hot!PathOf(l)[i]][1] = l
      PROVE  Hot!FoundAt(l) # {}
  <2> DEFINE stops == {n \in 1 .. MAX_PROBE - 1 :
                          hHot[Hot!PathOf(l)[n]][1] \in {l, Hot!Unused[1]}}
  <2>1. i \in stops /\ stops \subseteq Nat /\ i \in 1 .. MAX_PROBE
    BY <1>2, HotSizes
  <2>2. \E m \in stops : \A n \in stops : m <= n
    <3>. HIDE DEF stops
    <3>. QED
      BY <2>1, LeastNatural
  <2>3. Hot!Min(stops) \in stops /\ \A n \in stops : Hot!Min(stops) <= n
    <3>. HIDE DEF stops
    <3>. QED
      BY <2>2 DEF Hot!Min
  <2>4. PICK m : m = Hot!Min(stops)
    OBVIOUS
  <2>5. PICK a \in 1 .. i : /\ Hot!PathOf(l)[a] = Hot!PathOf(l)[i]
                            /\ \A j \in 1 .. a - 1 : hHot[Hot!PathOf(l)[j]] # Hot!Unused
    BY <1>2, <2>1 DEF HotOK, HotTable
  <2>6. a \in stops
    <3>1. a \in 1 .. MAX_PROBE - 1
      BY HotSizes
    <3>2. hHot[Hot!PathOf(l)[a]][1] = l
      BY <1>2, <2>5
    <3>. QED
      BY <3>1, <3>2
  <2>7. m \in stops /\ m <= a /\ m \in 1 .. MAX_PROBE
    <3>. HIDE DEF stops
    <3>1. m \in stops /\ m <= a
      BY <2>3, <2>4, <2>6
    <3>2. stops \subseteq 1 .. MAX_PROBE - 1
      BY DEF stops
    <3>. QED
      BY <3>1, <3>2, HotSizes
  <2>8. hHot[Hot!PathOf(l)[m]][1] = l
    <3>1. CASE m = a
      BY <1>2, <2>5, <3>1
    <3>2. CASE m # a
      <4>1. hHot[Hot!PathOf(l)[m]] # Hot!Unused
        <5>1. m \in 1 .. a - 1
          BY <2>7, <3>2, HotSizes
        <5>. QED
          BY <2>5, <5>1
      <4>2. hHot[Hot!PathOf(l)[m]] \in Contents
        BY <2>7, PathFacts DEF HotOK, HotTable
      <4>3. hHot[Hot!PathOf(l)[m]][1] # Hot!Unused[1]
        BY <4>1, <4>2, HotSizes DEF Contents, Hot!Unused, Hot!Others, Hot!Lpas
      <4>4. hHot[Hot!PathOf(l)[m]][1] \in {l, Hot!Unused[1]}
        BY <2>7
      <4>. QED
        BY <4>3, <4>4
    <3>. QED
      BY <3>1, <3>2
  <2>9. Hot!PathOf(l)[m] \in Hot!FoundAt(l)
    BY <2>4, <2>7, <2>8 DEF Hot!FoundAt
  <2>. QED
    BY <2>9
<1>. QED
  BY <1>1, <1>2 DEF Hot!PathKept

-----------------------------------------------------------------------------
(* The NAND with its clocks. *)

LEMMA ClockSizes ==
    /\ ClockChs \in Nat \ {0} /\ ClockLuns \in Nat \ {0} /\ ClockPgs \in Nat \ {0}
    /\ Clock!tt_lines \in Nat \ {0} /\ Clock!tt_luns \in Nat \ {0}
    /\ Clock!pgs_per_line \in Nat \ {0}
    /\ NAND_READ \in Nat /\ NAND_WRITE \in Nat /\ NAND_ERASE \in Nat
    /\ MaxRun \in Nat \ {0} /\ MaxNow \in Nat /\ Refused \notin Int
<1>1. /\ ClockChs \in Nat \ {0} /\ ClockLuns \in Nat \ {0} /\ ClockPgs \in Nat \ {0}
      /\ ClockPls \in Nat \ {0} /\ ClockBlks \in Nat \ {0}
      /\ NAND_READ \in Nat /\ NAND_WRITE \in Nat /\ NAND_ERASE \in Nat
      /\ MaxRun \in Nat \ {0} /\ MaxNow \in Nat /\ Refused \notin Int
  BY PartsAssumption DEF Clock!NandAssumption
<1>2. \A a, b \in Nat \ {0} : a * b \in Nat \ {0}
  OBVIOUS
<1>. QED
  BY <1>1, <1>2 DEF Clock!tt_luns, Clock!pgs_per_line, Clock!tt_lines

\* Of the address of a page, time needs its channel and its LUN.
LEMMA ClockLun ==
    ASSUME NEW q
    PROVE  Clock!LunOf(q) = <<q % ClockChs, (q \div ClockChs) % ClockLuns>>
BY DEF Clock!LunOf, Clock!pgidx2ppa

LEMMA ClockMax ==
    ASSUME NEW S, S \subseteq Nat, IsFiniteSet(S), S # {}
    PROVE  /\ Clock!Max(S) \in S /\ Clock!Max(S) \in Nat
           /\ \A n \in S : n <= Clock!Max(S)
<1>1. PICK m \in S : \A n \in S : n <= m
  BY FiniteGreatest
<1>2. \A n \in S : m >= n
  BY <1>1
<1>3. Clock!Max(S) \in S /\ \A n \in S : Clock!Max(S) >= n
  BY <1>2 DEF Clock!Max
<1>. QED
  BY <1>3

LEMMA ClockMaxTwo ==
    ASSUME NEW a \in Nat, NEW b \in Nat
    PROVE  Clock!Max({a, b}) \in Nat /\ a <= Clock!Max({a, b}) /\ b <= Clock!Max({a, b})
           /\ Clock!Max({a, b}) \in {a, b}
<1>1. {a, b} \subseteq Nat /\ IsFiniteSet({a, b}) /\ {a, b} # {}
  <2>1. {a, b} = {a} \union {b} /\ IsFiniteSet({a})
    BY FS_Singleton
  <2>2. IsFiniteSet({a} \union {b})
    BY <2>1, FS_AddElement
  <2>. QED
    BY <2>1, <2>2
<1>. QED
  BY <1>1, ClockMax

\* A request that is waited for is told a time at which its calls are over.
ClockOK ==
    /\ Clock!TypeOK
    /\ cMaxlat # Refused =>
          IF cEtime = Refused THEN cDue <= cNow + cMaxlat ELSE cDue <= cEtime

LEMMA ClockRun ==
    ASSUME NEW p \in Clock!Pages, NEW n \in 1 .. MaxRun,
           Clock!Run(p, n) \subseteq Clock!Pages
    PROVE  /\ IsFiniteSet(Clock!Run(p, n)) /\ p \in Clock!Run(p, n)
           /\ \A q \in Clock!Run(p, n) : Clock!LunOf(q) \in Clock!Luns
<1>1. p \in Int /\ n \in Nat /\ n >= 1 /\ p + n - 1 \in Int
  BY ClockSizes DEF Clock!Pages
<1>2. ASSUME NEW q \in Clock!Pages PROVE Clock!LunOf(q) \in Clock!Luns
  <2>1. q \in Int
    BY DEF Clock!Pages
  <2>2. q % ClockChs \in 0 .. ClockChs - 1 /\ q \div ClockChs \in Int
    BY <2>1, ClockSizes
  <2>3. (q \div ClockChs) % ClockLuns \in 0 .. ClockLuns - 1
    BY <2>2, ClockSizes
  <2>. QED
    BY <2>2, <2>3, ClockLun DEF Clock!Luns
<1>. QED
  BY <1>1, <1>2, FS_Interval DEF Clock!Run

\* The LUNs after an operation are busy at least until it is over.
LEMMA AdvanceFacts ==
    ASSUME ClockOK, NEW S, IsFiniteSet(S), NEW c \in Nat
    PROVE  /\ Clock!Advance(S, c) \in [Clock!Luns -> Nat]
           /\ \A q \in S : Clock!LunOf(q) \in Clock!Luns =>
                 cNow <= Clock!Advance(S, c)[Clock!LunOf(q)]
<1>1. cNow \in Nat /\ cNextLunAvailTime \in [Clock!Luns -> Nat] /\ cLatOn \in BOOLEAN
  BY DEF ClockOK, Clock!TypeOK
<1> DEFINE On(l) == {q \in S : Clock!LunOf(q) = l}
<1>2. ASSUME NEW l \in Clock!Luns
      PROVE  /\ Clock!Cardinality(On(l)) \in Nat
             /\ Clock!Cardinality(On(l)) = 0 <=> On(l) = {}
  <2>1. IsFiniteSet(On(l))
    BY FS_Subset
  <2>2. Clock!Cardinality(On(l)) = Cardinality(On(l))
    BY DEF Clock!Cardinality, Cardinality
  <2>. QED
    BY <2>1, <2>2, FS_CardinalityType, FS_EmptySet
<1>3. ASSUME NEW l \in Clock!Luns, NEW k \in Nat
      PROVE  /\ Clock!ssd_advance_status(l, k, c) \in Nat
             /\ cNow <= Clock!ssd_advance_status(l, k, c)
  <2>1. Clock!Cost(c) \in Nat
    BY DEF Clock!Cost
  <2>2. k * Clock!Cost(c) \in Nat
    BY <2>1
  <2>3. PICK m : m = Clock!Max({cNextLunAvailTime[l], cNow})
    OBVIOUS
  <2>4. m \in Nat /\ cNow <= m
    BY <1>1, <2>3, ClockMaxTwo
  <2>. QED
    BY <1>1, <2>2, <2>3, <2>4 DEF Clock!ssd_advance_status
<1>. HIDE DEF On
<1>4. Clock!Advance(S, c) =
        [l \in Clock!Luns |-> IF Clock!Cardinality(On(l)) = 0 THEN cNextLunAvailTime[l]
                              ELSE Clock!ssd_advance_status(l, Clock!Cardinality(On(l)), c)]
  BY DEF Clock!Advance, On
<1>5. Clock!Advance(S, c) \in [Clock!Luns -> Nat]
  BY <1>1, <1>2, <1>3, <1>4
<1>6. ASSUME NEW q \in S, Clock!LunOf(q) \in Clock!Luns
      PROVE  cNow <= Clock!Advance(S, c)[Clock!LunOf(q)]
  <2>1. PICK l \in Clock!Luns : l = Clock!LunOf(q)
    BY <1>6
  <2>2. On(l) # {}
    BY <2>1 DEF On
  <2>. QED
    BY <1>2, <1>3, <1>4, <2>1, <2>2
<1>. QED
  BY <1>5, <1>6

LEMMA EndFacts ==
    ASSUME NEW S, IsFiniteSet(S), S # {}, NEW avail \in [Clock!Luns -> Nat],
           \A q \in S : Clock!LunOf(q) \in Clock!Luns,
           \A q \in S : cNow <= avail[Clock!LunOf(q)], cNow \in Nat
    PROVE  Clock!EndOf(avail, S) \in Nat /\ cNow <= Clock!EndOf(avail, S)
<1> DEFINE f == [q \in S |-> avail[Clock!LunOf(q)]]
           E == {f[q] : q \in S}
<1>1. E = {avail[Clock!LunOf(q)] : q \in S} /\ DOMAIN f = S
  OBVIOUS
<1>2. E \subseteq Nat /\ E # {} /\ \A e \in E : cNow <= e
  OBVIOUS
<1>. HIDE DEF f
<1>3. IsFiniteSet(E)
  BY <1>1, FiniteImage
<1>. HIDE DEF E
<1>4. Clock!Max(E) \in E
  BY <1>2, <1>3, ClockMax
<1>. QED
  BY <1>1, <1>2, <1>4 DEF Clock!EndOf

\* A call that served its run, or was given up, keeps what callers are told.
LEMMA CalledKeeps ==
    ASSUME ClockOK, NEW S, IsFiniteSet(S), S # {}, NEW done \in SUBSET S, NEW c \in Nat,
           \A q \in S : Clock!LunOf(q) \in Clock!Luns,
           Clock!Called(Clock!Advance(done, c), done, S),
           cPpaState' \in [Clock!Pages -> BOOLEAN], cLineWp' \in [Clock!Lines -> Nat]
    PROVE  ClockOK'
<1>1. /\ cNow \in Nat /\ cMaxlat \in Nat \union {Refused} /\ cDue \in Nat
      /\ cEtime \in Int \union {Refused}
      /\ cMaxlat # Refused =>
            IF cEtime = Refused THEN cDue <= cNow + cMaxlat ELSE cDue <= cEtime
  BY DEF ClockOK, Clock!TypeOK
<1>2. PICK avail : avail = Clock!Advance(done, c)
  OBVIOUS
<1>3. /\ IsFiniteSet(done) /\ avail \in [Clock!Luns -> Nat]
      /\ \A q \in done : cNow <= avail[Clock!LunOf(q)]
  <2>1. IsFiniteSet(done)
    BY FS_Subset
  <2>. QED
    BY <1>2, <2>1, AdvanceFacts
<1>4. done # {} => Clock!EndOf(avail, done) \in Nat /\ cNow <= Clock!EndOf(avail, done)
  BY <1>1, <1>3, EndFacts
<1>5. PICK e : e = IF done = {} THEN 0 ELSE Clock!EndOf(avail, done)
  OBVIOUS
<1>6. e \in Nat
  BY <1>4, <1>5
<1>7. /\ cNextLunAvailTime' = avail /\ UNCHANGED <<cNow, cLatOn>>
      /\ \/ /\ cMaxlat' = Clock!Longer(Clock!Waited[1],
                              IF done = S THEN Clock!Latency(avail, S) ELSE Refused)
            /\ cDue' = Clock!Max({Clock!Waited[2], e})
            /\ cEtime' = Refused
         \/ UNCHANGED <<cMaxlat, cDue, cEtime>>
  BY <1>2, <1>5 DEF Clock!Called
<1>8. CASE /\ cMaxlat' = Clock!Longer(Clock!Waited[1],
                              IF done = S THEN Clock!Latency(avail, S) ELSE Refused)
           /\ cDue' = Clock!Max({Clock!Waited[2], e})
           /\ cEtime' = Refused
  <2>1. PICK w, v : w = Clock!Waited[1] /\ v = Clock!Waited[2]
    OBVIOUS
  <2>2. w \in Nat \union {Refused} /\ v \in Nat /\ (w # Refused => v <= cNow + w)
    BY <1>1, <2>1, ClockSizes DEF Clock!Waited
  <2>3. cDue' = Clock!Max({v, e}) /\ cDue' \in Nat /\ cDue' \in {v, e}
    BY <1>6, <1>8, <2>1, <2>2, ClockMaxTwo
  <2>4. CASE done = S /\ w # Refused
    <3>1. PICK x : x = Clock!Latency(avail, S)
      OBVIOUS
    <3>2. x = e - cNow /\ x \in Nat /\ e = cNow + x
      BY <1>1, <1>4, <1>5, <1>6, <2>4, <3>1 DEF Clock!Latency
    <3>3. x # Refused /\ w \in Nat
      BY <2>2, <2>4, <3>2, ClockSizes
    <3>4. cMaxlat' = Clock!Max({w, x})
      BY <1>8, <2>1, <2>4, <3>1, <3>3 DEF Clock!Longer
    <3>5. cMaxlat' \in Nat /\ w <= cMaxlat' /\ x <= cMaxlat'
      BY <3>2, <3>3, <3>4, ClockMaxTwo
    <3>6. cDue' <= cNow + cMaxlat'
      BY <1>1, <1>6, <2>2, <2>3, <2>4, <3>2, <3>3, <3>5
    <3>. QED
      BY <1>3, <1>7, <1>8, <2>3, <3>5, <3>6 DEF ClockOK, Clock!TypeOK
  <2>5. CASE ~(done = S /\ w # Refused)
    <3>1. cMaxlat' = Refused
      BY <1>8, <2>1, <2>5 DEF Clock!Longer
    <3>. QED
      BY <1>3, <1>7, <1>8, <2>3, <3>1 DEF ClockOK, Clock!TypeOK
  <2>. QED
    BY <2>4, <2>5
<1>9. CASE UNCHANGED <<cMaxlat, cDue, cEtime>>
  BY <1>1, <1>3, <1>7, <1>9 DEF ClockOK, Clock!TypeOK
<1>. QED
  BY <1>7, <1>8, <1>9

LEMMA PagesInType ==
    ASSUME NEW S, IsFiniteSet(S), NEW b
    PROVE  Clock!PagesIn(S, b) \in Nat
<1> DEFINE T == {q \in S : Clock!LINE_IDX(q) = b}
<1>1. IsFiniteSet(T)
  BY FS_Subset
<1>2. Clock!Cardinality(T) = Cardinality(T)
  BY DEF Clock!Cardinality, Cardinality
<1>3. Cardinality(T) \in Nat
  BY <1>1, FS_CardinalityType
<1>. QED
  BY <1>2, <1>3 DEF Clock!PagesIn

LEMMA ClockKeeps ==
    ASSUME ClockOK, Clock!Next
    PROVE  ClockOK'
<1>1. /\ cNow \in 0 .. MaxNow /\ cNow \in Nat /\ cLatOn \in BOOLEAN
      /\ cNextLunAvailTime \in [Clock!Luns -> Nat]
      /\ cPpaState \in [Clock!Pages -> BOOLEAN] /\ cLineWp \in [Clock!Lines -> Nat]
      /\ cMaxlat \in Nat \union {Refused} /\ cDue \in Nat
      /\ cEtime \in Int \union {Refused}
      /\ cMaxlat # Refused =>
            IF cEtime = Refused THEN cDue <= cNow + cMaxlat ELSE cDue <= cEtime
  BY DEF ClockOK, Clock!TypeOK
<1>2. CASE \E p \in Clock!Pages, n \in 1 .. MaxRun : Clock!ssd_write_ppa(p, n)
  <2>1. PICK p \in Clock!Pages, n \in 1 .. MaxRun : Clock!ssd_write_ppa(p, n)
    BY <1>2
  <2>2. PICK S, done : /\ S = Clock!Run(p, n)
                       /\ done = Clock!Before(S, {q \in S : ~Clock!NextInLine(p, q)})
    OBVIOUS
  <2>3. /\ S \subseteq Clock!Pages
        /\ cPpaState' = [q \in Clock!Pages |-> cPpaState[q] \/ q \in done]
        /\ cLineWp' = [b \in Clock!Lines |-> cLineWp[b] + Clock!PagesIn(done, b)]
        /\ Clock!Called(Clock!Advance(done, NAND_WRITE), done, S)
    BY <2>1, <2>2 DEF Clock!ssd_write_ppa
  <2>4. /\ IsFiniteSet(S) /\ S # {}
        /\ \A q \in S : Clock!LunOf(q) \in Clock!Luns
    BY <2>2, <2>3, ClockRun
  <2>5. done \subseteq S /\ IsFiniteSet(done)
    <3>1. done \subseteq S
      BY <2>2 DEF Clock!Before
    <3>. QED
      BY <2>4, <3>1, FS_Subset
  <2>6. cLineWp' \in [Clock!Lines -> Nat]
    BY <1>1, <2>3, <2>5, PagesInType
  <2>7. cPpaState' \in [Clock!Pages -> BOOLEAN]
    BY <1>1, <2>3
  <2>. QED
    BY <2>3, <2>4, <2>5, <2>6, <2>7, ClockSizes, CalledKeeps
<1>3. CASE \E p \in Clock!Pages, n \in 1 .. MaxRun : Clock!ssd_read_ppa(p, n)
  <2>1. PICK p \in Clock!Pages, n \in 1 .. MaxRun : Clock!ssd_read_ppa(p, n)
    BY <1>3
  <2>2. PICK S, done : /\ S = Clock!Run(p, n)
                       /\ done = Clock!Before(S, {q \in S : ~cPpaState[q]})
    OBVIOUS
  <2>3. /\ S \subseteq Clock!Pages
        /\ UNCHANGED <<cPpaState, cLineWp>>
        /\ Clock!Called(Clock!Advance(done, NAND_READ), done, S)
    BY <2>1, <2>2 DEF Clock!ssd_read_ppa
  <2>4. /\ IsFiniteSet(S) /\ S # {}
        /\ \A q \in S : Clock!LunOf(q) \in Clock!Luns
    BY <2>2, <2>3, ClockRun
  <2>5. done \subseteq S
    BY <2>2 DEF Clock!Before
  <2>6. /\ cPpaState' \in [Clock!Pages -> BOOLEAN] /\ cLineWp' \in [Clock!Lines -> Nat]
    BY <1>1, <2>3
  <2>. QED
    BY <2>3, <2>4, <2>5, <2>6, ClockSizes, CalledKeeps
<1>4. CASE \E p \in Clock!Pages : Clock!ssd_trim_block(p)
  <2>1. PICK p \in Clock!Pages : Clock!ssd_trim_block(p)
    BY <1>4
  <2>2. IsFiniteSet(Clock!OnePerLun(p))
    BY ClockSizes, FS_Interval DEF Clock!OnePerLun, Clock!Run, Clock!Pages
  <2>3. cNextLunAvailTime' \in [Clock!Luns -> Nat]
    BY <2>1, <2>2, AdvanceFacts, ClockSizes DEF Clock!ssd_trim_block
  <2>4. cLineWp' \in [Clock!Lines -> Nat]
    BY <1>1, <2>1 DEF Clock!ssd_trim_block, Clock!Rewind
  <2>5. cPpaState' \in [Clock!Pages -> BOOLEAN]
    BY <1>1, <2>1 DEF Clock!ssd_trim_block
  <2>. QED
    BY <1>1, <2>1, <2>3, <2>4, <2>5 DEF Clock!ssd_trim_block, ClockOK, Clock!TypeOK
<1>5. CASE Clock!toggle_ssd_lat
  BY <1>1, <1>5 DEF Clock!toggle_ssd_lat, ClockOK, Clock!TypeOK
<1>6. CASE Clock!SetEtime
  <2>1. cEtime = Refused /\ cEtime' = Clock!Etime
        /\ UNCHANGED <<cNow, cMaxlat, cDue, cLatOn, cNextLunAvailTime, cPpaState, cLineWp>>
    BY <1>6 DEF Clock!SetEtime, Clock!nand_vars
  <2>2. cEtime' \in Int /\ (cMaxlat # Refused => cDue <= cEtime')
    BY <1>1, <2>1 DEF Clock!Etime
  <2>3. cEtime' # Refused
    BY <2>2, ClockSizes
  <2>. QED
    BY <1>1, <2>1, <2>2, <2>3 DEF ClockOK, Clock!TypeOK
<1>7. CASE Clock!Tick
  <2>1. cNow' = cNow + 1 /\ cNow' \in 0 .. MaxNow
        /\ UNCHANGED <<cMaxlat, cDue, cEtime, cLatOn, cNextLunAvailTime, cPpaState, cLineWp>>
    BY <1>1, <1>7, ClockSizes DEF Clock!Tick, Clock!nand_vars
  <2>2. ASSUME cMaxlat # Refused, cEtime = Refused PROVE cDue <= cNow + 1 + cMaxlat
    BY <1>1, <2>2
  <2>. QED
    BY <1>1, <2>1, <2>2 DEF ClockOK, Clock!TypeOK
<1>. QED
  BY <1>2, <1>3, <1>4, <1>5, <1>6, <1>7 DEF Clock!Next

LEMMA ClockStart == Clock!Init => ClockOK
<1>. SUFFICES ASSUME Clock!Init PROVE ClockOK
  OBVIOUS
<1>1. 0 \in 0 .. MaxNow
  BY ClockSizes
<1>. QED
  BY <1>1 DEF Clock!Init, ClockOK, Clock!TypeOK

LEMMA ClockTells == ClockOK => Clock!TypeOK /\ Clock!DueAfterNand
<1>. SUFFICES ASSUME ClockOK PROVE Clock!TypeOK /\ Clock!DueAfterNand
  OBVIOUS
<1>1. /\ Clock!TypeOK /\ cEtime \in Int \union {Refused} /\ cDue \in Nat
      /\ cMaxlat # Refused =>
            IF cEtime = Refused THEN cDue <= cNow + cMaxlat ELSE cDue <= cEtime
  BY DEF ClockOK, Clock!TypeOK
<1>. QED
  BY <1>1 DEF Clock!DueAfterNand

-----------------------------------------------------------------------------
(* The lines of the NAND. *)

LEMMA LineSizes ==
    /\ nchs \in Nat \ {0} /\ luns_per_ch \in Nat \ {0} /\ pgs_per_blk \in Nat \ {0}
    /\ pls_per_lun \in Nat \ {0} /\ blks_per_pl \in Nat \ {0}
    /\ Lines!tt_lines \in Nat \ {0} /\ LineRun \in Nat
    /\ Lines!tt_lines = blks_per_pl * pls_per_lun
    /\ Lines!tt_luns \in Nat \ {0} /\ Lines!tt_luns = nchs * luns_per_ch
    /\ Lines!pgs_per_line \in Nat \ {0}
    /\ Lines!pgs_per_line = Lines!tt_luns * pgs_per_blk
<1>1. /\ nchs \in Nat \ {0} /\ luns_per_ch \in Nat \ {0} /\ pgs_per_blk \in Nat \ {0}
      /\ pls_per_lun \in Nat \ {0} /\ blks_per_pl \in Nat \ {0} /\ LineRun \in Nat
  BY PartsAssumption DEF Lines!NandAssumption
<1>2. \A a, b \in Nat \ {0} : a * b \in Nat \ {0}
  OBVIOUS
<1>. QED
  BY <1>1, <1>2 DEF Lines!tt_luns, Lines!pgs_per_line, Lines!tt_lines

\* A page is in its line, at its place there.
LEMMA LineFacts ==
    ASSUME NEW x \in Lines!Pages
    PROVE  /\ x \in Nat /\ Lines!LINE_IDX(x) \in Lines!Lines
           /\ x % Lines!pgs_per_line \in 0 .. Lines!pgs_per_line - 1
           /\ x = Lines!pgs_per_line * Lines!LINE_IDX(x) + (x % Lines!pgs_per_line)
<1> PICK n, q, r : n = Lines!pgs_per_line /\ q = x \div n /\ r = x % n
  OBVIOUS
<1>1. x \in Nat /\ n \in Nat \ {0} /\ x < n * Lines!tt_lines /\ Lines!tt_lines \in Nat
  BY LineSizes DEF Lines!Pages
<1>2. q \in Int /\ r \in 0 .. n - 1 /\ x = n * q + r
  BY <1>1, Division
<1>3. q >= 0
  <2>1. SUFFICES ASSUME q < 0 PROVE FALSE
    BY <1>2
  <2>2. PICK i : i = -q - 1
    OBVIOUS
  <2>3. i \in Nat /\ n * q = -(n * i) - n
    BY <1>1, <1>2, <2>1, <2>2
  <2>4. n * i \in Nat
    BY <1>1, <2>3
  <2>. QED
    BY <1>1, <1>2, <2>3, <2>4
<1>4. q < Lines!tt_lines
  <2>1. SUFFICES ASSUME q >= Lines!tt_lines PROVE FALSE
    BY <1>1, <1>2
  <2>2. PICK i : i = q - Lines!tt_lines
    OBVIOUS
  <2>3. i \in Nat /\ n * q = n * Lines!tt_lines + n * i
    BY <1>1, <1>2, <2>1, <2>2
  <2>4. n * i \in Nat
    BY <1>1, <2>3
  <2>. QED
    BY <1>1, <1>2, <2>3, <2>4
<1>. QED
  BY <1>1, <1>2, <1>3, <1>4 DEF Lines!LINE_IDX, Lines!Lines

LEMMA LineOf ==
    ASSUME NEW b \in Lines!Lines, NEW r \in 0 .. Lines!pgs_per_line - 1,
           NEW x, x = Lines!pgs_per_line * b + r
    PROVE  x \in Lines!Pages /\ Lines!LINE_IDX(x) = b /\ x % Lines!pgs_per_line = r
<1> PICK n : n = Lines!pgs_per_line
  OBVIOUS
<1>1. /\ n \in Nat \ {0} /\ b \in Nat /\ r \in Nat /\ r < n /\ Lines!tt_lines \in Nat
      /\ b < Lines!tt_lines
  BY LineSizes DEF Lines!Lines
<1>2. x % n = r /\ x \div n = b
  BY <1>1, DivisionUnique
<1>3. x \in Nat /\ x < n * Lines!tt_lines
  <2>1. PICK i : i = Lines!tt_lines - 1 - b
    OBVIOUS
  <2>2. i \in Nat /\ n * Lines!tt_lines = n * b + n + n * i /\ n * b \in Nat /\ n * i \in Nat
    BY <1>1, <2>1
  <2>. QED
    BY <1>1, <2>2
<1>. QED
  BY <1>1, <1>2, <1>3, LineSizes DEF Lines!Pages, Lines!LINE_IDX

\* The LUN of a page is given by its number modulo the LUNs.
Rank(l) == nchs * l[2] + l[1]

LEMMA LunIs ==
    ASSUME NEW x
    PROVE  Lines!LunOf(x) = <<x % nchs, (x \div nchs) % luns_per_ch>>
BY DEF Lines!LunOf, Lines!pgidx2ppa

LEMMA LunFacts ==
    ASSUME NEW x \in Nat
    PROVE  /\ Lines!LunOf(x) \in Lines!Luns
           /\ x % Lines!tt_luns = Rank(Lines!LunOf(x))
<1>a. PICK q, r : r = x % nchs /\ q = x \div nchs
  OBVIOUS
<1>b. PICK s, t : s = q % luns_per_ch /\ t = q \div luns_per_ch
  OBVIOUS
<1>1. nchs \in Nat \ {0} /\ luns_per_ch \in Nat \ {0} /\ x \in Int
  BY LineSizes
<1>2. r \in 0 .. nchs - 1 /\ q \in Int /\ x = nchs * q + r
  BY <1>1, <1>a, Division
<1>3. s \in 0 .. luns_per_ch - 1 /\ t \in Int /\ q = luns_per_ch * t + s
  BY <1>1, <1>2, <1>b, Division
<1>4. Lines!LunOf(x) = <<r, s>> /\ <<r, s>> \in Lines!Luns
  BY <1>2, <1>3, <1>a, <1>b, LunIs DEF Lines!Luns
<1>5. PICK n, k : n = nchs * luns_per_ch /\ k = nchs * s + r
  OBVIOUS
<1>6. x = n * t + k
  <2>1. nchs * (luns_per_ch * t + s) = (nchs * luns_per_ch) * t + nchs * s
    BY <1>1, <1>3
  <2>2. nchs * q = n * t + nchs * s
    BY <1>3, <1>5, <2>1
  <2>3. n * t \in Int /\ nchs * s \in Int /\ r \in Int
    BY <1>1, <1>2, <1>3, <1>5
  <2>. QED
    BY <1>2, <1>5, <2>2, <2>3
<1>7. n \in Nat \ {0} /\ k \in 0 .. n - 1
  <2>1. PICK i : i = luns_per_ch - 1 - s
    OBVIOUS
  <2>2. i \in Nat /\ n = nchs * s + nchs + nchs * i /\ nchs * i \in Nat /\ nchs * s \in Nat
    BY <1>1, <1>3, <1>5, <2>1
  <2>. QED
    BY <1>1, <1>2, <1>5, <2>2
<1>8. x % n = k
  BY <1>3, <1>6, <1>7, DivisionUnique
<1>. QED
  BY <1>4, <1>5, <1>8, LineSizes DEF Rank

LEMMA RankFacts ==
    ASSUME NEW l \in Lines!Luns
    PROVE  /\ Rank(l) \in 0 .. Lines!tt_luns - 1
           /\ \A m \in Lines!Luns : Rank(l) = Rank(m) => l = m
<1>1. nchs \in Nat \ {0} /\ luns_per_ch \in Nat \ {0}
  BY LineSizes
<1>2. \A m \in Lines!Luns : /\ m = <<m[1], m[2]>> /\ m[1] \in 0 .. nchs - 1
                            /\ m[2] \in 0 .. luns_per_ch - 1
  BY DEF Lines!Luns
<1>3. \A m \in Lines!Luns : Rank(m) % nchs = m[1] /\ Rank(m) \div nchs = m[2]
  BY <1>1, <1>2, DivisionUnique DEF Rank
<1>4. Rank(l) \in 0 .. Lines!tt_luns - 1
  <2>1. PICK i, s, r : i = luns_per_ch - 1 - l[2] /\ s = l[2] /\ r = l[1]
    OBVIOUS
  <2>2. s \in Nat /\ r \in Nat /\ r < nchs /\ i \in Nat /\ luns_per_ch = s + 1 + i
    BY <1>1, <1>2, <2>1
  <2>3. /\ nchs * luns_per_ch = nchs * s + nchs + nchs * i
        /\ nchs * i \in Nat /\ nchs * s \in Nat
    BY <1>1, <2>2
  <2>4. Rank(l) = nchs * s + r /\ Lines!tt_luns = nchs * luns_per_ch
    BY <2>1, LineSizes DEF Rank
  <2>. QED
    BY <1>1, <2>2, <2>3, <2>4
<1>. QED
  BY <1>2, <1>3, <1>4

\* What the lines keep: the states of the pages agree with the write pointers.
LinesOK ==
    /\ nPpaState \in [Lines!Pages -> BOOLEAN] /\ nLineWp \in [Lines!Lines -> Nat]
    /\ Lines!LinesAgree

LEMMA LineMax ==
    ASSUME NEW S, S \subseteq Nat, IsFiniteSet(S), S # {}
    PROVE  /\ Lines!Max(S) \in S /\ Lines!Max(S) \in Nat
           /\ \A n \in S : n <= Lines!Max(S)
<1>1. PICK m \in S : \A n \in S : n <= m
  BY FiniteGreatest
<1>2. \A n \in S : m >= n
  BY <1>1
<1>3. Lines!Max(S) \in S /\ \A n \in S : Lines!Max(S) >= n
  BY <1>2 DEF Lines!Max
<1>. QED
  BY <1>3

LEMMA LineMaxTwo ==
    ASSUME NEW a \in Nat, NEW b \in Nat
    PROVE  Lines!Max({a, b}) = IF a <= b THEN b ELSE a
<1>1. {a, b} \subseteq Nat /\ IsFiniteSet({a, b}) /\ {a, b} # {}
  <2>1. {a, b} = {a} \union {b} /\ IsFiniteSet({a})
    BY FS_Singleton
  <2>2. IsFiniteSet({a} \union {b})
    BY <2>1, FS_AddElement
  <2>. QED
    BY <2>1, <2>2
<1>2. PICK m : m = Lines!Max({a, b})
  OBVIOUS
<1>3. m \in {a, b} /\ \A n \in {a, b} : n <= m
  BY <1>1, <1>2, LineMax
<1>. QED
  BY <1>2, <1>3

\* The k pages of done that are in line b are its next ones.
FillsOn(b, k, done) ==
    /\ k \in Nat /\ nLineWp[b] + k <= Lines!pgs_per_line
    /\ \A x \in Lines!Pages : Lines!LINE_IDX(x) = b =>
           (x % Lines!pgs_per_line < nLineWp[b] + k
               <=> x % Lines!pgs_per_line < nLineWp[b] \/ x \in done)

\* So is what a run that was written up to its first bad page adds to a line.
LEMMA WrittenOf ==
    ASSUME LinesOK, NEW p \in Lines!Pages, NEW n \in Nat, NEW b \in Lines!Lines,
           NEW S, S = Lines!Run(p, n), S \subseteq Lines!Pages,
           NEW done, done = Lines!Before(S, {q \in S : ~Lines!NextInLine(p, q)})
    PROVE  FillsOn(b, Lines!PagesIn(done, b), done)
<1>0. PICK D, k, w, N : /\ D = {q \in done : Lines!LINE_IDX(q) = b}
                        /\ k = Lines!PagesIn(done, b) /\ w = nLineWp[b]
                        /\ N = Lines!pgs_per_line
  OBVIOUS
<1>a. SUFFICES /\ k \in Nat /\ w + k <= N
               /\ \A x \in Lines!Pages : Lines!LINE_IDX(x) = b =>
                      (x % N < w + k <=> x % N < w \/ x \in done)
  BY <1>0, <1>a DEF FillsOn
<1>1. /\ w \in Nat /\ w <= N /\ b \in Nat /\ N \in Nat \ {0}
  BY <1>0, LineSizes DEF LinesOK, Lines!LinesAgree, Lines!Lines
<1>2. k = Cardinality(D)
  BY <1>0 DEF Lines!PagesIn, Lines!Cardinality, Cardinality
<1>3. p \in Nat /\ p + n - 1 \in Int /\ S = p .. p + n - 1
  BY LineFacts DEF Lines!Run
<1>4. done \subseteq S /\ \A q \in done : Lines!NextInLine(p, q)
  BY <1>3 DEF Lines!Before
<1>5. \A q \in done, r \in S : r <= q => r \in done
  BY <1>3 DEF Lines!Before
<1>6. CASE D = {}
  <2>1. k = 0
    BY <1>2, <1>6, FS_EmptySet
  <2>2. \A x \in Lines!Pages : Lines!LINE_IDX(x) = b => x \notin done
    BY <1>0, <1>6
  <2>3. w + k = w /\ k \in Nat /\ w + k <= N
    BY <1>1, <2>1
  <2>. QED
    BY <2>2, <2>3
<1>7. CASE D # {}
  <2>1. D \subseteq Nat /\ IsFiniteSet(D)
    <3>1. IsFiniteSet(S)
      BY <1>3, FS_Interval
    <3>2. D \subseteq S /\ S \subseteq Nat
      BY <1>0, <1>3, <1>4
    <3>. QED
      BY <3>1, <3>2, FS_Subset
  <2>2. PICK m \in D : \A q \in D : q <= m
    BY <1>7, <2>1, FiniteGreatest
  <2>3. m \in done /\ m \in S /\ m \in Nat /\ m \in Lines!Pages /\ Lines!LINE_IDX(m) = b
    BY <1>0, <1>3, <1>4, <2>2
  <2>4. PICK f, s : f = b * N /\ s = IF p <= f THEN f ELSE p
    OBVIOUS
  <2>5. f \in Nat /\ s \in Nat /\ f <= s /\ p <= s
    BY <1>1, <1>3, <2>4
  <2>6. s = Lines!Max({p, f})
    BY <1>3, <2>4, <2>5, LineMaxTwo
  <2>7. w + (m - s) = m - f
    BY <1>0, <1>4, <2>3, <2>4, <2>6 DEF Lines!NextInLine
  <2>8. w = s - f
    BY <1>1, <2>3, <2>5, <2>7
  <2>9. ASSUME NEW x \in Lines!Pages, Lines!LINE_IDX(x) = b
        PROVE  x \in Nat /\ x % N \in 0 .. N - 1 /\ x = f + (x % N)
    <3>1. x \in Nat /\ x % N \in 0 .. N - 1 /\ x = N * b + (x % N)
      BY <1>0, <2>9, LineFacts
    <3>. QED
      BY <1>1, <2>4, <3>1
  <2>10. m < f + N /\ f <= m /\ s <= m
    <3>1. m \in Nat /\ m % N \in 0 .. N - 1 /\ m = f + (m % N)
      BY <2>3, <2>9
    <3>2. p <= m
      BY <1>3, <2>3
    <3>. QED
      BY <1>1, <1>3, <2>4, <2>5, <3>1, <3>2
  <2>11. D = s .. m
    <3>1. ASSUME NEW q \in D PROVE q \in s .. m
      <4>1. q \in S /\ q \in Lines!Pages /\ Lines!LINE_IDX(q) = b /\ q <= m
        BY <1>0, <1>4, <2>2
      <4>2. q \in Nat /\ f <= q /\ p <= q
        BY <1>3, <2>5, <2>9, <4>1
      <4>. QED
        BY <2>3, <2>4, <2>5, <4>1, <4>2
    <3>2. ASSUME NEW q \in s .. m PROVE q \in D
      <4>1. q \in S /\ q <= m /\ q \in Nat
        BY <1>3, <2>3, <2>5
      <4>2. q \in done
        BY <1>5, <2>3, <4>1
      <4>3. q - f \in 0 .. N - 1 /\ q = N * b + (q - f)
        BY <1>1, <2>4, <2>5, <2>10, <2>3
      <4>4. Lines!LINE_IDX(q) = b
        BY <1>0, <4>3, LineOf
      <4>. QED
        BY <1>0, <4>2, <4>4
    <3>. QED
      BY <3>1, <3>2
  <2>12. k = m - s + 1
    <3>1. s \in Int /\ m \in Int /\ ~ s > m
      BY <2>3, <2>5, <2>10
    <3>2. Cardinality(s .. m) = m - s + 1
      BY <3>1, FS_Interval
    <3>. QED
      BY <1>2, <2>11, <3>2
  <2>13. w + k = m - f + 1
    BY <2>3, <2>5, <2>8, <2>12
  <2>14. ASSUME NEW x \in Lines!Pages, Lines!LINE_IDX(x) = b
         PROVE  x % N < w + k <=> x % N < w \/ x \in done
    <3>1. x \in Nat /\ x % N \in 0 .. N - 1 /\ x = f + (x % N)
      BY <2>9, <2>14
    <3>2. x \in done <=> x \in s .. m
      BY <1>0, <2>11, <2>14
    <3>3. PICK r : r = x % N
      OBVIOUS
    <3>4. r \in Nat /\ x = f + r /\ (r < w + k <=> r < m - f + 1) /\ (r < w <=> r < s - f)
      BY <2>8, <2>13, <3>1, <3>3
    <3>5. r < w + k <=> r < w \/ x \in s .. m
      BY <2>3, <2>5, <2>10, <3>4
    <3>. QED
      BY <3>2, <3>3, <3>5
  <2>. QED
    BY <1>1, <2>3, <2>5, <2>10, <2>12, <2>13, <2>14
<1>. QED
  BY <1>6, <1>7

\* A number below a product, divided by one factor, is below the other.
LEMMA QuotientBelow ==
    ASSUME NEW a \in Nat \ {0}, NEW m \in Nat, NEW x \in 0 .. a * m - 1
    PROVE  x \div a \in 0 .. m - 1
<1>1. PICK d : d = x \div a
  OBVIOUS
<1>2. a * m \in Nat
  OBVIOUS
<1>3. x \in Nat /\ x < a * m
  BY <1>2
<1>4. x % a \in 0 .. a - 1 /\ d \in Int /\ x = a * d + (x % a)
  BY <1>1, <1>3, Division
<1>5. PICK r : r = x % a
  OBVIOUS
<1>6. r \in 0 .. a - 1 /\ x = a * d + r
  BY <1>4, <1>5
<1>7. ~ d < 0
  <2>1. SUFFICES ASSUME d < 0 PROVE FALSE
    OBVIOUS
  <2>2. PICK i : i = -d - 1
    OBVIOUS
  <2>3. i \in Nat /\ a * d = -(a * i) - a /\ a * i \in Nat
    BY <1>4, <2>1, <2>2
  <2>. QED
    BY <1>3, <1>6, <2>3
<1>8. ~ d >= m
  <2>1. SUFFICES ASSUME d >= m PROVE FALSE
    OBVIOUS
  <2>2. PICK i : i = d - m
    OBVIOUS
  <2>3. i \in Nat /\ a * d = a * m + a * i /\ a * i \in Nat
    BY <1>4, <2>1, <2>2
  <2>. QED
    BY <1>2, <1>3, <1>6, <2>3
<1>. QED
  BY <1>1, <1>4, <1>7, <1>8

LEMMA SameDivision ==
    ASSUME NEW a \in Nat \ {0}, NEW x \in Int, NEW y \in Int,
           x % a = y % a, x \div a = y \div a
    PROVE  x = y
BY Division

\* No two pages have one address.
LEMMA AddressesApart ==
    ASSUME NEW x \in Lines!Pages, NEW y \in Lines!Pages,
           Lines!pgidx2ppa(x) = Lines!pgidx2ppa(y)
    PROVE  x = y
<1>1. PICK A, L, P, B, G : /\ A = nchs /\ L = luns_per_ch /\ P = pls_per_lun
                           /\ B = blks_per_pl /\ G = pgs_per_blk
  OBVIOUS
<1>2. {A, L, P, B, G} \subseteq Nat \ {0}
  BY <1>1, LineSizes
<1>3. PICK n2, n3, n4 : n4 = B * G /\ n3 = P * n4 /\ n2 = L * n3
  OBVIOUS
<1>4. n4 \in Nat /\ n3 \in Nat /\ n2 \in Nat
  <2>1. \A a, b \in Nat : a * b \in Nat
    OBVIOUS
  <2>. QED
    BY <1>2, <1>3, <2>1
<1>5. Lines!Pages = 0 .. A * n2 - 1
  <2>1. A * (L * (P * (B * G))) = ((A * L) * G) * (B * P)
    BY <1>2
  <2>2. Lines!pgs_per_line * Lines!tt_lines = ((A * L) * G) * (B * P)
    BY <1>1, LineSizes
  <2>. QED
    BY <1>3, <2>1, <2>2 DEF Lines!Pages
<1> DEFINE d1(z) == z \div A
           d2(z) == d1(z) \div L
           d3(z) == d2(z) \div P
           d4(z) == d3(z) \div B
<1>6. ASSUME NEW z \in Lines!Pages
      PROVE  /\ z \in Int /\ d1(z) \in Int /\ d2(z) \in Int /\ d3(z) \in Int
             /\ d4(z) \in 0 .. G - 1
             /\ Lines!pgidx2ppa(z) = [ch |-> z % A, lun |-> d1(z) % L, pl |-> d2(z) % P,
                                      blk |-> d3(z) % B, pg |-> d4(z) % G]
  <2>1. d1(z) \in 0 .. n2 - 1
    BY <1>2, <1>4, <1>5, QuotientBelow
  <2>2. d2(z) \in 0 .. n3 - 1
    <3>. HIDE DEF d1
    <3>. QED
      BY <1>2, <1>3, <1>4, <2>1, QuotientBelow
  <2>3. d3(z) \in 0 .. n4 - 1
    <3>. HIDE DEF d2
    <3>. QED
      BY <1>2, <1>3, <1>4, <2>2, QuotientBelow
  <2>4. d4(z) \in 0 .. G - 1
    <3>. HIDE DEF d3
    <3>. QED
      BY <1>2, <1>3, <1>4, <2>3, QuotientBelow
  <2>5. Lines!pgidx2ppa(z) = [ch |-> z % A, lun |-> d1(z) % L, pl |-> d2(z) % P,
                              blk |-> d3(z) % B, pg |-> d4(z) % G]
    BY <1>1 DEF Lines!pgidx2ppa
  <2>6. z \in Int
    BY <1>4, <1>5
  <2>. HIDE DEF d1, d2, d3, d4
  <2>. QED
    BY <2>1, <2>2, <2>3, <2>4, <2>5, <2>6
<1>7. /\ x % A = y % A /\ d1(x) % L = d1(y) % L /\ d2(x) % P = d2(y) % P
      /\ d3(x) % B = d3(y) % B /\ d4(x) % G = d4(y) % G
  <2>. HIDE DEF d1, d2, d3, d4
  <2>. QED
    BY <1>6
<1>8. d4(x) = d4(y)
  <2>1. ASSUME NEW g \in 0 .. G - 1 PROVE g % G = g
    BY <1>2
  <2>. HIDE DEF d4
  <2>. QED
    BY <1>6, <1>7, <2>1
<1>9. d3(x) = d3(y)
  <2>. HIDE DEF d3
  <2>. QED
    BY <1>2, <1>6, <1>7, <1>8, SameDivision
<1>10. d2(x) = d2(y)
  <2>. HIDE DEF d2
  <2>. QED
    BY <1>2, <1>6, <1>7, <1>9, SameDivision
<1>11. d1(x) = d1(y)
  <2>. HIDE DEF d1
  <2>. QED
    BY <1>2, <1>6, <1>7, <1>10, SameDivision
<1>. QED
  BY <1>2, <1>6, <1>7, <1>11, SameDivision

LEMMA LinesKeep ==
    ASSUME LinesOK, Lines!Next
    PROVE  LinesOK'
<1> DEFINE N == Lines!pgs_per_line
<1>1. /\ nPpaState \in [Lines!Pages -> BOOLEAN] /\ nLineWp \in [Lines!Lines -> Nat]
      /\ \A b \in Lines!Lines : nLineWp[b] <= N
      /\ \A x \in Lines!Pages : nPpaState[x] <=> x % N < nLineWp[Lines!LINE_IDX(x)]
  BY DEF LinesOK, Lines!LinesAgree
<1>2. \A x \in Lines!Pages : Lines!LINE_IDX(x) \in Lines!Lines /\ x % N \in Nat
  BY LineFacts, LineSizes
<1>3. N \in Nat
  BY LineSizes
<1>. HIDE DEF N
<1>4. SUFFICES /\ nPpaState' \in [Lines!Pages -> BOOLEAN]
               /\ nLineWp' \in [Lines!Lines -> Nat]
               /\ \A b \in Lines!Lines : nLineWp'[b] <= N
               /\ \A x \in Lines!Pages : nPpaState'[x] <=> x % N < nLineWp'[Lines!LINE_IDX(x)]
  BY <1>4, AddressesApart DEF LinesOK, Lines!LinesAgree, N
<1>5. CASE \E p \in Lines!Pages, n \in 1 .. LineRun : Lines!ssd_write_ppa(p, n)
  <2>1. PICK p \in Lines!Pages, n \in 1 .. LineRun : Lines!ssd_write_ppa(p, n)
    BY <1>5
  <2>2. PICK S, done : /\ S = Lines!Run(p, n)
                       /\ done = Lines!Before(S, {q \in S : ~Lines!NextInLine(p, q)})
    OBVIOUS
  <2>3. /\ S \subseteq Lines!Pages
        /\ nPpaState' = [q \in Lines!Pages |-> nPpaState[q] \/ q \in done]
        /\ nLineWp' = [b \in Lines!Lines |-> nLineWp[b] + Lines!PagesIn(done, b)]
    BY <2>1, <2>2 DEF Lines!ssd_write_ppa
  <2>4. n \in Nat
    BY LineSizes
  <2>5. ASSUME NEW b \in Lines!Lines
        PROVE  /\ Lines!PagesIn(done, b) \in Nat
               /\ nLineWp[b] + Lines!PagesIn(done, b) <= N
               /\ \A x \in Lines!Pages : Lines!LINE_IDX(x) = b =>
                     (x % N < nLineWp[b] + Lines!PagesIn(done, b)
                        <=> x % N < nLineWp[b] \/ x \in done)
    <3>1. FillsOn(b, Lines!PagesIn(done, b), done)
      BY <2>2, <2>3, <2>4, WrittenOf
    <3>. QED
      BY <3>1 DEF FillsOn, N
  <2>6. nLineWp' \in [Lines!Lines -> Nat] /\ \A b \in Lines!Lines : nLineWp'[b] <= N
    BY <1>1, <2>3, <2>5
  <2>7. ASSUME NEW x \in Lines!Pages
        PROVE  nPpaState'[x] <=> x % N < nLineWp'[Lines!LINE_IDX(x)]
    <3>1. PICK b \in Lines!Lines : b = Lines!LINE_IDX(x)
      BY <1>2
    <3>2. nPpaState'[x] <=> x % N < nLineWp[b] \/ x \in done
      BY <1>1, <2>3, <3>1
    <3>. QED
      BY <2>3, <2>5, <3>1, <3>2
  <2>8. nPpaState' \in [Lines!Pages -> BOOLEAN]
    BY <1>1, <2>3
  <2>. QED
    BY <2>6, <2>7, <2>8
<1>6. CASE \E p \in Lines!Pages : Lines!ssd_trim_block(p)
  <2>1. PICK p \in Lines!Pages : Lines!ssd_trim_block(p)
    BY <1>6
  <2>2. PICK b \in Lines!Lines : b = Lines!LINE_IDX(p)
    BY <1>2
  <2>3. /\ nPpaState' = [q \in Lines!Pages |-> nPpaState[q] /\ Lines!LINE_IDX(q) # b]
        /\ nLineWp' = [nLineWp EXCEPT ![b] = 0]
    BY <2>1, <2>2 DEF Lines!ssd_trim_block, Lines!Rewind
  <2>4. /\ nLineWp' \in [Lines!Lines -> Nat]
        /\ \A c \in Lines!Lines : nLineWp'[c] = IF c = b THEN 0 ELSE nLineWp[c]
    BY <1>1, <2>3
  <2>5. ASSUME NEW x \in Lines!Pages
        PROVE  nPpaState'[x] <=> x % N < nLineWp'[Lines!LINE_IDX(x)]
    <3>1. PICK c \in Lines!Lines : c = Lines!LINE_IDX(x)
      BY <1>2
    <3>2. PICK m \in Nat : m = x % N
      BY <1>2
    <3>3. /\ nPpaState'[x] <=> nPpaState[x] /\ c # b
          /\ nPpaState[x] <=> m < nLineWp[c]
      BY <1>1, <2>3, <3>1, <3>2
    <3>4. CASE c = b
      <4>1. nLineWp'[c] = 0 /\ ~(m < 0)
        BY <2>4, <3>2, <3>4
      <4>. QED
        BY <3>1, <3>2, <3>3, <3>4, <4>1
    <3>5. CASE c # b
      <4>1. nLineWp'[c] = nLineWp[c]
        BY <2>4, <3>5
      <4>. QED
        BY <3>1, <3>2, <3>3, <3>5, <4>1
    <3>. QED
      BY <3>4, <3>5
  <2>6. nPpaState' \in [Lines!Pages -> BOOLEAN]
    BY <1>1, <2>3
  <2>. QED
    BY <1>1, <1>3, <2>4, <2>5, <2>6
<1>7. CASE UNCHANGED <<nPpaState, nLineWp>>
  BY <1>1, <1>7
<1>. QED
  BY <1>5, <1>6, <1>7 DEF Lines!Next, Lines!ssd_read_ppa, Lines!toggle_ssd_lat,
      Lines!SetEtime, Lines!Tick, Lines!nand_vars

LEMMA LinesStart == Lines!Init => LinesOK
<1>. SUFFICES ASSUME Lines!Init PROVE LinesOK
  OBVIOUS
<1>1. \A x \in Lines!Pages : /\ Lines!LINE_IDX(x) \in Lines!Lines
                             /\ x % Lines!pgs_per_line \in Nat
  BY LineFacts, LineSizes
<1>2. Lines!pgs_per_line \in Nat
  BY LineSizes
<1>. QED
  BY <1>1, <1>2 DEF Lines!Init, LinesOK, Lines!LinesAgree

\* The programmed pages of line b on LUN l.
OnLun(l, b) ==
    {x \in Lines!Pages : nPpaState[x] /\ Lines!LunOf(x) = l /\ Lines!LINE_IDX(x) = b}

\* They are every tt_luns-th page of the line, up to the write pointer.
LEMMA OnLunFacts ==
    ASSUME LinesOK, NEW l \in Lines!Luns, NEW b \in Lines!Lines, NEW x,
           NEW T, T = Lines!tt_luns, NEW f, f = Lines!pgs_per_line * b
    PROVE  x \in OnLun(l, b) <=>
               \E i \in Nat : x = f + T * i + Rank(l) /\ T * i + Rank(l) < nLineWp[b]
<1>1. PICK N, G, w, d : /\ N = Lines!pgs_per_line /\ G = pgs_per_blk
                        /\ w = nLineWp[b] /\ d = Rank(l)
  OBVIOUS
<1>2. /\ T \in Nat \ {0} /\ G \in Nat \ {0} /\ N \in Nat \ {0} /\ N = T * G /\ b \in Nat
  BY <1>1, LineSizes DEF Lines!Lines
<1>3. d \in 0 .. T - 1 /\ w \in Nat /\ w <= N
  BY <1>1, RankFacts DEF LinesOK, Lines!LinesAgree
<1>4. PICK g : g = G * b
  OBVIOUS
<1>5. g \in Nat /\ f = T * g /\ f \in Nat
  <2>1. (T * G) * b = T * (G * b) /\ G * b \in Nat
    BY <1>2
  <2>2. T * g \in Nat
    BY <1>2, <1>4, <2>1
  <2>. QED
    BY <1>1, <1>2, <1>4, <2>1, <2>2
<1>6. ASSUME x \in OnLun(l, b)
      PROVE  \E i \in Nat : x = f + T * i + d /\ T * i + d < w
  <2>1. /\ x \in Lines!Pages /\ nPpaState[x] /\ Lines!LunOf(x) = l
        /\ Lines!LINE_IDX(x) = b
    BY <1>6 DEF OnLun, LinesOK
  <2>2. PICK r : r = x % N
    OBVIOUS
  <2>3. r \in Nat /\ r < w
    BY <1>1, <2>1, <2>2, LineFacts DEF LinesOK, Lines!LinesAgree
  <2>4. x \in Nat /\ x = f + r
    BY <1>1, <2>1, <2>2, LineFacts
  <2>5. x % T = d
    BY <1>1, <2>1, <2>4, LunFacts
  <2>6. r % T = d
    <3>1. r \in Int /\ g \in Int
      BY <1>5, <2>3
    <3>2. (r + T * g) % T = r % T
      BY <1>2, <3>1, ModShift
    <3>3. x = r + T * g
      BY <1>5, <2>3, <2>4
    <3>. QED
      BY <2>5, <3>2, <3>3
  <2>7. PICK i : i = r \div T
    OBVIOUS
  <2>8. i \in Int /\ r = T * i + d
    BY <1>2, <2>3, <2>6, <2>7, Division
  <2>9. i >= 0
    <3>1. SUFFICES ASSUME i < 0 PROVE FALSE
      BY <2>8
    <3>2. PICK j : j = -i - 1
      OBVIOUS
    <3>3. j \in Nat /\ T * i = -(T * j) - T
      BY <1>2, <2>8, <3>1, <3>2
    <3>4. T * j \in Nat
      BY <1>2, <3>3
    <3>. QED
      BY <1>2, <1>3, <2>3, <2>8, <3>3, <3>4
  <2>10. T * i \in Nat
    BY <1>2, <2>8, <2>9
  <2>11. x = f + T * i + d
    BY <1>3, <1>5, <2>4, <2>8, <2>10
  <2>. QED
    BY <2>3, <2>8, <2>9, <2>11
<1>7. ASSUME NEW i \in Nat, x = f + T * i + d, T * i + d < w
      PROVE  x \in OnLun(l, b)
  <2>1. PICK r : r = T * i + d
    OBVIOUS
  <2>2. T * i \in Nat
    BY <1>2
  <2>3. r \in 0 .. N - 1 /\ r < w /\ x = f + r
    BY <1>2, <1>3, <1>5, <1>7, <2>1, <2>2
  <2>4. x \in Lines!Pages /\ Lines!LINE_IDX(x) = b /\ x % N = r
    BY <1>1, <2>3, LineOf
  <2>5. nPpaState[x]
    BY <1>1, <2>3, <2>4 DEF LinesOK, Lines!LinesAgree
  <2>6. x % T = d
    <3>1. r % T = d
      BY <1>2, <1>3, <2>1, DivisionUnique
    <3>2. r \in Int /\ g \in Int
      BY <1>5, <2>3
    <3>3. (r + T * g) % T = r % T
      BY <1>2, <3>2, ModShift
    <3>4. x = r + T * g
      BY <1>5, <2>3
    <3>. QED
      BY <3>1, <3>3, <3>4
  <2>7. Lines!LunOf(x) = l
    <3>1. x \in Nat
      BY <1>5, <2>3
    <3>. QED
      BY <1>1, <2>6, <3>1, LunFacts, RankFacts
  <2>. QED
    BY <2>4, <2>5, <2>7 DEF OnLun
<1>. QED
  BY <1>1, <1>6, <1>7

\* But for its first page, a LUN has a page for each of another LUN.
LEMMA LinesStriped == LinesOK => Lines!Striped
<1>. SUFFICES ASSUME LinesOK, NEW b \in Lines!Lines, NEW l \in Lines!Luns, NEW m \in Lines!Luns
     PROVE  Cardinality(OnLun(l, b)) <= Cardinality(OnLun(m, b)) + 1
  <2>1. ASSUME NEW k, NEW c
        PROVE  Lines!PagesIn({p \in Lines!Pages : nPpaState[p] /\ Lines!LunOf(p) = k}, c)
                   = Cardinality(OnLun(k, c))
    <3>1. {q \in {p \in Lines!Pages : nPpaState[p] /\ Lines!LunOf(p) = k} :
               Lines!LINE_IDX(q) = c} = OnLun(k, c)
      BY DEF OnLun
    <3>. QED
      BY <3>1 DEF Lines!PagesIn, Lines!Cardinality, Cardinality
  <2>. QED
    BY <2>1 DEF Lines!Striped
<1>1. PICK T, f, w, d, e : /\ T = Lines!tt_luns /\ f = Lines!pgs_per_line * b
                           /\ w = nLineWp[b] /\ d = Rank(l) /\ e = Rank(m)
  OBVIOUS
<1>2. T \in Nat \ {0} /\ d \in 0 .. T - 1 /\ e \in 0 .. T - 1 /\ w \in Nat
  BY <1>1, RankFacts, LineSizes DEF LinesOK
<1>3. f \in Nat
  BY <1>1, LineSizes DEF Lines!Lines
<1>4. \A x : x \in OnLun(l, b) <=> \E i \in Nat : x = f + T * i + d /\ T * i + d < w
  BY <1>1, OnLunFacts
<1>5. \A x : x \in OnLun(m, b) <=> \E i \in Nat : x = f + T * i + e /\ T * i + e < w
  BY <1>1, OnLunFacts
<1>6. \A k \in Lines!Luns : IsFiniteSet(OnLun(k, b))
  <2>1. ASSUME NEW k \in Lines!Luns PROVE IsFiniteSet(OnLun(k, b))
    <3>1. PICK M : M = Lines!pgs_per_line * Lines!tt_lines - 1
      OBVIOUS
    <3>2. M \in Int /\ Lines!Pages = 0 .. M
      BY <3>1, LineSizes DEF Lines!Pages
    <3>3. OnLun(k, b) \subseteq 0 .. M
      BY <3>2 DEF OnLun, LinesOK
    <3>4. IsFiniteSet(0 .. M)
      BY <3>2, FS_Interval
    <3>. QED
      BY <3>3, <3>4, FS_Subset
  <2>. QED
    BY <2>1
<1>7. PICK A, B, rest, c : /\ A = OnLun(l, b) /\ B = OnLun(m, b) /\ rest = A \ {f + d}
                           /\ c = T + d - e
  OBVIOUS
<1>8. ASSUME NEW x \in rest PROVE x \in Int /\ x - c \in B
  <2>1. PICK i \in Nat : x = f + T * i + d /\ T * i + d < w
    BY <1>4, <1>7
  <2>2. T * 0 = 0
    BY <1>2
  <2>3. x # f + d
    BY <1>7
  <2>4. i # 0
    BY <1>2, <1>3, <2>1, <2>2, <2>3
  <2>5. PICK j : j = i - 1
    OBVIOUS
  <2>6. j \in Nat /\ T * i = T * j + T /\ T * j \in Nat
    BY <1>2, <2>1, <2>4, <2>5
  <2>7. x = f + (T * j + T) + d /\ (T * j + T) + d < w
    BY <2>1, <2>6
  <2>8. x - c = f + T * j + e /\ T * j + e < w
    BY <1>2, <1>3, <1>7, <2>6, <2>7
  <2>9. x \in Int
    BY <1>2, <1>3, <2>6, <2>7
  <2>. QED
    BY <1>5, <1>7, <2>6, <2>8, <2>9
<1>9. IsFiniteSet(A) /\ IsFiniteSet(B) /\ IsFiniteSet(rest)
  BY <1>6, <1>7, FS_Subset
<1>10. Cardinality(rest) <= Cardinality(B)
  <2>1. SUFFICES ASSUME Cardinality(B) < Cardinality(rest) PROVE FALSE
    BY <1>9, FS_CardinalityType
  <2>2. PICK g : g = [x \in rest |-> x - c]
    OBVIOUS
  <2>3. g \in [rest -> B]
    BY <1>8, <2>2
  <2>4. PICK x \in rest, y \in rest : x # y /\ g[x] = g[y]
    BY <1>9, <2>1, <2>3, FS_PigeonHole
  <2>5. c \in Int
    BY <1>2, <1>7
  <2>. QED
    BY <1>8, <2>2, <2>4, <2>5
<1>11. Cardinality(A) <= Cardinality(rest) + 1
  <2>1. PICK y : y = f + d
    OBVIOUS
  <2>2. Cardinality(A \ {y}) = IF y \in A THEN Cardinality(A) - 1 ELSE Cardinality(A)
    BY <1>9, FS_RemoveElement
  <2>3. rest = A \ {y} /\ Cardinality(A) \in Nat
    BY <1>7, <1>9, <2>1, FS_CardinalityType
  <2>. QED
    BY <2>2, <2>3
<1>. QED
  BY <1>7, <1>9, <1>10, <1>11, FS_CardinalityType

-----------------------------------------------------------------------------
(* The queue of timed requests. *)

Reqs0 == Cardinality(Requests)

LEMMA QueueSizes ==
    /\ NULL \notin Requests /\ IsFiniteSet(Requests) /\ Reqs0 \in Nat
    /\ Queue!Cardinality(Requests) = Reqs0
    /\ MaxTime \in Nat /\ SLACK \in Nat
<1>1. IsFiniteSet(Requests)
  BY PartsAssumption DEF Queue!QueueAssumption, Queue!IsFiniteSet, IsFiniteSet
<1>2. Queue!Cardinality(Requests) = Reqs0
  BY DEF Reqs0, Queue!Cardinality, Cardinality
<1>. QED
  BY <1>1, <1>2, PartsAssumption, FS_CardinalityType DEF Queue!QueueAssumption, Reqs0

\* The links hold the n requests of C, in this order.
Linked(n, C) ==
    /\ \A i, j \in 1 .. n : C[i] = C[j] => i = j
    /\ qHead = IF n = 0 THEN NULL ELSE C[1]
    /\ qLast = IF n = 0 THEN NULL ELSE C[n]
    /\ \A i \in 1 .. n : /\ qPrev[C[i]] = IF i = 1 THEN NULL ELSE C[i - 1]
                         /\ qNext[C[i]] = IF i = n THEN NULL ELSE C[i + 1]
    /\ \A r \in Requests : (\A i \in 1 .. n : C[i] # r) => qPrev[r] = NULL /\ qNext[r] = NULL

\* No more of them than requests.
LEMMA FewerThanAll ==
    ASSUME NEW n \in Nat, NEW C \in [1 .. n -> Requests],
           \A i, j \in 1 .. n : C[i] = C[j] => i = j
    PROVE  /\ n <= Reqs0
           /\ Cardinality({C[i] : i \in 1 .. n}) = n
           /\ \A r \in Requests : (\A i \in 1 .. n : C[i] # r) => n < Reqs0
BY QueueSizes, HowMany DEF Reqs0

LEMMA ChainIs ==
    ASSUME NEW n \in Nat, NEW C \in [1 .. n -> Requests], Linked(n, C)
    PROVE  Queue!Chain = C
<1> DEFINE At(i) == IF i < n THEN C[i + 1] ELSE NULL
           First(i) == [j \in 1 .. i |-> C[j]]
           Upto(i) == IF i <= n THEN i ELSE n
           c[i \in 0 .. Queue!Cardinality(Requests)] ==
               IF i = 0 THEN [seq |-> <<>>, at |-> qHead]
               ELSE IF c[i - 1].at = NULL THEN c[i - 1]
               ELSE [seq |-> Append(c[i - 1].seq, c[i - 1].at), at |-> qNext[c[i - 1].at]]
           Step(i, x) ==
               IF i = 0 THEN [seq |-> <<>>, at |-> qHead]
               ELSE IF x.at = NULL THEN x
               ELSE [seq |-> Append(x.seq, x.at), at |-> qNext[x.at]]
           K(i) == [seq |-> First(Upto(i)), at |-> At(i)]
<1>1. Queue!Chain = c[Queue!Cardinality(Requests)].seq
  BY DEF Queue!Chain
<1>2. n <= Reqs0 /\ Reqs0 \in Nat /\ Queue!Cardinality(Requests) = Reqs0
  BY QueueSizes, FewerThanAll DEF Linked
<1>3. K(0) = Step(0, 0)
  <2>1. Upto(0) = 0 /\ First(0) = <<>>
    OBVIOUS
  <2>2. At(0) = qHead
    BY DEF Linked
  <2>. QED
    BY <2>1, <2>2
<1>4. ASSUME NEW i \in 1 .. Reqs0 PROVE K(i) = Step(i, K(i - 1))
  <2>1. i \in Nat /\ i - 1 \in Nat /\ i # 0 /\ (i - 1) + 1 = i
    BY <1>2
  <2>2. CASE i <= n
    <3>1. Upto(i) = i /\ Upto(i - 1) = i - 1 /\ At(i - 1) = C[i] /\ C[i] \in Requests
      BY <2>1, <2>2
    <3>2. C[i] # NULL
      BY <3>1, QueueSizes
    <3>3. Append(First(i - 1), C[(i - 1) + 1]) = [j \in 1 .. (i - 1) + 1 |-> C[j]]
      <4>1. i - 1 \in 0 .. n - 1
        BY <2>1, <2>2
      <4>. QED
        BY <4>1, OneMore
    <3>4. Append(First(i - 1), C[i]) = First(i)
      BY <2>1, <3>3
    <3>5. qNext[C[i]] = At(i)
      BY <2>1, <2>2 DEF Linked
    <3>. HIDE DEF First, At, Upto
    <3>. QED
      BY <2>1, <3>1, <3>2, <3>4, <3>5
  <2>3. CASE ~ i <= n
    <3>1. Upto(i) = n /\ Upto(i - 1) = n /\ At(i - 1) = NULL /\ At(i) = NULL
      BY <2>1, <2>3
    <3>. HIDE DEF First, At, Upto
    <3>. QED
      BY <2>1, <3>1
  <2>. QED
    BY <2>2, <2>3
<1>. HIDE DEF K
<1>5. \E g : g = [i \in 0 .. Reqs0 |-> Step(i, g[i - 1])]
  <2> DEFINE g == [i \in 0 .. Reqs0 |-> K(i)]
  <2>1. ASSUME NEW i \in 0 .. Reqs0 PROVE g[i] = Step(i, g[i - 1])
    <3>1. CASE i = 0
      BY <1>2, <1>3, <3>1
    <3>2. CASE i # 0
      <4>1. i \in 1 .. Reqs0 /\ i - 1 \in 0 .. Reqs0
        BY <1>2, <3>2
      <4>2. g[i] = K(i) /\ g[i - 1] = K(i - 1)
        BY <4>1
      <4>. HIDE DEF g
      <4>. QED
        BY <1>4, <4>1, <4>2
    <3>. QED
      BY <3>1, <3>2
  <2>2. g = [i \in 0 .. Reqs0 |-> g[i]]
    OBVIOUS
  <2>. HIDE DEF g
  <2>3. g = [i \in 0 .. Reqs0 |-> Step(i, g[i - 1])]
    <3>. HIDE DEF Step
    <3>. QED
      BY <2>1, <2>2
  <2>. QED
    BY <2>3
<1>6. c = [i \in 0 .. Reqs0 |-> Step(i, c[i - 1])]
  BY <1>2, <1>5, Zenon
<1>. HIDE DEF c
<1>7. c[Reqs0] = K(Reqs0)
  <2> DEFINE S == {i \in 0 .. Reqs0 : c[i] = K(i)}
  <2>1. 0 \in S
    <3>. HIDE DEF Step
    <3>1. c[0] = Step(0, c[0 - 1]) /\ Step(0, c[0 - 1]) = Step(0, 0)
      BY <1>2, <1>6 DEF Step
    <3>. QED
      BY <1>2, <1>3, <3>1
  <2>2. ASSUME NEW i \in 0 .. Reqs0 - 1, i \in S PROVE i + 1 \in S
    <3>1. i + 1 \in 1 .. Reqs0 /\ i + 1 \in 0 .. Reqs0 /\ (i + 1) - 1 = i /\ c[i] = K(i)
      BY <1>2, <2>2
    <3>. HIDE DEF Step
    <3>2. c[i + 1] = Step(i + 1, c[i])
      BY <1>6, <3>1
    <3>3. K(i + 1) = Step(i + 1, K(i))
      BY <1>4, <3>1
    <3>. QED
      BY <3>1, <3>2, <3>3
  <2>. HIDE DEF S
  <2>3. 0 .. Reqs0 \subseteq S
    BY <1>2, <2>1, <2>2, Induction
  <2>. QED
    BY <1>2, <2>3 DEF S
<1>8. K(Reqs0).seq = First(n)
  BY <1>2 DEF K
<1>9. First(n) = C
  OBVIOUS
<1>. QED
  BY <1>1, <1>2, <1>7, <1>8, <1>9

\* The place behind which a request due at t belongs: the last one that is not later.
IsPlace(k, n, C, t) ==
    /\ k \in 0 .. n
    /\ k # 0 => Queue!NotLater(C[k], t)
    /\ \A j \in 1 .. n : k < j => ~Queue!NotLater(C[j], t)

LEMMA CurrIs ==
    ASSUME NEW n \in Nat, NEW C \in [1 .. n -> Requests], Linked(n, C), NEW t
    PROVE  \E k \in 0 .. n : /\ IsPlace(k, n, C, t)
                             /\ Queue!Curr(t) = IF k = 0 THEN NULL ELSE C[k]
<1>1. PICK k \in 0 .. n : IsPlace(k, n, C, t)
  <2> DEFINE S == {i \in 0 .. n : i = 0 \/ Queue!NotLater(C[i], t)}
  <2>1. S \subseteq 0 .. n /\ S \subseteq Nat /\ 0 \in S /\ IsFiniteSet(0 .. n)
    <3>1. 0 \in Int /\ n \in Int
      OBVIOUS
    <3>. QED
      BY <3>1, FS_Interval
  <2>2. IsFiniteSet(S)
    BY <2>1, FS_Subset
  <2>3. PICK k \in S : \A i \in S : i <= k
    BY <2>1, <2>2, FiniteGreatest
  <2>4. \A j \in 1 .. n : k < j => ~Queue!NotLater(C[j], t)
    <3>1. ASSUME NEW j \in 1 .. n, k < j, Queue!NotLater(C[j], t) PROVE FALSE
      <4>1. j \in S
        BY <3>1
      <4>. QED
        BY <2>1, <2>3, <3>1, <4>1
    <3>. QED
      BY <3>1
  <2>. QED
    BY <2>3, <2>4 DEF IsPlace
<1> DEFINE Place(m) == IF m = 0 THEN NULL ELSE C[m]
           Mth(i) == IF k <= n - i THEN n - i ELSE k
           walk[i \in 0 .. Queue!Cardinality(Requests)] ==
               IF i = 0 THEN qLast
               ELSE IF walk[i - 1] = NULL THEN NULL
               ELSE IF Queue!NotLater(walk[i - 1], t) THEN walk[i - 1]
               ELSE qPrev[walk[i - 1]]
           Step(i, x) ==
               IF i = 0 THEN qLast
               ELSE IF x = NULL THEN NULL
               ELSE IF Queue!NotLater(x, t) THEN x
               ELSE qPrev[x]
           K(i) == Place(Mth(i))
<1>2. n <= Reqs0 /\ Reqs0 \in Nat /\ Queue!Cardinality(Requests) = Reqs0
  BY QueueSizes, FewerThanAll DEF Linked
<1>3. Queue!Curr(t) = walk[Reqs0]
  BY <1>2 DEF Queue!Curr
<1>4. K(0) = Step(0, 0)
  <2>1. Mth(0) = n /\ Place(n) = qLast
    BY DEF Linked
  <2>. QED
    BY <2>1
<1>5. ASSUME NEW i \in 1 .. Reqs0 PROVE K(i) = Step(i, K(i - 1))
  <2>1. PICK m : m = Mth(i - 1)
    OBVIOUS
  <2>2. m \in 0 .. n /\ k <= m /\ i \in Nat /\ i # 0
    BY <1>2, <2>1
  <2>3. CASE m = 0
    <3>1. Mth(i) = 0
      BY <1>2, <2>1, <2>2, <2>3
    <3>. QED
      BY <2>1, <2>2, <2>3, <3>1
  <2>4. CASE m # 0 /\ m = k
    <3>1. Mth(i) = k
      BY <1>2, <2>1, <2>2, <2>4
    <3>2. Queue!NotLater(C[k], t) /\ C[k] \in Requests
      BY <1>1, <2>2, <2>4 DEF IsPlace
    <3>3. K(i) = C[k] /\ K(i - 1) = C[k] /\ C[k] # NULL
      BY <2>1, <2>4, <3>1, <3>2, QueueSizes
    <3>. HIDE DEF K
    <3>. QED
      BY <2>2, <3>2, <3>3
  <2>5. CASE m # 0 /\ m # k
    <3>1. m = n - (i - 1) /\ Mth(i) = m - 1
      BY <1>2, <2>1, <2>2, <2>5
    <3>2. ~Queue!NotLater(C[m], t) /\ C[m] \in Requests
      BY <1>1, <2>2, <2>5 DEF IsPlace
    <3>3. qPrev[C[m]] = Place(m - 1)
      BY <2>2, <2>5 DEF Linked
    <3>4. K(i) = Place(m - 1) /\ K(i - 1) = C[m] /\ C[m] # NULL
      BY <2>1, <2>5, <3>1, <3>2, QueueSizes
    <3>. HIDE DEF K, Place
    <3>. QED
      BY <2>2, <3>2, <3>3, <3>4
  <2>. QED
    BY <2>3, <2>4, <2>5
<1>. HIDE DEF K
<1>6. \E g : g = [i \in 0 .. Reqs0 |-> Step(i, g[i - 1])]
  <2> DEFINE g == [i \in 0 .. Reqs0 |-> K(i)]
  <2>1. ASSUME NEW i \in 0 .. Reqs0 PROVE g[i] = Step(i, g[i - 1])
    <3>1. CASE i = 0
      BY <1>2, <1>4, <3>1
    <3>2. CASE i # 0
      <4>1. i \in 1 .. Reqs0 /\ i - 1 \in 0 .. Reqs0
        BY <1>2, <3>2
      <4>2. g[i] = K(i) /\ g[i - 1] = K(i - 1)
        BY <4>1
      <4>. HIDE DEF g
      <4>. QED
        BY <1>5, <4>1, <4>2
    <3>. QED
      BY <3>1, <3>2
  <2>2. g = [i \in 0 .. Reqs0 |-> g[i]]
    OBVIOUS
  <2>. HIDE DEF g
  <2>3. g = [i \in 0 .. Reqs0 |-> Step(i, g[i - 1])]
    <3>. HIDE DEF Step
    <3>. QED
      BY <2>1, <2>2
  <2>. QED
    BY <2>3
<1>7. walk = [i \in 0 .. Reqs0 |-> Step(i, walk[i - 1])]
  BY <1>2, <1>6, Zenon
<1>. HIDE DEF walk
<1>8. walk[Reqs0] = K(Reqs0)
  <2> DEFINE S == {i \in 0 .. Reqs0 : walk[i] = K(i)}
  <2>1. 0 \in S
    BY <1>2, <1>4, <1>7
  <2>2. ASSUME NEW i \in 0 .. Reqs0 - 1, i \in S PROVE i + 1 \in S
    <3>1. i + 1 \in 1 .. Reqs0 /\ i + 1 \in 0 .. Reqs0 /\ (i + 1) - 1 = i /\ walk[i] = K(i)
      BY <1>2, <2>2
    <3>. HIDE DEF Step
    <3>2. walk[i + 1] = Step(i + 1, walk[i])
      BY <1>7, <3>1
    <3>3. K(i + 1) = Step(i + 1, K(i))
      BY <1>5, <3>1
    <3>. QED
      BY <3>1, <3>2, <3>3
  <2>. HIDE DEF S
  <2>3. 0 .. Reqs0 \subseteq S
    BY <1>2, <2>1, <2>2, Induction
  <2>. QED
    BY <1>2, <2>3 DEF S
<1>9. K(Reqs0) = Place(k)
  <2>1. Mth(Reqs0) = k
    BY <1>2
  <2>. QED
    BY <2>1 DEF K
<1>. QED
  BY <1>1, <1>3, <1>8, <1>9

LEMMA QueuedIs ==
    ASSUME NEW n \in Nat, NEW C \in [1 .. n -> Requests], Linked(n, C)
    PROVE  Queue!Queued = {C[i] : i \in 1 .. n}
<1>1. ASSUME NEW i \in 1 .. n PROVE C[i] \in Queue!Queued
  <2>1. C[i] \in Requests
    OBVIOUS
  <2>2. CASE i = 1
    <3>1. C[i] = qHead
      BY <2>2 DEF Linked
    <3>. QED
      BY <2>1, <3>1 DEF Queue!Queued
  <2>3. CASE i # 1
    <3>1. \A k \in 1 .. n : qPrev[C[k]] = IF k = 1 THEN NULL ELSE C[k - 1]
      BY DEF Linked
    <3>2. qPrev[C[i]] = C[i - 1]
      BY <2>3, <3>1
    <3>3. i - 1 \in 1 .. n
      BY <2>3
    <3>4. qPrev[C[i]] # NULL
      BY <3>2, <3>3, QueueSizes
    <3>. QED
      BY <2>1, <3>4 DEF Queue!Queued
  <2>. QED
    BY <2>2, <2>3
<1>2. ASSUME NEW r \in Queue!Queued PROVE r \in {C[i] : i \in 1 .. n}
  <2>1. r \in Requests /\ (r = qHead \/ qPrev[r] # NULL)
    BY DEF Queue!Queued
  <2>2. CASE r = qHead
    <3>1. n # 0 /\ r = C[1]
      BY <2>1, <2>2, QueueSizes DEF Linked
    <3>. QED
      BY <3>1
  <2>3. CASE qPrev[r] # NULL
    BY <2>1, <2>3 DEF Linked
  <2>. QED
    BY <2>1, <2>2, <2>3
<1>. QED
  BY <1>1, <1>2

\* r put behind the kth request of C.
Put(n, C, k, r) ==
    [j \in 1 .. n + 1 |-> IF j <= k THEN C[j] ELSE IF j = k + 1 THEN r ELSE C[j - 1]]

IsPut(D, n, C, k, r) ==
    /\ D \in [1 .. n + 1 -> Requests]
    /\ \A j \in 1 .. k : j \in 1 .. n + 1 /\ D[j] = C[j]
    /\ k + 1 \in 1 .. n + 1 /\ D[k + 1] = r
    /\ \A j \in k + 1 .. n : j + 1 \in 1 .. n + 1 /\ D[j + 1] = C[j]
    /\ \A i \in 1 .. n + 1 : \/ i \in 1 .. k
                             \/ i = k + 1
                             \/ \E j \in k + 1 .. n : i = j + 1

LEMMA PutFacts ==
    ASSUME NEW n \in Nat, NEW C \in [1 .. n -> Requests], NEW r \in Requests,
           NEW k \in 0 .. n, NEW D, D = Put(n, C, k, r)
    PROVE  IsPut(D, n, C, k, r)
<1>1. D \in [1 .. n + 1 -> Requests]
  <2>1. ASSUME NEW j \in 1 .. n + 1
        PROVE  (IF j <= k THEN C[j] ELSE IF j = k + 1 THEN r ELSE C[j - 1]) \in Requests
    OBVIOUS
  <2>. QED
    BY <2>1 DEF Put
<1>2. \A j \in 1 .. k : j \in 1 .. n + 1 /\ D[j] = C[j]
  BY DEF Put
<1>3. k + 1 \in 1 .. n + 1 /\ D[k + 1] = r
  BY DEF Put
<1>4. ASSUME NEW j \in k + 1 .. n PROVE j + 1 \in 1 .. n + 1 /\ D[j + 1] = C[j]
  BY DEF Put
<1>5. ASSUME NEW i \in 1 .. n + 1, i \notin 1 .. k, i # k + 1
      PROVE  \E j \in k + 1 .. n : i = j + 1
  <2>1. i - 1 \in k + 1 .. n /\ i = (i - 1) + 1
    BY <1>5
  <2>. QED
    BY <2>1
<1>. QED
  BY <1>1, <1>2, <1>3, <1>4, <1>5 DEF IsPut

\* The links after a request was put in.
Spliced(n, C, k, r) ==
    /\ qHead' = IF k = 0 THEN r ELSE qHead
    /\ qLast' = IF k = n THEN r ELSE qLast
    /\ \A x \in Requests :
          /\ qPrev'[x] = IF x = r THEN (IF k = 0 THEN NULL ELSE C[k])
                         ELSE IF k < n /\ x = C[k + 1] THEN r ELSE qPrev[x]
          /\ qNext'[x] = IF x = r THEN (IF k = n THEN NULL ELSE C[k + 1])
                         ELSE IF 0 < k /\ x = C[k] THEN r ELSE qNext[x]

LEMMA SplicedLinks ==
    ASSUME NEW n \in Nat, NEW C \in [1 .. n -> Requests], Linked(n, C), NEW r \in Requests,
           \A i \in 1 .. n : C[i] # r, NEW k \in 0 .. n, Spliced(n, C, k, r),
           NEW D, D = Put(n, C, k, r)
    PROVE  Linked(n + 1, D)'
<1>1. /\ D \in [1 .. n + 1 -> Requests]
      /\ \A j \in 1 .. k : j \in 1 .. n + 1 /\ D[j] = C[j]
      /\ k + 1 \in 1 .. n + 1 /\ D[k + 1] = r
      /\ \A j \in k + 1 .. n : j + 1 \in 1 .. n + 1 /\ D[j + 1] = C[j]
      /\ \A i \in 1 .. n + 1 : \/ i \in 1 .. k
                               \/ i = k + 1
                               \/ \E j \in k + 1 .. n : i = j + 1
  <2>1. IsPut(D, n, C, k, r)
    BY PutFacts
  <2>. QED
    BY <2>1 DEF IsPut
<1>2. /\ \A i, j \in 1 .. n : C[i] = C[j] => i = j
      /\ qHead = IF n = 0 THEN NULL ELSE C[1]
      /\ qLast = IF n = 0 THEN NULL ELSE C[n]
      /\ \A i \in 1 .. n : /\ qPrev[C[i]] = IF i = 1 THEN NULL ELSE C[i - 1]
                           /\ qNext[C[i]] = IF i = n THEN NULL ELSE C[i + 1]
      /\ \A x \in Requests : (\A i \in 1 .. n : C[i] # x) => qPrev[x] = NULL /\ qNext[x] = NULL
  BY DEF Linked
<1>3. /\ qHead' = IF k = 0 THEN r ELSE qHead
      /\ qLast' = IF k = n THEN r ELSE qLast
      /\ \A x \in Requests :
            /\ qPrev'[x] = IF x = r THEN (IF k = 0 THEN NULL ELSE C[k])
                           ELSE IF k < n /\ x = C[k + 1] THEN r ELSE qPrev[x]
            /\ qNext'[x] = IF x = r THEN (IF k = n THEN NULL ELSE C[k + 1])
                           ELSE IF 0 < k /\ x = C[k] THEN r ELSE qNext[x]
  BY DEF Spliced
<1>4. ASSUME NEW i \in 1 .. n + 1, NEW j \in 1 .. n + 1, D[i] = D[j] PROVE i = j
  <2>2. \A m \in 1 .. n + 1 : m # k + 1 =>
            \E a \in 1 .. n : D[m] = C[a] /\ m = IF a <= k THEN a ELSE a + 1
    <3>1. ASSUME NEW m \in 1 .. n + 1, m # k + 1
          PROVE  \E a \in 1 .. n : D[m] = C[a] /\ m = IF a <= k THEN a ELSE a + 1
      <4>1. CASE m \in 1 .. k
        <5>1. m \in 1 .. n /\ D[m] = C[m] /\ m <= k
          BY <1>1, <4>1
        <5>. QED
          BY <5>1
      <4>2. CASE \E a \in k + 1 .. n : m = a + 1
        <5>1. PICK a \in k + 1 .. n : m = a + 1
          BY <4>2
        <5>2. a \in 1 .. n /\ D[m] = C[a] /\ ~ a <= k
          BY <1>1, <5>1
        <5>. QED
          BY <5>1, <5>2
      <4>. QED
        BY <1>1, <3>1, <4>1, <4>2
    <3>. QED
      BY <3>1
  <2>3. CASE i = k + 1 \/ j = k + 1
    BY <1>1, <1>4, <2>2, <2>3
  <2>4. CASE i # k + 1 /\ j # k + 1
    <3>1. PICK a \in 1 .. n : D[i] = C[a] /\ i = IF a <= k THEN a ELSE a + 1
      BY <2>2, <2>4
    <3>2. PICK b \in 1 .. n : D[j] = C[b] /\ j = IF b <= k THEN b ELSE b + 1
      BY <2>2, <2>4
    <3>3. C[a] = C[b]
      BY ONLY <1>4, <3>1, <3>2
    <3>4. a = b
      BY <3>3 DEF Linked
    <3>. QED
      BY <3>1, <3>2, <3>4
  <2>. QED
    BY <2>3, <2>4
<1>5. qHead' = D[1]
  BY <1>1, <1>2, <1>3
<1>6. qLast' = D[n + 1]
  <2>1. CASE k = n
    BY <1>1, <1>3, <2>1
  <2>2. CASE k # n
    <3>1. n \in k + 1 .. n
      BY <2>2
    <3>. QED
      BY <1>1, <1>2, <1>3, <2>2, <3>1
  <2>. QED
    BY <2>1, <2>2
<1>7. ASSUME NEW i \in 1 .. n + 1
      PROVE  qPrev'[D[i]] = IF i = 1 THEN NULL ELSE D[i - 1]
  <2>1. CASE i \in 1 .. k
    <3>1. D[i] = C[i] /\ C[i] \in Requests /\ C[i] # r /\ i \in 1 .. n
      BY <1>1, <2>1
    <3>2. k < n => k + 1 \in 1 .. n /\ C[i] # C[k + 1]
      BY <1>2, <2>1, <3>1
    <3>3. qPrev'[D[i]] = IF i = 1 THEN NULL ELSE C[i - 1]
      BY <1>2, <1>3, <3>1, <3>2
    <3>4. i # 1 => i - 1 \in 1 .. k
      BY <2>1
    <3>. QED
      BY <1>1, <3>3, <3>4
  <2>2. CASE i = k + 1
    <3>1. qPrev'[D[i]] = IF k = 0 THEN NULL ELSE C[k]
      BY <1>1, <1>3, <2>2
    <3>2. k # 0 => k \in 1 .. k
      OBVIOUS
    <3>. QED
      BY <1>1, <2>2, <3>1, <3>2
  <2>3. ASSUME NEW j \in k + 1 .. n, i = j + 1
        PROVE  qPrev'[D[i]] = D[i - 1] /\ i # 1
    <3>1. D[i] = C[j] /\ C[j] \in Requests /\ C[j] # r /\ j \in 1 .. n
      BY <1>1, <2>3
    <3>2. CASE j = k + 1
      BY <1>1, <1>3, <2>3, <3>1, <3>2
    <3>3. CASE j # k + 1
      <4>1. k + 1 \in 1 .. n /\ C[j] # C[k + 1] /\ j # 1
        BY <1>2, <2>3, <3>1, <3>3
      <4>2. qPrev'[D[i]] = C[j - 1]
        BY <1>2, <1>3, <3>1, <4>1
      <4>3. j - 1 \in k + 1 .. n /\ i - 1 = (j - 1) + 1
        BY <2>3, <3>3
      <4>. QED
        BY <1>1, <2>3, <4>2, <4>3
    <3>. QED
      BY <3>2, <3>3
  <2>. QED
    BY <1>1, <2>1, <2>2, <2>3
<1>8. ASSUME NEW i \in 1 .. n + 1
      PROVE  qNext'[D[i]] = IF i = n + 1 THEN NULL ELSE D[i + 1]
  <2>1. CASE i \in 1 .. k
    <3>1. D[i] = C[i] /\ C[i] \in Requests /\ C[i] # r /\ i \in 1 .. n /\ i # n + 1
      BY <1>1, <2>1
    <3>2. CASE i = k
      <4>1. qNext'[D[i]] = r
        BY <1>3, <2>1, <3>1, <3>2
      <4>. QED
        BY <1>1, <3>1, <3>2, <4>1
    <3>3. CASE i # k
      <4>1. k \in 1 .. n /\ C[i] # C[k] /\ i # n
        BY <1>2, <2>1, <3>1, <3>3
      <4>2. qNext'[D[i]] = C[i + 1]
        BY <1>2, <1>3, <3>1, <4>1
      <4>3. i + 1 \in 1 .. k
        BY <2>1, <3>3
      <4>. QED
        BY <1>1, <3>1, <4>2, <4>3
    <3>. QED
      BY <3>2, <3>3
  <2>2. CASE i = k + 1
    <3>1. qNext'[D[i]] = IF k = n THEN NULL ELSE C[k + 1]
      BY <1>1, <1>3, <2>2
    <3>2. k # n => k + 1 \in k + 1 .. n
      OBVIOUS
    <3>. QED
      BY <1>1, <2>2, <3>1, <3>2
  <2>3. ASSUME NEW j \in k + 1 .. n, i = j + 1
        PROVE  qNext'[D[i]] = IF i = n + 1 THEN NULL ELSE D[i + 1]
    <3>1. D[i] = C[j] /\ C[j] \in Requests /\ C[j] # r /\ j \in 1 .. n
      BY <1>1, <2>3
    <3>2. 0 < k => k \in 1 .. n /\ C[j] # C[k]
      BY <1>2, <2>3, <3>1
    <3>3. qNext'[D[i]] = IF j = n THEN NULL ELSE C[j + 1]
      BY <1>2, <1>3, <3>1, <3>2
    <3>4. j # n => j + 1 \in k + 1 .. n /\ i + 1 = (j + 1) + 1
      BY <2>3
    <3>. QED
      BY <1>1, <2>3, <3>3, <3>4
  <2>. QED
    BY <1>1, <2>1, <2>2, <2>3
<1>9. ASSUME NEW x \in Requests, \A i \in 1 .. n + 1 : D[i] # x
      PROVE  qPrev'[x] = NULL /\ qNext'[x] = NULL
  <2>1. x # r
    BY <1>1, <1>9
  <2>2. ASSUME NEW i \in 1 .. n PROVE C[i] # x
    <3>1. CASE i <= k
      BY <1>1, <1>9, <3>1
    <3>2. CASE ~ i <= k
      <4>1. i \in k + 1 .. n
        BY <3>2
      <4>. QED
        BY <1>1, <1>9, <4>1
    <3>. QED
      BY <3>1, <3>2
  <2>3. (k < n => C[k + 1] # x) /\ (0 < k => C[k] # x)
    BY <2>2
  <2>. QED
    BY <1>2, <1>3, <2>1, <2>2, <2>3
<1>10. n + 1 # 0
  OBVIOUS
<1>. QED
  BY <1>4, <1>5, <1>6, <1>7, <1>8, <1>9, <1>10 DEF Linked

\* What the queue keeps: it is a list, and each request of it is due at most
\* a slack later than the next.
Sorted(n, C) == \A i \in 1 .. n - 1 : qEtime[C[i]] <= qEtime[C[i + 1]] + SLACK

QueueOK ==
    /\ qSize \in Nat /\ qNow \in Queue!Times
    /\ qPrev \in [Requests -> Requests \union {NULL}]
    /\ qNext \in [Requests -> Requests \union {NULL}]
    /\ qEtime \in [Requests -> Queue!Times]
    /\ \E C \in [1 .. qSize -> Requests] : Linked(qSize, C) /\ Sorted(qSize, C)

\* An insert keeps the list and its order, wherever it walks to.
LEMMA InsertKeeps ==
    ASSUME QueueOK, NEW r \in Requests, NEW t \in Queue!Times,
           \/ Queue!InsertFirst(r, t) \/ Queue!InsertHead(r, t)
           \/ Queue!InsertTail(r, t) \/ Queue!InsertBetween(r, t)
    PROVE  /\ QueueOK'
           /\ Queue!Queued' = Queue!Queued \union {r} /\ r \notin Queue!Queued
           /\ qEtime' = [qEtime EXCEPT ![r] = t] /\ qNow' = qNow
<1>1. /\ qSize \in Nat /\ qNow \in Queue!Times
      /\ qPrev \in [Requests -> Requests \union {NULL}]
      /\ qNext \in [Requests -> Requests \union {NULL}]
      /\ qEtime \in [Requests -> Queue!Times]
  BY DEF QueueOK
<1>a. PICK n \in Nat : n = qSize
  BY <1>1
<1>b. PICK C \in [1 .. n -> Requests] : Linked(n, C) /\ Sorted(n, C)
  BY <1>a DEF QueueOK
<1>2. n = qSize /\ Linked(n, C) /\ Sorted(n, C)
  BY <1>1, <1>a, <1>b
<1>3. /\ r \notin Queue!Queued /\ qEtime' = [qEtime EXCEPT ![r] = t]
      /\ qSize' = n + 1 /\ qNow' = qNow
  BY <1>2 DEF Queue!InsertFirst, Queue!InsertHead, Queue!InsertTail, Queue!InsertBetween,
      Queue!Put
<1>4. Queue!Queued = {C[i] : i \in 1 .. n} /\ \A i \in 1 .. n : C[i] # r /\ C[i] # NULL
  BY <1>2, <1>3, QueuedIs, QueueSizes
<1>5. /\ \A i, j \in 1 .. n : C[i] = C[j] => i = j
      /\ qHead = IF n = 0 THEN NULL ELSE C[1]
      /\ \A i \in 1 .. n : qNext[C[i]] = IF i = n THEN NULL ELSE C[i + 1]
  BY <1>2 DEF Linked
<1>6. PICK k \in 0 .. n : /\ IsPlace(k, n, C, t)
                          /\ Queue!Curr(t) = IF k = 0 THEN NULL ELSE C[k]
  BY <1>2, CurrIs
<1>7. Spliced(n, C, k, r) /\ qPrev' \in [Requests -> Requests \union {NULL}]
      /\ qNext' \in [Requests -> Requests \union {NULL}]
  <2>1. CASE Queue!InsertFirst(r, t)
    <3>1. n = 0 /\ k = 0
      BY <1>4, <1>5, <1>6, <2>1 DEF Queue!InsertFirst
    <3>. QED
      BY <1>1, <2>1, <3>1 DEF Queue!InsertFirst, Spliced
  <2>2. CASE Queue!InsertHead(r, t)
    <3>1. n # 0 /\ k = 0 /\ qHead = C[1] /\ C[1] \in Requests /\ C[1] # r
      BY <1>4, <1>5, <1>6, <2>2 DEF Queue!InsertHead
    <3>. QED
      BY <1>1, <2>2, <3>1 DEF Queue!InsertHead, Spliced
  <2>3. CASE Queue!InsertTail(r, t)
    <3>1. k # 0 /\ qNext[C[k]] = NULL
      BY <1>6, <2>3 DEF Queue!InsertTail
    <3>2. k = n /\ C[k] \in Requests /\ C[k] # r /\ Queue!Curr(t) = C[k]
      BY <1>4, <1>5, <1>6, <3>1
    <3>. QED
      BY <1>1, <2>3, <3>1, <3>2 DEF Queue!InsertTail, Spliced
  <2>4. CASE Queue!InsertBetween(r, t)
    <3>1. k # 0 /\ qNext[C[k]] # NULL
      BY <1>6, <2>4 DEF Queue!InsertBetween
    <3>2. k < n /\ C[k] \in Requests /\ C[k] # r /\ Queue!Curr(t) = C[k]
      BY <1>4, <1>5, <1>6, <3>1
    <3>3. qNext[C[k]] = C[k + 1] /\ C[k + 1] \in Requests /\ C[k + 1] # r
      BY <1>4, <1>5, <3>1, <3>2
    <3>. QED
      BY <1>1, <2>4, <3>1, <3>2, <3>3 DEF Queue!InsertBetween, Spliced
  <2>. QED
    BY <2>1, <2>2, <2>3, <2>4
<1>8. PICK D : D = Put(n, C, k, r)
  OBVIOUS
<1>9. IsPut(D, n, C, k, r)
  BY <1>8, PutFacts
<1>10. Linked(n + 1, D)'
  BY <1>2, <1>4, <1>7, <1>8, SplicedLinks
<1>11. Sorted(n + 1, D)'
  <2>1. /\ \A j \in 1 .. k : D[j] = C[j]
        /\ D[k + 1] = r
        /\ \A j \in k + 1 .. n : D[j + 1] = C[j]
    BY <1>9 DEF IsPut
  <2>2. /\ qEtime'[r] = t /\ t \in Int /\ SLACK \in Nat
        /\ \A j \in 1 .. n : qEtime'[C[j]] = qEtime[C[j]] /\ qEtime[C[j]] \in Int
    BY <1>1, <1>3, <1>4, QueueSizes DEF Queue!Times
  <2>3. /\ k # 0 => qEtime[C[k]] <= t + SLACK
        /\ \A j \in 1 .. n : k < j => ~ qEtime[C[j]] <= t + SLACK
    BY <1>6 DEF IsPlace, Queue!NotLater
  <2>4. \A i \in 1 .. n - 1 : qEtime[C[i]] <= qEtime[C[i + 1]] + SLACK
    BY <1>2 DEF Sorted
  <2>5. ASSUME NEW i \in 1 .. n PROVE qEtime'[D[i]] <= qEtime'[D[i + 1]] + SLACK
    <3>1. CASE i < k
      <4>1. i \in 1 .. k /\ i + 1 \in 1 .. k /\ i \in 1 .. n - 1 /\ i + 1 \in 1 .. n
        BY <3>1
      <4>. QED
        BY <2>1, <2>2, <2>4, <4>1
    <3>2. CASE i = k
      BY <2>1, <2>2, <2>3, <3>2
    <3>3. CASE i = k + 1
      <4>1. i \in k + 1 .. n /\ k < i
        BY <3>3
      <4>2. D[i] = r /\ D[i + 1] = C[i]
        BY <2>1, <3>3, <4>1
      <4>3. ~ qEtime[C[i]] <= t + SLACK
        BY <2>3, <4>1
      <4>. QED
        BY <2>2, <4>2, <4>3
    <3>4. CASE k + 1 < i
      <4>1. PICK j : j = i - 1
        OBVIOUS
      <4>2. /\ j \in k + 1 .. n /\ j + 1 \in k + 1 .. n /\ j \in 1 .. n - 1
            /\ j \in 1 .. n /\ j + 1 \in 1 .. n /\ j + 1 = i
        BY <3>4, <4>1
      <4>3. D[j + 1] = C[j] /\ D[(j + 1) + 1] = C[j + 1]
        BY <2>1, <4>2
      <4>. QED
        BY <2>2, <2>4, <4>2, <4>3
    <3>. QED
      BY <3>1, <3>2, <3>3, <3>4
  <2>6. (n + 1) - 1 = n
    OBVIOUS
  <2>. QED
    BY <2>5, <2>6 DEF Sorted
<1>12. QueueOK'
  <2>1. D \in [1 .. n + 1 -> Requests]
    BY <1>9 DEF IsPut
  <2>2. Linked(qSize, D)' /\ Sorted(qSize, D)' /\ qSize' = n + 1
    BY <1>3, <1>10, <1>11 DEF Linked, Sorted
  <2>3. qEtime' \in [Requests -> Queue!Times]
    BY <1>1, <1>3
  <2>. QED
    BY <1>1, <1>3, <1>7, <2>1, <2>2, <2>3 DEF QueueOK, Queue!Times
<1>13. Queue!Queued' = Queue!Queued \union {r}
  <2>1. \A x : x \in Queue!Queued' <=> x \in Requests /\ (x = qHead' \/ qPrev'[x] # NULL)
    BY DEF Queue!Queued
  <2>2. \A x \in Requests : x = r \/ (x # r /\ (x \in Queue!Queued <=> x = qHead \/ qPrev[x] # NULL))
    BY DEF Queue!Queued
  <2>3. /\ qHead' = IF k = 0 THEN r ELSE qHead
        /\ \A x \in Requests :
              qPrev'[x] = IF x = r THEN (IF k = 0 THEN NULL ELSE C[k])
                          ELSE IF k < n /\ x = C[k + 1] THEN r ELSE qPrev[x]
    BY <1>7 DEF Spliced
  <2>4. r \in Queue!Queued'
    BY <1>4, <2>1, <2>3
  <2>5. k < n => C[k + 1] \in Queue!Queued /\ k + 1 \in 1 .. n
    BY <1>4
  <2>6. ASSUME NEW x \in Requests, x # r
        PROVE  x \in Queue!Queued' <=> x \in Queue!Queued
    <3>1. CASE k < n /\ x = C[k + 1]
      BY <2>1, <2>3, <2>5, <2>6, <3>1, QueueSizes
    <3>2. CASE ~ (k < n /\ x = C[k + 1])
      <4>1. qPrev'[x] = qPrev[x]
        BY <2>3, <2>6, <3>2
      <4>2. x = qHead => k # 0
        BY <1>4, <1>5, <2>6, <3>2, QueueSizes
      <4>3. x = qHead <=> x = qHead'
        BY <2>3, <2>6, <4>2
      <4>. QED
        BY <2>1, <2>2, <2>6, <4>1, <4>3
    <3>. QED
      BY <3>1, <3>2
  <2>7. Queue!Queued \subseteq Requests
    BY DEF Queue!Queued
  <2>. QED
    BY <2>1, <2>4, <2>6, <2>7
<1>. QED
  BY <1>3, <1>12, <1>13

\* A dequeue takes the first request, which is due.
LEMMA DequeueKeeps ==
    ASSUME QueueOK, Queue!Dequeue
    PROVE  /\ QueueOK'
           /\ qHead \in Queue!Queued /\ Queue!Queued' = Queue!Queued \ {qHead}
           /\ qEtime' = [qEtime EXCEPT ![qHead] = 0] /\ qEtime[qHead] <= qNow
           /\ qNow' = qNow
<1>1. /\ qSize \in Nat /\ qNow \in Queue!Times
      /\ qPrev \in [Requests -> Requests \union {NULL}]
      /\ qNext \in [Requests -> Requests \union {NULL}]
      /\ qEtime \in [Requests -> Queue!Times]
  BY DEF QueueOK
<1>a. PICK n \in Nat : n = qSize
  BY <1>1
<1>b. PICK C \in [1 .. n -> Requests] : Linked(n, C) /\ Sorted(n, C)
  BY <1>a DEF QueueOK
<1>2. /\ \A i, j \in 1 .. n : C[i] = C[j] => i = j
      /\ qHead = IF n = 0 THEN NULL ELSE C[1]
      /\ qLast = IF n = 0 THEN NULL ELSE C[n]
      /\ \A i \in 1 .. n : /\ qPrev[C[i]] = IF i = 1 THEN NULL ELSE C[i - 1]
                           /\ qNext[C[i]] = IF i = n THEN NULL ELSE C[i + 1]
      /\ \A x \in Requests : (\A i \in 1 .. n : C[i] # x) => qPrev[x] = NULL /\ qNext[x] = NULL
  BY <1>b DEF Linked
<1>3. /\ qHead # NULL /\ qEtime[qHead] <= qNow /\ qHead' = qNext[qHead]
      /\ qPrev' = [x \in Requests |-> IF x \in {qHead, qNext[qHead]} THEN NULL ELSE qPrev[x]]
      /\ qNext' = [qNext EXCEPT ![qHead] = NULL]
      /\ qLast' = IF qNext[qHead] = NULL THEN NULL ELSE qLast
      /\ qEtime' = [qEtime EXCEPT ![qHead] = 0]
      /\ qSize' = n - 1 /\ qNow' = qNow
  BY <1>a DEF Queue!Dequeue, Queue!Due
<1>4. n # 0 /\ qHead = C[1] /\ C[1] \in Requests
  BY <1>2, <1>3
<1>5. PICK m, D : m = n - 1 /\ D = [j \in 1 .. m |-> C[j + 1]]
  OBVIOUS
<1>6. /\ m \in Nat /\ n = m + 1 /\ D \in [1 .. m -> Requests]
      /\ \A j \in 1 .. m : D[j] = C[j + 1] /\ j + 1 \in 1 .. n
  BY <1>4, <1>5
<1>7. qNext[qHead] = IF m = 0 THEN NULL ELSE C[2]
  BY <1>2, <1>4, <1>6
<1>8. \A j \in 1 .. m : D[j] \in Requests /\ D[j] # NULL /\ D[j] # qHead
  BY <1>2, <1>4, <1>6, QueueSizes
<1>9. Linked(m, D)'
  <2>1. ASSUME NEW i \in 1 .. m, NEW j \in 1 .. m, D[i] = D[j] PROVE i = j
    <3>1. C[i + 1] = C[j + 1] /\ i + 1 \in 1 .. n /\ j + 1 \in 1 .. n
      BY <1>6, <2>1
    <3>2. i + 1 = j + 1
      BY <1>2, <3>1
    <3>. QED
      BY <1>6, <3>2
  <2>2. qHead' = IF m = 0 THEN NULL ELSE D[1]
    BY <1>3, <1>6, <1>7
  <2>3. qLast' = IF m = 0 THEN NULL ELSE D[m]
    BY <1>2, <1>3, <1>4, <1>6, <1>7, QueueSizes
  <2>4. ASSUME NEW i \in 1 .. m
        PROVE  /\ qPrev'[D[i]] = IF i = 1 THEN NULL ELSE D[i - 1]
               /\ qNext'[D[i]] = IF i = m THEN NULL ELSE D[i + 1]
    <3>1. D[i] = C[i + 1] /\ i + 1 \in 1 .. n /\ D[i] \in Requests /\ D[i] # qHead
      BY <1>6, <1>8
    <3>2. qNext'[D[i]] = qNext[D[i]]
      BY <1>1, <1>3, <3>1
    <3>3. qNext[D[i]] = IF i = m THEN NULL ELSE C[(i + 1) + 1]
      BY <1>2, <1>6, <3>1
    <3>4. i # m => i + 1 \in 1 .. m /\ D[i + 1] = C[(i + 1) + 1]
      BY <1>6
    <3>5. qPrev'[D[i]] = IF D[i] = qNext[qHead] THEN NULL ELSE qPrev[D[i]]
      BY <1>3, <3>1
    <3>6. CASE i = 1
      <4>1. D[i] = qNext[qHead]
        BY <1>6, <1>7, <3>1, <3>6
      <4>. QED
        BY <3>2, <3>3, <3>4, <3>5, <3>6, <4>1
    <3>7. CASE i # 1
      <4>1. qPrev[D[i]] = C[i] /\ i - 1 \in 1 .. m /\ D[i - 1] = C[i]
        BY <1>2, <1>6, <3>1, <3>7
      <4>2. 2 \in 1 .. n /\ D[i] # C[2] /\ m # 0
        BY <1>2, <1>6, <3>1, <3>7
      <4>. QED
        BY <1>7, <3>2, <3>3, <3>4, <3>5, <3>7, <4>1, <4>2
    <3>. QED
      BY <3>6, <3>7
  <2>5. ASSUME NEW x \in Requests, \A i \in 1 .. m : D[i] # x
        PROVE  qPrev'[x] = NULL /\ qNext'[x] = NULL
    <3>1. CASE x = qHead
      BY <1>1, <1>3, <3>1
    <3>2. CASE x # qHead
      <4>1. ASSUME NEW i \in 1 .. n PROVE C[i] # x
        <5>1. CASE i = 1
          BY <1>4, <3>2, <5>1
        <5>2. CASE i # 1
          <6>1. i - 1 \in 1 .. m /\ D[i - 1] = C[i]
            BY <1>6, <5>2
          <6>. QED
            BY <2>5, <6>1
        <5>. QED
          BY <5>1, <5>2
      <4>. QED
        BY <1>1, <1>2, <1>3, <3>2, <4>1
    <3>. QED
      BY <3>1, <3>2
  <2>. QED
    BY <2>1, <2>2, <2>3, <2>4, <2>5 DEF Linked
<1>10. Sorted(m, D)'
  <2>1. \A i \in 1 .. n - 1 : qEtime[C[i]] <= qEtime[C[i + 1]] + SLACK
    BY <1>b DEF Sorted
  <2>2. ASSUME NEW i \in 1 .. m - 1 PROVE qEtime'[D[i]] <= qEtime'[D[i + 1]] + SLACK
    <3>1. i \in 1 .. m /\ i + 1 \in 1 .. m /\ i + 1 \in 1 .. n - 1
      BY <1>6
    <3>2. /\ D[i] = C[i + 1] /\ D[i + 1] = C[(i + 1) + 1]
          /\ D[i] \in Requests /\ D[i + 1] \in Requests
          /\ D[i] # qHead /\ D[i + 1] # qHead
      BY <1>6, <1>8, <3>1
    <3>3. qEtime'[D[i]] = qEtime[D[i]] /\ qEtime'[D[i + 1]] = qEtime[D[i + 1]]
      BY <1>1, <1>3, <3>2
    <3>4. qEtime[C[i + 1]] <= qEtime[C[(i + 1) + 1]] + SLACK
      BY <2>1, <3>1
    <3>. QED
      BY <3>2, <3>3, <3>4
  <2>. QED
    BY <2>2 DEF Sorted
<1>11. 0 \in Queue!Times
  BY QueueSizes DEF Queue!Times
<1>12. /\ qPrev' \in [Requests -> Requests \union {NULL}]
       /\ qNext' \in [Requests -> Requests \union {NULL}]
       /\ qEtime' \in [Requests -> Queue!Times]
       /\ qSize' = m /\ qNow' \in Queue!Times'
  BY <1>1, <1>3, <1>5, <1>11 DEF Queue!Times
<1>13. QueueOK'
  <2>1. Linked(qSize, D)' /\ Sorted(qSize, D)'
    BY <1>9, <1>10, <1>12 DEF Linked, Sorted
  <2>. QED
    BY <1>6, <1>12, <2>1 DEF QueueOK, Queue!Times
<1>14. qHead \in Queue!Queued /\ Queue!Queued' = Queue!Queued \ {qHead}
  <2>1. Queue!Queued = {C[i] : i \in 1 .. n}
    BY <1>b, QueuedIs
  <2>2. \A x : x \in Queue!Queued' <=> x \in Requests /\ (x = qHead' \/ qPrev'[x] # NULL)
    BY DEF Queue!Queued
  <2>3. ASSUME NEW x \in Requests PROVE x \in Queue!Queued' <=> \E i \in 1 .. m : x = D[i]
    <3>1. ASSUME NEW i \in 1 .. m, x = D[i] PROVE x \in Queue!Queued'
      <4>1. /\ qPrev'[D[i]] = IF i = 1 THEN NULL ELSE D[i - 1]
            /\ qHead' = IF m = 0 THEN NULL ELSE D[1]
        BY <1>9 DEF Linked
      <4>2. (i # 1 => i - 1 \in 1 .. m) /\ m # 0
        BY <1>6
      <4>. QED
        BY <1>8, <2>2, <3>1, <4>1, <4>2
    <3>2. ASSUME x \in Queue!Queued', \A i \in 1 .. m : x # D[i] PROVE FALSE
      <4>1. /\ qHead' = IF m = 0 THEN NULL ELSE D[1]
            /\ qPrev'[x] = NULL
        BY <1>9, <3>2 DEF Linked
      <4>2. m # 0 => 1 \in 1 .. m
        BY <1>6
      <4>. QED
        BY <2>2, <3>2, <4>1, <4>2, QueueSizes
    <3>. QED
      BY <3>1, <3>2
  <2>4. ASSUME NEW x PROVE (\E i \in 1 .. m : x = D[i]) <=> x \in Queue!Queued /\ x # qHead
    <3>1. ASSUME NEW i \in 1 .. m, x = D[i] PROVE x \in Queue!Queued /\ x # qHead
      BY <1>6, <1>8, <2>1, <3>1
    <3>2. ASSUME NEW i \in 1 .. n, x = C[i], x # qHead PROVE \E j \in 1 .. m : x = D[j]
      <4>1. i - 1 \in 1 .. m /\ D[i - 1] = C[i]
        BY <1>4, <1>6, <3>2
      <4>. QED
        BY <3>2, <4>1
    <3>. QED
      BY <2>1, <3>1, <3>2
  <2>5. qHead \in Queue!Queued
    BY <1>4, <2>1
  <2>6. Queue!Queued' \subseteq Requests /\ Queue!Queued \subseteq Requests
    BY <2>2 DEF Queue!Queued
  <2>. QED
    BY <2>3, <2>4, <2>5, <2>6
<1>. QED
  BY <1>3, <1>13, <1>14

\* What the module of the queue says of its own state.
LEMMA QueueTells ==
    QueueOK => Queue!TypeOK /\ Queue!LinksAgree /\ Queue!SortedWithinSlack
<1>. SUFFICES ASSUME QueueOK
     PROVE  Queue!TypeOK /\ Queue!LinksAgree /\ Queue!SortedWithinSlack
  OBVIOUS
<1>1. /\ qSize \in Nat /\ qNow \in Queue!Times
      /\ qPrev \in [Requests -> Requests \union {NULL}]
      /\ qNext \in [Requests -> Requests \union {NULL}]
      /\ qEtime \in [Requests -> Queue!Times]
  BY DEF QueueOK
<1>a. PICK n \in Nat : n = qSize
  BY <1>1
<1>b. PICK C \in [1 .. n -> Requests] : Linked(n, C) /\ Sorted(n, C)
  BY <1>a DEF QueueOK
<1>2. /\ \A i, j \in 1 .. n : C[i] = C[j] => i = j
      /\ qHead = IF n = 0 THEN NULL ELSE C[1]
      /\ qLast = IF n = 0 THEN NULL ELSE C[n]
      /\ \A i \in 1 .. n : /\ qPrev[C[i]] = IF i = 1 THEN NULL ELSE C[i - 1]
                           /\ qNext[C[i]] = IF i = n THEN NULL ELSE C[i + 1]
      /\ \A x \in Requests : (\A i \in 1 .. n : C[i] # x) => qPrev[x] = NULL /\ qNext[x] = NULL
  BY <1>b DEF Linked
<1>3. Queue!Chain = C
  BY <1>b, ChainIs
<1>4. Queue!Queued = {C[i] : i \in 1 .. n}
  BY <1>b, QueuedIs
<1>5. /\ n <= Reqs0 /\ Cardinality({C[i] : i \in 1 .. n}) = n
      /\ Queue!Cardinality(Queue!Queued) = Cardinality(Queue!Queued)
  BY <1>2, FewerThanAll DEF Queue!Cardinality, Cardinality
<1>6. Len(C) = n
  BY FunctionIsSeq
<1>7. Queue!TypeOK
  <2>1. qHead \in Requests \union {NULL} /\ qLast \in Requests \union {NULL}
    BY <1>2
  <2>2. qSize \in 0 .. Queue!Cardinality(Requests)
    BY <1>a, <1>5, QueueSizes
  <2>. QED
    BY <1>1, <2>1, <2>2 DEF Queue!TypeOK
<1>8. Queue!LinksAgree
  <2>1. \A r \in Requests \ Queue!Queued : qNext[r] = NULL
    BY <1>2, <1>4
  <2>. QED
    BY <1>a, <1>2, <1>3, <1>4, <1>5, <1>6, <2>1 DEF Queue!LinksAgree
<1>9. Queue!SortedWithinSlack
  <2>1. ASSUME NEW i \in 1 .. n, NEW j \in 1 .. n, i < j
        PROVE  qEtime[C[i]] <= qEtime[C[j]] + (j - i) * SLACK
    <3> DEFINE S == {d \in 0 .. n - i : qEtime[C[i]] <= qEtime[C[i + d]] + d * SLACK}
    <3>1. \A d \in 0 .. n - i : i + d \in 1 .. n /\ qEtime[C[i + d]] \in Int
      BY <1>1 DEF Queue!Times
    <3>2. 0 \in S
      <4>1. 0 \in 0 .. n - i /\ i + 0 = i /\ 0 * SLACK = 0
        BY QueueSizes
      <4>2. qEtime[C[i]] \in Int
        BY <3>1, <4>1
      <4>. QED
        BY <4>1, <4>2
    <3>3. ASSUME NEW d \in 0 .. (n - i) - 1, d \in S PROVE d + 1 \in S
      <4>1. d + 1 \in 0 .. n - i /\ d \in 0 .. n - i /\ i + d \in 1 .. n - 1
        OBVIOUS
      <4>2. qEtime[C[i + d]] <= qEtime[C[(i + d) + 1]] + SLACK /\ (i + d) + 1 = i + (d + 1)
        BY <1>b, <4>1 DEF Sorted
      <4>3. qEtime[C[i]] <= qEtime[C[i + d]] + d * SLACK
        BY <3>3
      <4>4. (d + 1) * SLACK = d * SLACK + SLACK /\ d * SLACK \in Int
        BY <4>1, QueueSizes
      <4>5. /\ qEtime[C[i]] \in Int /\ qEtime[C[i + d]] \in Int
            /\ qEtime[C[i + (d + 1)]] \in Int
        BY <1>1, <3>1, <4>1 DEF Queue!Times
      <4>6. qEtime[C[i]] <= qEtime[C[i + (d + 1)]] + (d + 1) * SLACK
        <5>1. SLACK \in Int
          BY QueueSizes
        <5>. QED
          BY ONLY <4>2, <4>3, <4>4, <4>5, <5>1
      <4>. QED
        BY <4>1, <4>6
    <3>. HIDE DEF S
    <3>4. n - i \in Nat
      BY <2>1
    <3>5. 0 .. n - i \subseteq S
      BY <3>2, <3>3, <3>4, Induction
    <3>6. j - i \in S /\ i + (j - i) = j
      BY <2>1, <3>5
    <3>. QED
      BY <3>6 DEF S
  <2>2. DOMAIN C = 1 .. n
    OBVIOUS
  <2>. QED
    BY <1>3, <2>1, <2>2 DEF Queue!SortedWithinSlack
<1>. QED
  BY <1>7, <1>8, <1>9

LEMMA QueueEmpty == Queue!Init => Queue!Queued = {}
<1>. SUFFICES ASSUME Queue!Init PROVE Queue!Queued = {}
  OBVIOUS
<1>1. PICK C : C = [j \in 1 .. 0 |-> NULL]
  OBVIOUS
<1>2. C \in [1 .. 0 -> Requests] /\ 1 .. 0 = {}
  BY <1>1
<1>3. Linked(0, C)
  BY <1>2 DEF Queue!Init, Linked
<1>4. 0 \in Nat
  OBVIOUS
<1>5. Queue!Queued = {C[i] : i \in 1 .. 0}
  BY <1>2, <1>3, <1>4, QueuedIs
<1>. QED
  BY <1>2, <1>5

LEMMA QueueStart == Queue!Init => QueueOK
<1>. SUFFICES ASSUME Queue!Init PROVE QueueOK
  OBVIOUS
<1>1. 0 \in Queue!Times
  BY QueueSizes DEF Queue!Times
<1>2. PICK C : C = [j \in 1 .. 0 |-> NULL]
  OBVIOUS
<1>3. C \in [1 .. 0 -> Requests] /\ 1 .. 0 = {}
  BY <1>2
<1>4. Linked(0, C) /\ Sorted(0, C)
  BY <1>3 DEF Queue!Init, Linked, Sorted
<1>. QED
  BY <1>1, <1>3, <1>4 DEF Queue!Init, QueueOK

\* Every step keeps the queue, and is a step of the pool or none.
LEMMA QueueSteps ==
    ASSUME QueueOK, Queue!Next
    PROVE  QueueOK' /\ Queue!Pool!Next
<1>0. qNow \in Queue!Times /\ qEtime \in [Requests -> Queue!Times]
  BY DEF QueueOK
<1>1. CASE \E r \in Requests, t \in Queue!Times :
              \/ Queue!InsertFirst(r, t) \/ Queue!InsertHead(r, t)
              \/ Queue!InsertTail(r, t) \/ Queue!InsertBetween(r, t)
  <2>1. PICK r \in Requests, t \in Queue!Times :
              \/ Queue!InsertFirst(r, t) \/ Queue!InsertHead(r, t)
              \/ Queue!InsertTail(r, t) \/ Queue!InsertBetween(r, t)
    BY <1>1
  <2>2. /\ QueueOK'
        /\ Queue!Queued' = Queue!Queued \union {r} /\ r \notin Queue!Queued
        /\ qEtime' = [qEtime EXCEPT ![r] = t] /\ qNow' = qNow
    BY <2>1, InsertKeeps
  <2>3. PICK Q, R : Q = Queue!Queued /\ R = Queue!Queued'
    OBVIOUS
  <2>4. Q \subseteq Requests
    BY <2>3 DEF Queue!Queued
  <2>5. [x \in R |-> qEtime'[x]] = [x \in Q \union {r} |-> IF x = r THEN t ELSE qEtime[x]]
    BY <1>0, <2>2, <2>3, <2>4
  <2>6. Queue!Pool!Put(r)
    BY <2>2, <2>3, <2>5 DEF Queue!Pool!Put
  <2>. QED
    BY <2>2, <2>6 DEF Queue!Pool!Next
<1>2. CASE Queue!Dequeue
  <2>0. PICK r : r = qHead
    OBVIOUS
  <2>1. /\ QueueOK'
        /\ r \in Queue!Queued /\ Queue!Queued' = Queue!Queued \ {r}
        /\ qEtime' = [qEtime EXCEPT ![r] = 0] /\ qEtime[r] <= qNow
        /\ qNow' = qNow
    BY <1>2, <2>0, DequeueKeeps
  <2>2. PICK Q, R : Q = Queue!Queued /\ R = Queue!Queued'
    OBVIOUS
  <2>3. Q \subseteq Requests
    BY <2>2 DEF Queue!Queued
  <2>4. [x \in R |-> qEtime'[x]] = [x \in Q \ {r} |-> qEtime[x]]
    BY <1>0, <2>1, <2>2, <2>3
  <2>5. Queue!Pool!Take(r)
    BY <2>1, <2>2, <2>4 DEF Queue!Pool!Take, Queue!Pool!Restrict
  <2>. QED
    BY <2>1, <2>2, <2>3, <2>5 DEF Queue!Pool!Next
<1>3. CASE Queue!Tick
  <2>1. UNCHANGED <<qHead, qLast, qSize, qPrev, qNext, qEtime>> /\ qNow' = qNow + 1
        /\ qNow < MaxTime
    BY <1>3 DEF Queue!Tick
  <2>2. qNow' \in Queue!Times /\ qNow < qNow'
    BY <1>0, <2>1, QueueSizes DEF Queue!Times
  <2>3. QueueOK'
    <3>1. PICK C \in [1 .. qSize -> Requests] : Linked(qSize, C) /\ Sorted(qSize, C)
      BY DEF QueueOK
    <3>2. Linked(qSize, C)' /\ Sorted(qSize, C)' /\ qSize' = qSize
      BY <2>1, <3>1 DEF Linked, Sorted
    <3>. QED
      BY <2>1, <2>2, <3>2 DEF QueueOK
  <2>4. Queue!Queued' = Queue!Queued
    BY <2>1 DEF Queue!Queued
  <2>5. Queue!Pool!Pass
    BY <2>1, <2>2, <2>4 DEF Queue!Pool!Pass
  <2>. QED
    BY <2>3, <2>5 DEF Queue!Pool!Next
<1>. QED
  BY <1>1, <1>2, <1>3 DEF Queue!Next

-----------------------------------------------------------------------------
(* The LRU list. *)

LEMMA LruSizes ==
    IsFiniteSet(ListNodes) /\ NULL \notin ListNodes /\ Junk \notin ListNodes \union Data
    /\ Junk # NULL
BY PartsAssumption DEF Lru!LruAssumption, Lru!IsFiniteSet, IsFiniteSet

\* The links p and q, from h and from t, go through the n nodes of C.
ListOf(h, t, p, q, n, C) ==
    /\ \A i, j \in 1 .. n : C[i] = C[j] => i = j
    /\ h = IF n = 0 THEN NULL ELSE C[1]
    /\ t = IF n = 0 THEN NULL ELSE C[n]
    /\ \A i \in 1 .. n : /\ p[C[i]] = IF i = 1 THEN NULL ELSE C[i - 1]
                         /\ q[C[i]] = IF i = n THEN NULL ELSE C[i + 1]

\* A node put in front of C.
WithFirst(x, n, C) == [j \in 1 .. n + 1 |-> IF j = 1 THEN x ELSE C[j - 1]]

\* The node x is linked before the others.
Fronted(x, h, t, p, q, t2, p2, q2, n, C) ==
    /\ \A i \in 1 .. n : /\ C[i] # x
                         /\ p2[C[i]] = IF i = 1 THEN x ELSE p[C[i]]
                         /\ q2[C[i]] = q[C[i]]
    /\ p2[x] = NULL /\ q2[x] = h /\ t2 = IF n = 0 THEN x ELSE t

\* The links are those of x and C, and this is D.
FrontOf(x, t, p, q, n, C, D) ==
    /\ ListOf(x, t, p, q, n + 1, D) /\ D \in [1 .. n + 1 -> ListNodes]
    /\ {D[i] : i \in 1 .. n + 1} = {C[i] : i \in 1 .. n} \union {x}

LEMMA InFront ==
    ASSUME NEW n \in Nat, NEW C \in [1 .. n -> ListNodes], NEW x \in ListNodes,
           NEW h, NEW t, NEW p, NEW q, NEW t2, NEW p2, NEW q2,
           ListOf(h, t, p, q, n, C), Fronted(x, h, t, p, q, t2, p2, q2, n, C),
           NEW D, D = WithFirst(x, n, C)
    PROVE  FrontOf(x, t2, p2, q2, n, C, D)
<1>a. /\ \A i \in 1 .. n : /\ C[i] # x
                           /\ p2[C[i]] = IF i = 1 THEN x ELSE p[C[i]]
                           /\ q2[C[i]] = q[C[i]]
      /\ p2[x] = NULL /\ q2[x] = h /\ t2 = IF n = 0 THEN x ELSE t
  BY DEF Fronted
<1>1. /\ \A i, j \in 1 .. n : C[i] = C[j] => i = j
      /\ h = IF n = 0 THEN NULL ELSE C[1]
      /\ t = IF n = 0 THEN NULL ELSE C[n]
      /\ \A i \in 1 .. n : /\ p[C[i]] = IF i = 1 THEN NULL ELSE C[i - 1]
                           /\ q[C[i]] = IF i = n THEN NULL ELSE C[i + 1]
  BY DEF ListOf
<1>2. /\ D \in [1 .. n + 1 -> ListNodes] /\ D[1] = x
      /\ \A i \in 1 .. n : i + 1 \in 1 .. n + 1 /\ D[i + 1] = C[i]
  BY DEF WithFirst
<1>3. \A j \in 1 .. n + 1 : j # 1 => j - 1 \in 1 .. n /\ D[j] = C[j - 1] /\ C[j - 1] # x
  BY <1>a DEF WithFirst
<1>4. ASSUME NEW i \in 1 .. n + 1, NEW j \in 1 .. n + 1, D[i] = D[j] PROVE i = j
  <2>1. CASE i = 1 \/ j = 1
    BY <1>2, <1>3, <1>4, <2>1
  <2>2. CASE i # 1 /\ j # 1
    <3>1. i - 1 \in 1 .. n /\ j - 1 \in 1 .. n /\ C[i - 1] = C[j - 1]
      BY <1>3, <1>4, <2>2
    <3>2. i - 1 = j - 1
      BY <1>1, <3>1
    <3>. QED
      BY <3>2
  <2>. QED
    BY <2>1, <2>2
<1>5. t2 = D[n + 1]
  BY <1>a, <1>1, <1>2, <1>3
<1>6. ASSUME NEW j \in 1 .. n + 1
      PROVE  /\ p2[D[j]] = IF j = 1 THEN NULL ELSE D[j - 1]
             /\ q2[D[j]] = IF j = n + 1 THEN NULL ELSE D[j + 1]
  <2>1. CASE j = 1
    <3>1. n # 0 => 1 \in 1 .. n /\ D[1 + 1] = C[1]
      BY <1>2
    <3>. QED
      BY <1>a, <1>1, <1>2, <2>1, <3>1
  <2>2. CASE j # 1
    <3>1. PICK i : i = j - 1
      OBVIOUS
    <3>2. i \in 1 .. n /\ D[j] = C[i] /\ j = i + 1
      BY <1>3, <2>2, <3>1
    <3>3. q2[D[j]] = IF i = n THEN NULL ELSE C[i + 1]
      BY <1>a, <1>1, <3>2
    <3>4. p2[D[j]] = IF i = 1 THEN x ELSE C[i - 1]
      BY <1>a, <1>1, <3>2
    <3>5. i # n => i + 1 \in 1 .. n /\ D[j + 1] = C[i + 1]
      BY <1>2, <3>2
    <3>6. i # 1 => i - 1 \in 1 .. n /\ D[i] = C[i - 1]
      BY <1>2, <3>2
    <3>. QED
      BY <1>2, <2>2, <3>2, <3>3, <3>4, <3>5, <3>6
  <2>. QED
    BY <2>1, <2>2
<1>7. {D[i] : i \in 1 .. n + 1} = {C[i] : i \in 1 .. n} \union {x}
  <2>1. ASSUME NEW j \in 1 .. n + 1 PROVE D[j] \in {C[i] : i \in 1 .. n} \union {x}
    BY <1>2, <1>3
  <2>2. ASSUME NEW i \in 1 .. n PROVE C[i] \in {D[j] : j \in 1 .. n + 1}
    BY <1>2
  <2>3. x \in {D[j] : j \in 1 .. n + 1}
    <3>1. 1 \in 1 .. n + 1
      OBVIOUS
    <3>. QED
      BY <1>2, <3>1
  <2>. QED
    BY <2>1, <2>2, <2>3
<1>8. ListOf(x, t2, p2, q2, n + 1, D)
  BY <1>2, <1>4, <1>5, <1>6 DEF ListOf
<1>. QED
  BY <1>2, <1>7, <1>8 DEF FrontOf

\* C without its kth node.
Without(k, n, C) == [j \in 1 .. n - 1 |-> IF j < k THEN C[j] ELSE C[j + 1]]

\* The links are those of C without its kth node, and this is D.
OutOf(h, t, p, q, k, n, C, D) ==
    /\ ListOf(h, t, p, q, n - 1, D) /\ D \in [1 .. n - 1 -> ListNodes]
    /\ {D[i] : i \in 1 .. n - 1} = {C[i] : i \in 1 .. n} \ {C[k]}

\* The neighbours of the kth node are linked with each other.
Bridged(h, t, p, q, h2, t2, p2, q2, k, n, C) ==
    /\ h2 = (IF k # 1 THEN h ELSE IF n = 1 THEN NULL ELSE C[2])
    /\ t2 = (IF k # n THEN t ELSE IF n = 1 THEN NULL ELSE C[n - 1])
    /\ \A i \in 1 .. n : i # k =>
          /\ p2[C[i]] = IF i = k + 1 THEN (IF k = 1 THEN NULL ELSE C[k - 1]) ELSE p[C[i]]
          /\ q2[C[i]] = IF i = k - 1 THEN (IF k = n THEN NULL ELSE C[k + 1]) ELSE q[C[i]]

LEMMA TakenOut ==
    ASSUME NEW n \in Nat, NEW C \in [1 .. n -> ListNodes], NEW k \in 1 .. n,
           NEW h, NEW t, NEW p, NEW q, NEW h2, NEW t2, NEW p2, NEW q2,
           ListOf(h, t, p, q, n, C), Bridged(h, t, p, q, h2, t2, p2, q2, k, n, C),
           NEW D, D = Without(k, n, C)
    PROVE  OutOf(h2, t2, p2, q2, k, n, C, D)
<1>1. /\ \A i, j \in 1 .. n : C[i] = C[j] => i = j
      /\ h = C[1] /\ t = C[n]
      /\ \A i \in 1 .. n : /\ p[C[i]] = IF i = 1 THEN NULL ELSE C[i - 1]
                           /\ q[C[i]] = IF i = n THEN NULL ELSE C[i + 1]
  <2>1. n # 0
    OBVIOUS
  <2>. QED
    BY ONLY <2>1, ListOf(h, t, p, q, n, C) DEF ListOf
<1>b. /\ h2 = (IF k # 1 THEN h ELSE IF n = 1 THEN NULL ELSE C[2])
      /\ t2 = (IF k # n THEN t ELSE IF n = 1 THEN NULL ELSE C[n - 1])
      /\ \A i \in 1 .. n : i # k =>
            /\ p2[C[i]] = IF i = k + 1 THEN (IF k = 1 THEN NULL ELSE C[k - 1]) ELSE p[C[i]]
            /\ q2[C[i]] = IF i = k - 1 THEN (IF k = n THEN NULL ELSE C[k + 1]) ELSE q[C[i]]
  BY DEF Bridged
<1>a. PICK m : m = n - 1
  OBVIOUS
<1>2. /\ m \in Nat /\ n = m + 1 /\ D \in [1 .. m -> ListNodes]
      /\ \A j \in 1 .. m : j < k => j \in 1 .. n /\ D[j] = C[j]
      /\ \A j \in 1 .. m : ~ j < k => j + 1 \in 1 .. n /\ D[j] = C[j + 1]
  BY <1>a DEF Without
<1>3. ASSUME NEW i \in 1 .. m, NEW j \in 1 .. m, D[i] = D[j] PROVE i = j
  <2>1. PICK a, b : a = (IF i < k THEN i ELSE i + 1) /\ b = IF j < k THEN j ELSE j + 1
    OBVIOUS
  <2>2. a \in 1 .. n /\ b \in 1 .. n /\ C[a] = C[b]
    BY <1>2, <1>3, <2>1
  <2>3. a = b
    BY <1>1, <2>2
  <2>. QED
    BY <1>2, <2>1, <2>3
<1>4. h2 = IF m = 0 THEN NULL ELSE D[1]
  BY <1>b, <1>1, <1>2
<1>5. t2 = IF m = 0 THEN NULL ELSE D[m]
  BY <1>b, <1>1, <1>2
<1>6. ASSUME NEW j \in 1 .. m
      PROVE  /\ p2[D[j]] = IF j = 1 THEN NULL ELSE D[j - 1]
             /\ q2[D[j]] = IF j = m THEN NULL ELSE D[j + 1]
  <2>1. CASE j < k
    <3>1. j \in 1 .. n /\ D[j] = C[j] /\ j # k /\ j # k + 1
      BY <1>2, <2>1
    <3>2. p2[D[j]] = IF j = 1 THEN NULL ELSE C[j - 1]
      BY <1>b, <1>1, <3>1
    <3>3. q2[D[j]] = IF j = k - 1 THEN (IF k = n THEN NULL ELSE C[k + 1]) ELSE C[j + 1]
      BY <1>b, <1>1, <1>2, <2>1, <3>1
    <3>4. j # 1 => j - 1 \in 1 .. m /\ j - 1 < k
      BY <1>2, <2>1
    <3>5. j # m => j + 1 \in 1 .. m
      BY <1>2
    <3>6. j = k - 1 => (k = n <=> j = m) /\ ~ j + 1 < k
      BY <1>2, <2>1
    <3>7. j # k - 1 => j + 1 < k /\ j # m
      BY <1>2, <2>1
    <3>. QED
      BY <1>2, <3>1, <3>2, <3>3, <3>4, <3>5, <3>6, <3>7
  <2>2. CASE ~ j < k
    <3>1. PICK i : i = j + 1
      OBVIOUS
    <3>2. i \in 1 .. n /\ D[j] = C[i] /\ i # k /\ i # k - 1 /\ i # 1
      BY <1>2, <2>2, <3>1
    <3>3. q2[D[j]] = IF i = n THEN NULL ELSE C[i + 1]
      BY <1>b, <1>1, <3>2
    <3>4. p2[D[j]] = IF i = k + 1 THEN (IF k = 1 THEN NULL ELSE C[k - 1]) ELSE C[i - 1]
      BY <1>b, <1>1, <3>2
    <3>5. (i = n <=> j = m) /\ (j # m => j + 1 \in 1 .. m /\ ~ j + 1 < k /\ D[j + 1] = C[i + 1])
      BY <1>2, <2>2, <3>1
    <3>6. i = k + 1 => j = k
      BY <3>1
    <3>7. j = k /\ k # 1 => j - 1 \in 1 .. m /\ j - 1 < k /\ D[j - 1] = C[k - 1]
      BY <1>2
    <3>8. j # k => j - 1 \in 1 .. m /\ ~ j - 1 < k /\ D[j - 1] = C[i - 1] /\ j # 1
      BY <1>2, <2>2, <3>1
    <3>. QED
      BY <3>1, <3>2, <3>3, <3>4, <3>5, <3>6, <3>7, <3>8
  <2>. QED
    BY <2>1, <2>2
<1>7. {D[i] : i \in 1 .. m} = {C[i] : i \in 1 .. n} \ {C[k]}
  <2>1. ASSUME NEW j \in 1 .. m PROVE D[j] \in {C[i] : i \in 1 .. n} \ {C[k]}
    <3>1. PICK a : a = IF j < k THEN j ELSE j + 1
      OBVIOUS
    <3>2. a \in 1 .. n /\ a # k /\ D[j] = C[a]
      BY <1>2, <3>1
    <3>. QED
      BY <1>1, <3>2
  <2>2. ASSUME NEW i \in 1 .. n, C[i] # C[k] PROVE C[i] \in {D[j] : j \in 1 .. m}
    <3>1. PICK j : j = IF i < k THEN i ELSE i - 1
      OBVIOUS
    <3>2. i # k
      BY <2>2
    <3>3. j \in 1 .. m /\ (j < k <=> i < k) /\ (~ j < k => j + 1 = i) /\ (j < k => j = i)
      BY <1>2, <3>1, <3>2
    <3>4. D[j] = C[i]
      BY <1>2, <3>3
    <3>. QED
      BY <3>3, <3>4
  <2>. QED
    BY <2>1, <2>2
<1>8. ListOf(h2, t2, p2, q2, m, D)
  BY <1>3, <1>4, <1>5, <1>6 DEF ListOf
<1>. QED
  BY <1>a, <1>2, <1>7, <1>8 DEF OutOf

\* A walk along links that lead through C.
LEMMA WalkIs ==
    ASSUME NEW n \in Nat, n = lSize, NEW C \in [1 .. n -> ListNodes],
           NEW first, NEW links, n # 0 => first = C[1],
           \A i \in 1 .. n - 1 : links[C[i]] = C[i + 1]
    PROVE  Lru!Walk(first, links) = C
<1> DEFINE First(i) == [j \in 1 .. i |-> C[j]]
           Step(i, w) ==
               IF i = 0 THEN <<>>
               ELSE LET at == IF w = <<>> THEN first ELSE links[w[Len(w)]]
                    IN  IF Len(w) = i - 1 /\ at \in ListNodes THEN Append(w, at) ELSE w
           walk[i \in 0 .. lSize] ==
               IF i = 0 THEN <<>>
               ELSE LET w == walk[i - 1]
                        at == IF w = <<>> THEN first ELSE links[w[Len(w)]]
                    IN  IF Len(w) = i - 1 /\ at \in ListNodes THEN Append(w, at) ELSE w
<1>1. Lru!Walk(first, links) = walk[n]
  BY DEF Lru!Walk
<1>2. First(0) = Step(0, 0)
  OBVIOUS
<1>3. ASSUME NEW i \in 1 .. n PROVE First(i) = Step(i, First(i - 1))
  <2>1. PICK w : w = First(i - 1)
    OBVIOUS
  <2>2. Len(w) = i - 1 /\ w \in Seq(ListNodes)
    <3>1. i - 1 \in Nat /\ w \in [1 .. i - 1 -> ListNodes]
      BY <2>1
    <3>. QED
      BY <3>1, FunctionIsSeq
  <2>3. PICK at : at = IF w = <<>> THEN first ELSE links[w[Len(w)]]
    OBVIOUS
  <2>4. at = C[i]
    <3>1. CASE i = 1
      <4>1. w = <<>>
        BY <2>1, <3>1
      <4>. QED
        BY <2>3, <3>1, <4>1
    <3>2. CASE i # 1
      <4>1. w # <<>>
        BY <2>2, <3>2
      <4>2. w[Len(w)] = C[i - 1] /\ i - 1 \in 1 .. n - 1
        BY <2>1, <2>2, <3>2
      <4>3. links[C[i - 1]] = C[(i - 1) + 1] /\ (i - 1) + 1 = i
        BY <4>2
      <4>. QED
        BY <2>3, <4>1, <4>2, <4>3
    <3>. QED
      BY <3>1, <3>2
  <2>5. C[i] \in ListNodes /\ i # 0
    OBVIOUS
  <2>6. Step(i, w) = Append(w, C[i])
    BY <2>2, <2>3, <2>4, <2>5
  <2>7. Append(First(i - 1), C[i]) = First(i)
    <3>1. i - 1 \in 0 .. n - 1 /\ (i - 1) + 1 = i
      OBVIOUS
    <3>2. Append([j \in 1 .. i - 1 |-> C[j]], C[(i - 1) + 1]) = [j \in 1 .. (i - 1) + 1 |-> C[j]]
      BY <3>1, OneMore
    <3>. QED
      BY <3>1, <3>2
  <2>. HIDE DEF First, Step
  <2>. QED
    BY <2>1, <2>6, <2>7
<1>. HIDE DEF First
<1>4. \E g : g = [i \in 0 .. n |-> Step(i, g[i - 1])]
  <2> DEFINE g == [i \in 0 .. n |-> First(i)]
  <2>1. ASSUME NEW i \in 0 .. n PROVE g[i] = Step(i, g[i - 1])
    <3>1. CASE i = 0
      BY <1>2, <3>1
    <3>2. CASE i # 0
      <4>1. i \in 1 .. n /\ i - 1 \in 0 .. n
        BY <3>2
      <4>2. g[i] = First(i) /\ g[i - 1] = First(i - 1)
        BY <4>1
      <4>. HIDE DEF g, Step
      <4>. QED
        BY <1>3, <4>1, <4>2
    <3>. QED
      BY <3>1, <3>2
  <2>2. g = [i \in 0 .. n |-> g[i]]
    OBVIOUS
  <2>. HIDE DEF g
  <2>3. g = [i \in 0 .. n |-> Step(i, g[i - 1])]
    <3>. HIDE DEF Step
    <3>. QED
      BY <2>1, <2>2
  <2>. QED
    BY <2>3
<1>5. walk = [i \in 0 .. n |-> Step(i, walk[i - 1])]
  BY <1>4, Zenon
<1>. HIDE DEF walk
<1>6. walk[n] = First(n)
  <2> DEFINE S == {i \in 0 .. n : walk[i] = First(i)}
  <2>1. 0 \in S
    <3>1. walk[0] = Step(0, 0)
      BY <1>5
    <3>. HIDE DEF Step
    <3>. QED
      BY <1>2, <3>1
  <2>2. ASSUME NEW i \in 0 .. n - 1, i \in S PROVE i + 1 \in S
    <3>1. i + 1 \in 1 .. n /\ i + 1 \in 0 .. n /\ (i + 1) - 1 = i /\ walk[i] = First(i)
      BY <2>2
    <3>. HIDE DEF Step
    <3>2. walk[i + 1] = Step(i + 1, walk[i])
      BY <1>5, <3>1
    <3>3. First(i + 1) = Step(i + 1, First(i))
      BY <1>3, <3>1
    <3>. QED
      BY <3>1, <3>2, <3>3
  <2>. HIDE DEF S
  <2>3. 0 .. n \subseteq S
    BY <2>1, <2>2, Induction
  <2>. QED
    BY <2>3 DEF S
<1>7. First(n) = C
  BY DEF First
<1>. QED
  BY <1>1, <1>6, <1>7

\* The order of the nodes is the one from the head along next.
OrderIs(n, C) ==
    /\ n \in Nat /\ n = lSize /\ C \in [1 .. n -> ListNodes]
    /\ \A i, j \in 1 .. n : C[i] = C[j] => i = j
    /\ lHead = IF n = 0 THEN NULL ELSE C[1]
    /\ lTail = IF n = 0 THEN NULL ELSE C[n]
    /\ \A i \in 1 .. n : /\ lPrev[C[i]] = IF i = 1 THEN NULL ELSE C[i - 1]
                         /\ lNext[C[i]] = IF i = n THEN NULL ELSE C[i + 1]
    /\ Lru!Used = {C[i] : i \in 1 .. n}

LruOK ==
    /\ lSize \in Nat
    /\ lPrev \in [ListNodes -> ListNodes \union {NULL, Junk}]
    /\ lNext \in [ListNodes -> ListNodes \union {NULL, Junk}]
    /\ lData \in [ListNodes -> Data \union {Junk}]
    /\ lResult \in Data \union {NULL}
    /\ \E C \in [1 .. lSize -> ListNodes] : OrderIs(lSize, C)

LEMMA OrderFacts ==
    ASSUME NEW n, NEW C, OrderIs(n, C)
    PROVE  /\ Lru!Walk(lHead, lNext) = C
           /\ Lru!Walk(lTail, lPrev) = [i \in DOMAIN C |-> C[Len(C) + 1 - i]]
           /\ Len(C) = n /\ {C[i] : i \in DOMAIN C} = Lru!Used
<1>1. /\ n \in Nat /\ n = lSize /\ C \in [1 .. n -> ListNodes]
      /\ lHead = IF n = 0 THEN NULL ELSE C[1]
      /\ lTail = IF n = 0 THEN NULL ELSE C[n]
      /\ \A i \in 1 .. n : /\ lPrev[C[i]] = IF i = 1 THEN NULL ELSE C[i - 1]
                           /\ lNext[C[i]] = IF i = n THEN NULL ELSE C[i + 1]
      /\ Lru!Used = {C[i] : i \in 1 .. n}
  BY DEF OrderIs
<1>2. Lru!Walk(lHead, lNext) = C
  <2>1. PICK first, links : first = lHead /\ links = lNext
    OBVIOUS
  <2>2. (n # 0 => first = C[1]) /\ \A i \in 1 .. n - 1 : links[C[i]] = C[i + 1]
    BY <1>1, <2>1
  <2>3. Lru!Walk(first, links) = C
    BY <1>1, <2>2, WalkIs
  <2>. QED
    BY <2>1, <2>3
<1>3. Len(C) = n /\ DOMAIN C = 1 .. n
  BY <1>1, FunctionIsSeq
<1>4. Lru!Walk(lTail, lPrev) = [i \in DOMAIN C |-> C[Len(C) + 1 - i]]
  <2>1. PICK first, links, R : /\ first = lTail /\ links = lPrev
                               /\ R = [i \in 1 .. n |-> C[(n - i) + 1]]
    OBVIOUS
  <2>2. R \in [1 .. n -> ListNodes] /\ (n # 0 => first = R[1])
    BY <1>1, <2>1
  <2>3. ASSUME NEW i \in 1 .. n - 1 PROVE links[R[i]] = R[i + 1]
    <3>1. (n - i) + 1 \in 1 .. n /\ (n - i) + 1 # 1 /\ ((n - i) + 1) - 1 = (n - (i + 1)) + 1
          /\ i \in 1 .. n /\ i + 1 \in 1 .. n
      BY <1>1
    <3>. QED
      BY <1>1, <2>1, <3>1
  <2>4. Lru!Walk(first, links) = R
    BY <1>1, <2>2, <2>3, WalkIs
  <2>5. [i \in DOMAIN C |-> C[Len(C) + 1 - i]] = R
    BY <1>3, <2>1
  <2>. QED
    BY <2>1, <2>4, <2>5
<1>5. {C[i] : i \in DOMAIN C} = Lru!Used
  BY <1>1, <1>3
<1>. QED
  BY <1>2, <1>3, <1>4, <1>5

\* The same with the operators on sequences.
CutForms(k, n, C) ==
    /\ SubSeq(C, 1, k - 1) \o SubSeq(C, k + 1, n) = Without(k, n, C)
    /\ SubSeq(C, 1, n - 1) = Without(n, n, C)
    /\ Tail(C) = Without(1, n, C)

LEMMA SequenceForms ==
    ASSUME NEW S, NEW n \in Nat, NEW C \in [1 .. n -> S], NEW k \in 1 .. n
    PROVE  CutForms(k, n, C)
<1>1. C \in Seq(S) /\ Len(C) = n /\ n # 0
  BY FunctionIsSeq
<1>2. PICK A, B : A = SubSeq(C, 1, k - 1) /\ B = SubSeq(C, k + 1, n)
  OBVIOUS
<1>3. /\ A \in Seq(S) /\ Len(A) = k - 1 /\ \A j \in 1 .. k - 1 : A[j] = C[j]
  <2>1. 1 \in 1 .. Len(C) + 1 /\ k - 1 \in 1 - 1 .. Len(C)
    BY <1>1
  <2>. QED
    BY <1>1, <1>2, <2>1, SubSeqProperties
<1>4. /\ B \in Seq(S) /\ Len(B) = n - k /\ \A j \in 1 .. n - k : B[j] = C[j + k]
  <2>1. k + 1 \in 1 .. Len(C) + 1 /\ n \in (k + 1) - 1 .. Len(C)
    BY <1>1
  <2>2. /\ B \in Seq(S) /\ Len(B) = IF k + 1 <= n THEN n - (k + 1) + 1 ELSE 0
        /\ \A j \in 1 .. n - (k + 1) + 1 : B[j] = C[(k + 1) + j - 1]
    BY <1>1, <1>2, <2>1, SubSeqProperties
  <2>3. n - (k + 1) + 1 = n - k
    OBVIOUS
  <2>4. \A j \in 1 .. n - k : (k + 1) + j - 1 = j + k
    OBVIOUS
  <2>. QED
    BY <2>2, <2>3, <2>4
<1>5. A \o B = Without(k, n, C)
  <2>1. PICK T : T = A \o B
    OBVIOUS
  <2>2. /\ T \in Seq(S) /\ Len(T) = n - 1
        /\ \A j \in 1 .. n - 1 : T[j] = IF j <= k - 1 THEN A[j] ELSE B[j - (k - 1)]
    <3>1. Len(A) + Len(B) = n - 1
      BY <1>3, <1>4
    <3>2. /\ T \in Seq(S) /\ Len(T) = Len(A) + Len(B)
          /\ \A j \in 1 .. Len(A) + Len(B) : T[j] = IF j <= Len(A) THEN A[j] ELSE B[j - Len(A)]
      BY <1>3, <1>4, <2>1, ConcatProperties
    <3>. QED
      BY <1>3, <3>1, <3>2
  <2>3. ASSUME NEW j \in 1 .. n - 1 PROVE T[j] = IF j < k THEN C[j] ELSE C[j + 1]
    <3>1. CASE j < k
      BY <1>3, <2>2, <3>1
    <3>2. CASE ~ j < k
      <4>1. ~ j <= k - 1 /\ j - (k - 1) \in 1 .. n - k /\ (j - (k - 1)) + k = j + 1
        BY <3>2
      <4>. QED
        BY <1>4, <2>2, <3>2, <4>1
    <3>. QED
      BY <3>1, <3>2
  <2>4. T = [j \in 1 .. n - 1 |-> T[j]]
    BY <2>2
  <2>. QED
    BY <2>1, <2>3, <2>4 DEF Without
<1>6. SubSeq(C, 1, n - 1) = Without(n, n, C)
  <2>1. PICK T : T = SubSeq(C, 1, n - 1)
    OBVIOUS
  <2>2. T \in Seq(S) /\ Len(T) = n - 1 /\ \A j \in 1 .. n - 1 : T[j] = C[j]
    <3>1. 1 \in 1 .. Len(C) + 1 /\ n - 1 \in 1 - 1 .. Len(C)
      BY <1>1
    <3>. QED
      BY <1>1, <2>1, <3>1, SubSeqProperties
  <2>3. T = [j \in 1 .. n - 1 |-> T[j]] /\ \A j \in 1 .. n - 1 : j < n
    BY <2>2
  <2>. QED
    BY <2>1, <2>2, <2>3 DEF Without
<1>7. Tail(C) = Without(1, n, C)
  <2>1. PICK T : T = Tail(C)
    OBVIOUS
  <2>2. C # <<>>
    BY <1>1
  <2>3. T \in Seq(S) /\ Len(T) = n - 1 /\ \A j \in 1 .. n - 1 : T[j] = C[j + 1]
    BY <1>1, <2>1, <2>2, HeadTailProperties
  <2>4. T = [j \in 1 .. n - 1 |-> T[j]] /\ \A j \in 1 .. n - 1 : ~ j < 1
    BY <2>3
  <2>. QED
    BY <2>1, <2>3, <2>4 DEF Without
<1>. QED
  BY <1>2, <1>5, <1>6, <1>7 DEF CutForms

LEMMA InFrontForm ==
    ASSUME NEW S, NEW n \in Nat, NEW C \in [1 .. n -> S], NEW x \in S
    PROVE  <<x>> \o C = WithFirst(x, n, C)
<1>1. C \in Seq(S) /\ Len(C) = n
  BY FunctionIsSeq
<1>2. PICK T : T = <<x>> \o C
  OBVIOUS
<1>3. /\ T \in Seq(S) /\ Len(T) = n + 1
      /\ \A j \in 1 .. n + 1 : T[j] = IF j <= 1 THEN x ELSE C[j - 1]
  BY <1>1, <1>2, ConcatProperties
<1>4. T = [j \in 1 .. n + 1 |-> T[j]]
  BY <1>3
<1>5. \A j \in 1 .. n + 1 : j <= 1 <=> j = 1
  OBVIOUS
<1>. QED
  BY <1>2, <1>3, <1>4, <1>5 DEF WithFirst

WalkGivesOrder == \A m, E : OrderIs(m, E) => Lru!Walk(lHead, lNext) = E

LEMMA OrderGives == WalkGivesOrder
BY OrderFacts DEF WalkGivesOrder

\* The list after a step, once its links are known.
LEMMA NextOrder ==
    ASSUME NEW m \in Nat, NEW D \in [1 .. m -> ListNodes], NEW h, NEW t, NEW p, NEW q,
           h = lHead' /\ t = lTail' /\ p = lPrev' /\ q = lNext',
           ListOf(h, t, p, q, m, D), lSize' = m, Lru!Used' = {D[i] : i \in 1 .. m},
           p \in [ListNodes -> ListNodes \union {NULL, Junk}],
           q \in [ListNodes -> ListNodes \union {NULL, Junk}],
           lData' \in [ListNodes -> Data \union {Junk}], lResult' \in Data \union {NULL}
    PROVE  LruOK' /\ Lru!Walk(lHead, lNext)' = D
<1>1. OrderIs(m, D)'
  BY DEF OrderIs, ListOf
<1>2. OrderIs(lSize, D)'
  BY <1>1 DEF OrderIs
<1>3. LruOK'
  <2>1. D \in [1 .. lSize' -> ListNodes] /\ lSize' \in Nat
    OBVIOUS
  <2>2. (\E E \in [1 .. lSize -> ListNodes] : OrderIs(lSize, E))'
    BY <1>2, <2>1
  <2>. QED
    BY <2>1, <2>2 DEF LruOK
<1>4. WalkGivesOrder'
  BY OrderGives, PTL
<1>. QED
  BY <1>1, <1>3, <1>4 DEF WalkGivesOrder

\* A node taken out of the list and freed.
Removed(n, C, k) ==
    /\ Bridged(lHead, lTail, lPrev, lNext, lHead', lTail', lPrev', lNext', k, n, C)
    /\ lPrev' \in [ListNodes -> ListNodes \union {NULL, Junk}]
    /\ lNext' \in [ListNodes -> ListNodes \union {NULL, Junk}]
    /\ lData' = [lData EXCEPT ![C[k]] = Junk]
    /\ lSize' = lSize - 1
    /\ lResult' \in Data \union {NULL}

LEMMA RemovedKeeps ==
    ASSUME LruOK, NEW n, NEW C, OrderIs(n, C), NEW k \in 1 .. n, Removed(n, C, k)
    PROVE  LruOK' /\ Lru!Walk(lHead, lNext)' = Without(k, n, C)
<1>a. /\ n \in Nat /\ n = lSize /\ C \in [1 .. n -> ListNodes]
      /\ Lru!Used = {C[i] : i \in 1 .. n}
      /\ lData \in [ListNodes -> Data \union {Junk}]
  BY DEF OrderIs, LruOK
<1>1. n \in Nat /\ n # 0 /\ C \in [1 .. n -> ListNodes] /\ k \in 1 .. n
  BY <1>a
<1>2. PICK h, t, p, q : h = lHead /\ t = lTail /\ p = lPrev /\ q = lNext
  OBVIOUS
<1>3. PICK h2, t2, p2, q2, D : /\ h2 = lHead' /\ t2 = lTail' /\ p2 = lPrev' /\ q2 = lNext'
                               /\ D = Without(k, n, C)
  OBVIOUS
<1>4. ListOf(h, t, p, q, n, C)
  BY <1>2 DEF OrderIs, ListOf
<1>5. Bridged(h, t, p, q, h2, t2, p2, q2, k, n, C)
  BY <1>2, <1>3 DEF Removed
<1>6. /\ ListOf(h2, t2, p2, q2, n - 1, D) /\ D \in [1 .. n - 1 -> ListNodes]
      /\ {D[i] : i \in 1 .. n - 1} = {C[i] : i \in 1 .. n} \ {C[k]}
  <2>1. OutOf(h2, t2, p2, q2, k, n, C, D)
    BY ONLY <1>1, <1>3, <1>4, <1>5, TakenOut
  <2>. QED
    BY <2>1 DEF OutOf
<1>7. Lru!Used' = Lru!Used \ {C[k]}
  <2>1. C[k] \in ListNodes /\ lData' = [lData EXCEPT ![C[k]] = Junk]
    BY <1>1 DEF Removed
  <2>2. \A x \in ListNodes : lData'[x] = IF x = C[k] THEN Junk ELSE lData[x]
    BY <1>a, <2>1
  <2>. QED
    BY <2>1, <2>2 DEF Lru!Used
<1>8. lSize' = n - 1 /\ n - 1 \in Nat
  BY <1>a, <1>1 DEF Removed
<1>9. Lru!Used' = {D[i] : i \in 1 .. n - 1}
  BY <1>a, <1>6, <1>7, Zenon
<1>10. lData' \in [ListNodes -> Data \union {Junk}]
  BY <1>a DEF Removed
<1>11. /\ p2 \in [ListNodes -> ListNodes \union {NULL, Junk}]
       /\ q2 \in [ListNodes -> ListNodes \union {NULL, Junk}]
       /\ lResult' \in Data \union {NULL}
  BY <1>3 DEF Removed
<1>12. LruOK' /\ Lru!Walk(lHead, lNext)' = D
  BY <1>3, <1>6, <1>8, <1>9, <1>10, <1>11, NextOrder
<1>. QED
  BY <1>3, <1>12

\* The nodes that leave, by a pop or a deletion.
LEMMA PopKeeps ==
    ASSUME LruOK, NEW n, NEW C, OrderIs(n, C), Lru!lru_pop
    PROVE  n # 0 /\ Removed(n, C, n) /\ lResult' = lData[C[n]]
<1>1. /\ n \in Nat /\ n = lSize /\ C \in [1 .. n -> ListNodes]
      /\ \A i, j \in 1 .. n : C[i] = C[j] => i = j
      /\ lHead = IF n = 0 THEN NULL ELSE C[1]
      /\ lTail = IF n = 0 THEN NULL ELSE C[n]
      /\ \A i \in 1 .. n : /\ lPrev[C[i]] = IF i = 1 THEN NULL ELSE C[i - 1]
                           /\ lNext[C[i]] = IF i = n THEN NULL ELSE C[i + 1]
      /\ Lru!Used = {C[i] : i \in 1 .. n}
  BY DEF OrderIs
<1>2. /\ lPrev \in [ListNodes -> ListNodes \union {NULL, Junk}]
      /\ lNext \in [ListNodes -> ListNodes \union {NULL, Junk}]
      /\ lData \in [ListNodes -> Data \union {Junk}]
  BY DEF LruOK
<1>3. n # 0 /\ lTail = C[n] /\ n \in 1 .. n /\ C[n] \in ListNodes
  BY <1>1 DEF Lru!lru_pop
<1>4. lPrev[lTail] = IF n = 1 THEN NULL ELSE C[n - 1]
  BY <1>1, <1>3
<1>5. ASSUME n # 1
      PROVE  n - 1 \in 1 .. n /\ C[n - 1] \in ListNodes /\ C[n - 1] # NULL /\ C[n - 1] # C[n]
  <2>1. n - 1 \in 1 .. n /\ n - 1 # n
    BY <1>3, <1>5
  <2>2. C[n - 1] \in ListNodes
    BY <1>1, <2>1
  <2>3. C[n - 1] # C[n]
    BY <1>1, <1>3, <2>1
  <2>. QED
    BY <2>1, <2>2, <2>3, LruSizes
<1>6. /\ lResult' = lData[C[n]]
      /\ lTail' = IF n = 1 THEN NULL ELSE C[n - 1]
      /\ lHead' = IF n = 1 THEN NULL ELSE lHead
      /\ lNext' = IF n = 1 THEN [lNext EXCEPT ![C[n]] = Junk]
                  ELSE [[lNext EXCEPT ![C[n - 1]] = NULL] EXCEPT ![C[n]] = Junk]
      /\ lPrev' = [lPrev EXCEPT ![C[n]] = Junk]
      /\ lData' = [lData EXCEPT ![C[n]] = Junk]
      /\ lSize' = lSize - 1
  BY <1>3, <1>4, <1>5 DEF Lru!lru_pop, Lru!Freed
<1>7. ASSUME NEW i \in 1 .. n, i # n
      PROVE  /\ lPrev'[C[i]] = lPrev[C[i]]
             /\ lNext'[C[i]] = IF i = n - 1 THEN NULL ELSE lNext[C[i]]
  <2>1. C[i] \in ListNodes /\ C[i] # C[n] /\ n # 1
    BY <1>1, <1>3, <1>7
  <2>2. C[i] = C[n - 1] <=> i = n - 1
    BY <1>1, <1>5, <2>1
  <2>. QED
    BY <1>2, <1>5, <1>6, <2>1, <2>2
<1>8. \A i \in 1 .. n : i # n + 1
  BY <1>1
<1>9. Bridged(lHead, lTail, lPrev, lNext, lHead', lTail', lPrev', lNext', n, n, C)
  BY <1>3, <1>6, <1>7, <1>8 DEF Bridged
<1>10. lData[C[n]] \in Data \union {NULL}
  <2>1. C[n] \in Lru!Used
    BY <1>1, <1>3
  <2>. QED
    BY <1>2, <1>3, <2>1 DEF Lru!Used
<1>11. /\ lPrev' \in [ListNodes -> ListNodes \union {NULL, Junk}]
       /\ lNext' \in [ListNodes -> ListNodes \union {NULL, Junk}]
  BY <1>2, <1>3, <1>5, <1>6
<1>. QED
  BY <1>3, <1>6, <1>9, <1>10, <1>11 DEF Removed

LEMMA HeadLeaves ==
    ASSUME LruOK, NEW n, NEW C, OrderIs(n, C),
           Lru!lru_pop_top \/ (\E x \in ListNodes : Lru!DeleteHead(x))
    PROVE  /\ n # 0 /\ Removed(n, C, 1)
           /\ \/ Lru!lru_pop_top /\ lResult' = lData[C[1]]
              \/ lResult' = lResult
<1>1. /\ n \in Nat /\ n = lSize /\ C \in [1 .. n -> ListNodes]
      /\ \A i, j \in 1 .. n : C[i] = C[j] => i = j
      /\ lHead = IF n = 0 THEN NULL ELSE C[1]
      /\ lTail = IF n = 0 THEN NULL ELSE C[n]
      /\ \A i \in 1 .. n : /\ lPrev[C[i]] = IF i = 1 THEN NULL ELSE C[i - 1]
                           /\ lNext[C[i]] = IF i = n THEN NULL ELSE C[i + 1]
      /\ Lru!Used = {C[i] : i \in 1 .. n}
  BY DEF OrderIs
<1>2. /\ lPrev \in [ListNodes -> ListNodes \union {NULL, Junk}]
      /\ lNext \in [ListNodes -> ListNodes \union {NULL, Junk}]
      /\ lData \in [ListNodes -> Data \union {Junk}]
      /\ lResult \in Data \union {NULL}
  BY DEF LruOK
<1>3. n # 0 /\ lHead = C[1] /\ 1 \in 1 .. n /\ C[1] \in ListNodes
  <2>1. lHead # NULL
    <3>1. CASE Lru!lru_pop_top
      BY <3>1 DEF Lru!lru_pop_top
    <3>2. CASE \E x \in ListNodes : Lru!DeleteHead(x)
      BY <3>2, LruSizes DEF Lru!DeleteHead
    <3>. QED
      BY <3>1, <3>2
  <2>2. n # 0
    BY <1>1, <2>1
  <2>3. 1 \in 1 .. n
    BY <1>1, <2>2
  <2>. QED
    BY <1>1, <2>2, <2>3
<1>4. lNext[lHead] = IF n = 1 THEN NULL ELSE C[2]
  BY <1>1, <1>3
<1>5. ASSUME n # 1
      PROVE  2 \in 1 .. n /\ C[2] \in ListNodes /\ C[2] # NULL /\ C[2] # C[1]
  <2>1. 2 \in 1 .. n
    BY <1>1, <1>3, <1>5
  <2>2. C[2] \in ListNodes /\ C[2] # C[1]
    BY <1>1, <1>3, <2>1
  <2>. QED
    BY <2>1, <2>2, LruSizes
<1>6. lHead = lTail <=> n = 1
  BY <1>1, <1>3
<1>7. /\ lHead' = IF n = 1 THEN NULL ELSE C[2]
      /\ lTail' = IF n = 1 THEN NULL ELSE lTail
      /\ lPrev' = IF n = 1 THEN [lPrev EXCEPT ![C[1]] = Junk]
                  ELSE [[lPrev EXCEPT ![C[2]] = NULL] EXCEPT ![C[1]] = Junk]
      /\ lNext' = [lNext EXCEPT ![C[1]] = Junk]
      /\ lData' = [lData EXCEPT ![C[1]] = Junk]
      /\ lSize' = lSize - 1
      /\ \/ Lru!lru_pop_top /\ lResult' = lData[C[1]]
         \/ lResult' = lResult
  <2>1. CASE Lru!lru_pop_top
    BY <1>3, <1>4, <1>5, <1>6, <2>1 DEF Lru!lru_pop_top, Lru!Freed
  <2>2. CASE \E x \in ListNodes : Lru!DeleteHead(x)
    <3>1. PICK x \in ListNodes : Lru!DeleteHead(x)
      BY <2>2
    <3>2. x = C[1] /\ lNext[x] = IF n = 1 THEN NULL ELSE C[2]
      BY <1>3, <1>4, <3>1 DEF Lru!DeleteHead
    <3>. QED
      BY <1>5, <3>1, <3>2 DEF Lru!DeleteHead, Lru!Freed
  <2>. QED
    BY <2>1, <2>2
<1>8. ASSUME NEW i \in 1 .. n, i # 1
      PROVE  /\ lPrev'[C[i]] = IF i = 2 THEN NULL ELSE lPrev[C[i]]
             /\ lNext'[C[i]] = lNext[C[i]]
             /\ i # 1 - 1
  <2>1. C[i] \in ListNodes /\ C[i] # C[1] /\ n # 1
    BY <1>1, <1>3, <1>8
  <2>2. C[i] = C[2] <=> i = 2
    BY <1>1, <1>5, <2>1
  <2>. QED
    BY <1>2, <1>5, <1>7, <2>1, <2>2
<1>9. Bridged(lHead, lTail, lPrev, lNext, lHead', lTail', lPrev', lNext', 1, n, C)
  <2>1. lTail' = IF 1 # n THEN lTail ELSE IF n = 1 THEN NULL ELSE C[n - 1]
    BY <1>7
  <2>2. lHead' = IF 1 # 1 THEN lHead ELSE IF n = 1 THEN NULL ELSE C[2]
    BY <1>7
  <2>3. 1 + 1 = 2
    OBVIOUS
  <2>. QED
    BY <1>8, <2>1, <2>2, <2>3 DEF Bridged
<1>10. lData[C[1]] \in Data \union {NULL}
  <2>1. C[1] \in Lru!Used
    BY <1>1, <1>3
  <2>. QED
    BY <1>2, <1>3, <2>1 DEF Lru!Used
<1>11. /\ lPrev' \in [ListNodes -> ListNodes \union {NULL, Junk}]
       /\ lNext' \in [ListNodes -> ListNodes \union {NULL, Junk}]
  BY <1>2, <1>3, <1>5, <1>7
<1>. QED
  BY <1>2, <1>3, <1>7, <1>9, <1>10, <1>11 DEF Removed

\* Where a node other than the head is unlinked.
LEMMA UnlinkedFacts ==
    ASSUME LruOK, NEW n, NEW C, OrderIs(n, C), NEW k \in 2 .. n, NEW x, x = C[k]
    PROVE  /\ Bridged(lHead, lTail, lPrev, lNext, lHead, Lru!Unlinked(x).tail,
                      Lru!Unlinked(x).prev, Lru!Unlinked(x).next, k, n, C)
           /\ Lru!Unlinked(x).prev \in [ListNodes -> ListNodes \union {NULL, Junk}]
           /\ Lru!Unlinked(x).next \in [ListNodes -> ListNodes \union {NULL, Junk}]
           /\ Lru!Unlinked(x).prev[x] = lPrev[x]
<1>1. /\ n \in Nat /\ n = lSize /\ C \in [1 .. n -> ListNodes]
      /\ \A i, j \in 1 .. n : C[i] = C[j] => i = j
      /\ lTail = IF n = 0 THEN NULL ELSE C[n]
      /\ \A i \in 1 .. n : /\ lPrev[C[i]] = IF i = 1 THEN NULL ELSE C[i - 1]
                           /\ lNext[C[i]] = IF i = n THEN NULL ELSE C[i + 1]
  BY DEF OrderIs
<1>2. /\ lPrev \in [ListNodes -> ListNodes \union {NULL, Junk}]
      /\ lNext \in [ListNodes -> ListNodes \union {NULL, Junk}]
  BY DEF LruOK
<1>3. k \in 1 .. n /\ k # 1 /\ n # 1 /\ n # 0 /\ k - 1 \in 1 .. n /\ n \in 1 .. n
  BY <1>1
<1>4. (x = lTail <=> k = n) /\ lPrev[x] = C[k - 1]
  BY <1>1, <1>3
<1>5. C[k - 1] \in ListNodes /\ x \in ListNodes /\ C[k - 1] # x
  <2>1. k - 1 # k
    BY <1>3
  <2>. QED
    BY <1>1, <1>3, <2>1
<1>6. ASSUME k # n
      PROVE  k + 1 \in 1 .. n /\ C[k + 1] \in ListNodes /\ lNext[x] = C[k + 1] /\ C[k + 1] # x
  <2>1. k + 1 \in 1 .. n /\ k + 1 # k
    BY <1>3, <1>6
  <2>. QED
    BY <1>1, <1>3, <1>6, <2>1
<1>7. PICK p, q, t : /\ q = [lNext EXCEPT ![C[k - 1]] = IF k = n THEN NULL ELSE C[k + 1]]
                     /\ p = IF k = n THEN lPrev ELSE [lPrev EXCEPT ![C[k + 1]] = C[k - 1]]
                     /\ t = IF k = n THEN C[k - 1] ELSE lTail
  OBVIOUS
<1>8. Lru!Unlinked(x) = [next |-> q, prev |-> p, tail |-> t]
  BY <1>4, <1>6, <1>7 DEF Lru!Unlinked
<1>9. /\ p \in [ListNodes -> ListNodes \union {NULL, Junk}]
      /\ q \in [ListNodes -> ListNodes \union {NULL, Junk}]
      /\ p[x] = lPrev[x]
  BY <1>2, <1>5, <1>6, <1>7
<1>10. ASSUME NEW i \in 1 .. n, i # k
       PROVE  /\ p[C[i]] = IF i = k + 1 THEN C[k - 1] ELSE lPrev[C[i]]
              /\ q[C[i]] = IF i = k - 1 THEN (IF k = n THEN NULL ELSE C[k + 1]) ELSE lNext[C[i]]
  <2>1. C[i] \in ListNodes /\ (C[i] = C[k - 1] <=> i = k - 1)
    BY <1>1, <1>3
  <2>2. k # n => (C[i] = C[k + 1] <=> i = k + 1)
    BY <1>1, <1>6
  <2>3. k = n => i # k + 1
    BY <1>1
  <2>. QED
    BY <1>2, <1>7, <2>1, <2>2, <2>3
<1>11. Bridged(lHead, lTail, lPrev, lNext, lHead, t, p, q, k, n, C)
  BY <1>3, <1>7, <1>10 DEF Bridged
<1>. QED
  BY <1>8, <1>9, <1>11

\* A deletion behind the head.
LEMMA InnerLeaves ==
    ASSUME LruOK, NEW n, NEW C, OrderIs(n, C), NEW k \in 2 .. n, Lru!DeleteInner(C[k])
    PROVE  Removed(n, C, k) /\ lResult' = lResult
<1>1. /\ n \in Nat /\ n = lSize /\ C \in [1 .. n -> ListNodes]
      /\ \A i, j \in 1 .. n : C[i] = C[j] => i = j
  BY DEF OrderIs
<1>2. lResult \in Data \union {NULL}
  BY DEF LruOK
<1>3. PICK x, p, q, t : /\ x = C[k] /\ p = Lru!Unlinked(x).prev /\ q = Lru!Unlinked(x).next
                        /\ t = Lru!Unlinked(x).tail
  OBVIOUS
<1>4. /\ Bridged(lHead, lTail, lPrev, lNext, lHead, t, p, q, k, n, C)
      /\ p \in [ListNodes -> ListNodes \union {NULL, Junk}]
      /\ q \in [ListNodes -> ListNodes \union {NULL, Junk}]
  BY <1>3, UnlinkedFacts
<1>5. /\ lNext' = [q EXCEPT ![x] = Junk] /\ lPrev' = [p EXCEPT ![x] = Junk]
      /\ lTail' = t /\ lHead' = lHead /\ lSize' = lSize - 1 /\ lResult' = lResult
      /\ lData' = [lData EXCEPT ![x] = Junk]
  BY <1>3 DEF Lru!DeleteInner, Lru!Freed
<1>6. \A i \in 1 .. n : i # k => C[i] # x /\ C[i] \in ListNodes
  BY <1>1, <1>3
<1>7. \A i \in 1 .. n : i # k => lPrev'[C[i]] = p[C[i]] /\ lNext'[C[i]] = q[C[i]]
  BY <1>4, <1>5, <1>6
<1>8. Bridged(lHead, lTail, lPrev, lNext, lHead', lTail', lPrev', lNext', k, n, C)
  BY <1>4, <1>5, <1>7 DEF Bridged
<1>9. x \in ListNodes
  BY <1>1, <1>3
<1>. QED
  BY <1>2, <1>3, <1>4, <1>5, <1>8, <1>9 DEF Removed

\* A node is put at the head.
LEMMA PushKeeps ==
    ASSUME LruOK, NEW n, NEW C, OrderIs(n, C), NEW x \in ListNodes, NEW d \in Data,
           Lru!lru_push(x, d)
    PROVE  LruOK' /\ Lru!Walk(lHead, lNext)' = WithFirst(x, n, C)
<1>1. /\ n \in Nat /\ n = lSize /\ C \in [1 .. n -> ListNodes]
      /\ \A i, j \in 1 .. n : C[i] = C[j] => i = j
      /\ lHead = IF n = 0 THEN NULL ELSE C[1]
      /\ lTail = IF n = 0 THEN NULL ELSE C[n]
      /\ \A i \in 1 .. n : /\ lPrev[C[i]] = IF i = 1 THEN NULL ELSE C[i - 1]
                           /\ lNext[C[i]] = IF i = n THEN NULL ELSE C[i + 1]
      /\ Lru!Used = {C[i] : i \in 1 .. n}
  BY DEF OrderIs
<1>2. /\ lPrev \in [ListNodes -> ListNodes \union {NULL, Junk}]
      /\ lNext \in [ListNodes -> ListNodes \union {NULL, Junk}]
      /\ lData \in [ListNodes -> Data \union {Junk}]
      /\ lResult \in Data \union {NULL}
  BY DEF LruOK
<1>3. \A i \in 1 .. n : C[i] # x /\ C[i] \in ListNodes
  BY <1>1 DEF Lru!lru_push
<1>4. /\ lHead' = x /\ lTail' = (IF n = 0 THEN x ELSE lTail) /\ lSize' = n + 1
      /\ lNext' = [lNext EXCEPT ![x] = IF n = 0 THEN NULL ELSE lHead]
      /\ lPrev' = (IF n = 0 THEN [lPrev EXCEPT ![x] = NULL]
                   ELSE [lPrev EXCEPT ![x] = NULL, ![lHead] = x])
      /\ lData' = [lData EXCEPT ![x] = d] /\ lResult' = lResult
  BY <1>1 DEF Lru!lru_push
<1>5. n # 0 => 1 \in 1 .. n /\ lHead = C[1] /\ C[1] \in ListNodes /\ C[1] # x
  BY <1>1, <1>3
<1>6. ASSUME NEW i \in 1 .. n
      PROVE  /\ lPrev'[C[i]] = IF i = 1 THEN x ELSE lPrev[C[i]]
             /\ lNext'[C[i]] = lNext[C[i]]
  <2>1. n # 0 /\ (C[i] = C[1] <=> i = 1)
    BY <1>1, <1>5
  <2>. QED
    BY <1>2, <1>3, <1>4, <1>5, <2>1
<1>7. lPrev'[x] = NULL /\ lNext'[x] = lHead
  BY <1>1, <1>2, <1>4, <1>5
<1>8. PICK h, t, p, q : h = lHead /\ t = lTail /\ p = lPrev /\ q = lNext
  OBVIOUS
<1>9. PICK t2, p2, q2, D : t2 = lTail' /\ p2 = lPrev' /\ q2 = lNext' /\ D = WithFirst(x, n, C)
  OBVIOUS
<1>10. ListOf(h, t, p, q, n, C)
  BY <1>8 DEF OrderIs, ListOf
<1>11. Fronted(x, h, t, p, q, t2, p2, q2, n, C)
  BY <1>3, <1>4, <1>6, <1>7, <1>8, <1>9 DEF Fronted
<1>12. FrontOf(x, t2, p2, q2, n, C, D)
  BY ONLY <1>1, <1>9, <1>10, <1>11, x \in ListNodes, InFront
<1>13. Lru!Used' = Lru!Used \union {x}
  <2>1. \A y \in ListNodes : lData'[y] = IF y = x THEN d ELSE lData[y]
    BY <1>2, <1>4
  <2>2. d # Junk
    BY LruSizes
  <2>. QED
    BY <2>1, <2>2 DEF Lru!Used
<1>14. /\ ListOf(x, t2, p2, q2, n + 1, D) /\ D \in [1 .. n + 1 -> ListNodes]
       /\ Lru!Used' = {D[i] : i \in 1 .. n + 1}
  BY <1>1, <1>12, <1>13 DEF FrontOf
<1>15. /\ lPrev' \in [ListNodes -> ListNodes \union {NULL, Junk}]
       /\ lNext' \in [ListNodes -> ListNodes \union {NULL, Junk}]
  BY <1>2, <1>4, <1>5
<1>16. lData' \in [ListNodes -> Data \union {Junk}] /\ lResult' \in Data \union {NULL}
  BY <1>2, <1>4
<1>17. n + 1 \in Nat
  BY <1>1
<1>18. LruOK' /\ Lru!Walk(lHead, lNext)' = D
  <2>1. /\ p2 \in [ListNodes -> ListNodes \union {NULL, Junk}]
        /\ q2 \in [ListNodes -> ListNodes \union {NULL, Junk}]
        /\ x = lHead' /\ t2 = lTail' /\ p2 = lPrev' /\ q2 = lNext'
    BY <1>4, <1>9, <1>15
  <2>2. lSize' = n + 1
    BY <1>4
  <2>. QED
    BY ONLY <1>14, <1>16, <1>17, <2>1, <2>2, NextOrder
<1>. QED
  BY <1>9, <1>18

\* A use of a node behind the head.
LEMMA UpdateKeeps ==
    ASSUME LruOK, NEW n, NEW C, OrderIs(n, C), NEW k \in 2 .. n, Lru!lru_update(C[k])
    PROVE  /\ LruOK'
           /\ Lru!Walk(lHead, lNext)' = WithFirst(C[k], n - 1, Without(k, n, C))
<1>1. /\ n \in Nat /\ n = lSize /\ C \in [1 .. n -> ListNodes]
      /\ \A i, j \in 1 .. n : C[i] = C[j] => i = j
      /\ lHead = IF n = 0 THEN NULL ELSE C[1]
      /\ Lru!Used = {C[i] : i \in 1 .. n}
  BY DEF OrderIs
<1>2. /\ lData \in [ListNodes -> Data \union {Junk}] /\ lResult \in Data \union {NULL}
  BY DEF LruOK
<1>3. /\ n - 1 \in Nat /\ n - 1 # 0 /\ (n - 1) + 1 = n /\ n # 0
      /\ k \in 1 .. n /\ 1 \in 1 .. n /\ k # 1
  BY <1>1
<1>4. PICK x, t, p, q : /\ x = C[k] /\ p = Lru!Unlinked(x).prev /\ q = Lru!Unlinked(x).next
                        /\ t = Lru!Unlinked(x).tail
  OBVIOUS
<1>5. /\ Bridged(lHead, lTail, lPrev, lNext, lHead, t, p, q, k, n, C)
      /\ p \in [ListNodes -> ListNodes \union {NULL, Junk}]
      /\ q \in [ListNodes -> ListNodes \union {NULL, Junk}]
  BY <1>4, UnlinkedFacts
<1>6. PICK h, t0, p0, q0, E : /\ h = lHead /\ t0 = lTail /\ p0 = lPrev /\ q0 = lNext
                              /\ E = Without(k, n, C)
  OBVIOUS
<1>7. ListOf(h, t0, p0, q0, n, C) /\ Bridged(h, t0, p0, q0, h, t, p, q, k, n, C)
  BY <1>5, <1>6 DEF OrderIs, ListOf
<1>8. OutOf(h, t, p, q, k, n, C, E)
  BY ONLY <1>1, <1>3, <1>6, <1>7, TakenOut
<1>9. /\ ListOf(h, t, p, q, n - 1, E) /\ E \in [1 .. n - 1 -> ListNodes]
      /\ {E[i] : i \in 1 .. n - 1} = {C[i] : i \in 1 .. n} \ {C[k]}
  BY <1>8 DEF OutOf
<1>10. x \in ListNodes /\ \A i \in 1 .. n - 1 : E[i] # x /\ E[i] \in ListNodes
  <2>1. x \in ListNodes
    BY <1>1, <1>3, <1>4
  <2>2. ASSUME NEW i \in 1 .. n - 1 PROVE E[i] # x /\ E[i] \in ListNodes
    <3>1. E[i] \in {C[j] : j \in 1 .. n} \ {C[k]}
      BY <1>9
    <3>2. E[i] \in ListNodes
      BY <1>9
    <3>. QED
      BY <1>4, <3>1, <3>2
  <2>. QED
    BY <2>1, <2>2
<1>11. h = E[1] /\ \A i, j \in 1 .. n - 1 : E[i] = E[j] => i = j
  BY <1>3, <1>9 DEF ListOf
<1>12. /\ lNext' = [q EXCEPT ![x] = h] /\ lPrev' = [p EXCEPT ![x] = NULL, ![h] = x]
       /\ lHead' = x /\ lTail' = t
       /\ lSize' = lSize /\ lData' = lData /\ lResult' = lResult
  BY <1>4, <1>6 DEF Lru!lru_update
<1>13. 1 \in 1 .. n - 1 /\ h \in ListNodes /\ h # x
  BY <1>3, <1>10, <1>11
<1>14. ASSUME NEW i \in 1 .. n - 1
       PROVE  /\ lPrev'[E[i]] = IF i = 1 THEN x ELSE p[E[i]]
              /\ lNext'[E[i]] = q[E[i]]
  <2>1. E[i] = h <=> i = 1
    BY <1>11, <1>13
  <2>. QED
    BY <1>5, <1>10, <1>12, <1>13, <2>1
<1>15. lPrev'[x] = NULL /\ lNext'[x] = h
  BY <1>5, <1>10, <1>12, <1>13
<1>16. PICK p2, q2, D : p2 = lPrev' /\ q2 = lNext' /\ D = WithFirst(x, n - 1, E)
  OBVIOUS
<1>17. Fronted(x, h, t, p, q, t, p2, q2, n - 1, E)
  BY <1>3, <1>10, <1>14, <1>15, <1>16 DEF Fronted
<1>18. FrontOf(x, t, p2, q2, n - 1, E, D)
  BY ONLY <1>3, <1>9, <1>10, <1>16, <1>17, InFront
<1>19. /\ ListOf(x, t, p2, q2, n, D) /\ D \in [1 .. n -> ListNodes]
       /\ {D[i] : i \in 1 .. n} = {E[i] : i \in 1 .. n - 1} \union {x}
  BY <1>3, <1>18 DEF FrontOf
<1>20. Lru!Used' = {D[i] : i \in 1 .. n}
  <2>1. Lru!Used' = Lru!Used
    BY <1>12 DEF Lru!Used
  <2>2. x \in {C[i] : i \in 1 .. n}
    BY <1>3, <1>4
  <2>. QED
    BY <1>1, <1>4, <1>9, <1>19, <2>1, <2>2, Zenon
<1>21. /\ lPrev' \in [ListNodes -> ListNodes \union {NULL, Junk}]
       /\ lNext' \in [ListNodes -> ListNodes \union {NULL, Junk}]
  BY <1>5, <1>10, <1>12, <1>13
<1>22. LruOK' /\ Lru!Walk(lHead, lNext)' = D
  <2>1. /\ p2 \in [ListNodes -> ListNodes \union {NULL, Junk}]
        /\ q2 \in [ListNodes -> ListNodes \union {NULL, Junk}]
        /\ x = lHead' /\ t = lTail' /\ p2 = lPrev' /\ q2 = lNext'
    BY <1>12, <1>16, <1>21
  <2>2. /\ lData' \in [ListNodes -> Data \union {Junk}]
        /\ lResult' \in Data \union {NULL} /\ lSize' = n
    BY <1>1, <1>2, <1>12
  <2>3. n \in Nat /\ D \in [1 .. n -> ListNodes] /\ ListOf(x, t, p2, q2, n, D)
    BY <1>1, <1>19
  <2>. QED
    BY ONLY <1>20, <2>1, <2>2, <2>3, NextOrder
<1>. QED
  BY <1>4, <1>6, <1>16, <1>22

\* Node x is used, and not the first.
IsLater(x, n, C) == \E k \in 2 .. n : x = C[k]

LEMMA NotFirst ==
    ASSUME NEW n, NEW C, OrderIs(n, C), NEW x, x \in Lru!Used, x # lHead
    PROVE  IsLater(x, n, C)
<1>1. n \in Nat /\ (n # 0 => lHead = C[1]) /\ Lru!Used = {C[i] : i \in 1 .. n}
  BY DEF OrderIs
<1>2. PICK k \in 1 .. n : x = C[k]
  BY <1>1
<1>3. k # 1 /\ k \in 2 .. n
  BY <1>1, <1>2
<1>. QED
  BY <1>2, <1>3 DEF IsLater

LEMMA LruTells == LruOK => Lru!TypeOK /\ Lru!LinksAgree
<1>. SUFFICES ASSUME LruOK PROVE Lru!TypeOK /\ Lru!LinksAgree
  OBVIOUS
<1>1. /\ lSize \in Nat
      /\ lPrev \in [ListNodes -> ListNodes \union {NULL, Junk}]
      /\ lNext \in [ListNodes -> ListNodes \union {NULL, Junk}]
      /\ lData \in [ListNodes -> Data \union {Junk}]
      /\ lResult \in Data \union {NULL}
  BY DEF LruOK
<1>2. PICK n : n = lSize
  OBVIOUS
<1>3. PICK C \in [1 .. n -> ListNodes] : OrderIs(n, C)
  BY <1>2 DEF LruOK
<1>4. /\ n \in Nat /\ \A i, j \in 1 .. n : C[i] = C[j] => i = j
      /\ lHead = IF n = 0 THEN NULL ELSE C[1]
      /\ lTail = IF n = 0 THEN NULL ELSE C[n]
      /\ \A i \in 1 .. n : /\ lPrev[C[i]] = IF i = 1 THEN NULL ELSE C[i - 1]
                           /\ lNext[C[i]] = IF i = n THEN NULL ELSE C[i + 1]
      /\ Lru!Used = {C[i] : i \in 1 .. n}
  BY <1>3 DEF OrderIs
<1>5. /\ Lru!Walk(lHead, lNext) = C
      /\ Lru!Walk(lTail, lPrev) = [i \in DOMAIN C |-> C[Len(C) + 1 - i]]
      /\ Len(C) = n /\ {C[i] : i \in DOMAIN C} = Lru!Used
  BY <1>3, OrderFacts
<1>6. n <= Cardinality(ListNodes) /\ Cardinality({C[i] : i \in 1 .. n}) = n
  BY <1>4, LruSizes, HowMany
<1>7. /\ Lru!Cardinality(ListNodes) = Cardinality(ListNodes)
      /\ Lru!Cardinality(Lru!Used) = Cardinality(Lru!Used)
  BY DEF Lru!Cardinality, Cardinality
<1>8. Cardinality(ListNodes) \in Nat
  BY LruSizes, FS_CardinalityType
<1>9. Lru!TypeOK
  <2>1. lSize \in 0 .. Lru!Cardinality(ListNodes)
    BY <1>2, <1>4, <1>6, <1>7, <1>8
  <2>2. {lHead, lTail} \subseteq ListNodes \union {NULL}
    BY <1>4
  <2>. QED
    BY <1>1, <2>1, <2>2 DEF Lru!TypeOK
<1>10. Lru!LinksAgree
  <2>1. n > 0 => lPrev[lHead] = NULL /\ lNext[lTail] = NULL
    BY <1>4
  <2>2. Lru!Cardinality(Lru!Used) = n
    BY <1>4, <1>6, <1>7
  <2>3. n = 0 => lHead = NULL /\ lTail = NULL
    BY <1>4
  <2>4. PICK w, back : w = Lru!Walk(lHead, lNext) /\ back = Lru!Walk(lTail, lPrev)
    OBVIOUS
  <2>5. /\ Len(w) = lSize /\ back = [i \in DOMAIN w |-> w[Len(w) + 1 - i]]
        /\ {w[i] : i \in DOMAIN w} = Lru!Used
    BY <1>2, <1>5, <2>4
  <2>6. /\ Len(Lru!Walk(lHead, lNext)) = lSize
        /\ LET v == Lru!Walk(lHead, lNext)
           IN  /\ Lru!Walk(lTail, lPrev) = [i \in DOMAIN v |-> v[Len(v) + 1 - i]]
               /\ {v[i] : i \in DOMAIN v} = Lru!Used
    BY <2>4, <2>5
  <2>. QED
    BY <1>2, <1>4, <2>1, <2>2, <2>3, <2>6 DEF Lru!LinksAgree
<1>. QED
  BY <1>9, <1>10

LEMMA LruStart == Lru!Init => LruOK /\ Lru!Walk(lHead, lNext) = <<>>
<1>. SUFFICES ASSUME Lru!Init PROVE LruOK /\ Lru!Walk(lHead, lNext) = <<>>
  OBVIOUS
<1>1. /\ lHead = NULL /\ lTail = NULL /\ lSize = 0
      /\ lPrev = [x \in ListNodes |-> Junk] /\ lNext = [x \in ListNodes |-> Junk]
      /\ lData = [x \in ListNodes |-> Junk] /\ lResult = NULL
  BY DEF Lru!Init
<1>2. PICK C : C = [j \in 1 .. 0 |-> NULL]
  OBVIOUS
<1>3. C \in [1 .. 0 -> ListNodes] /\ 1 .. 0 = {} /\ C = <<>>
  BY <1>2
<1>4. Lru!Used = {C[i] : i \in 1 .. 0}
  BY <1>1, <1>3 DEF Lru!Used
<1>5. OrderIs(0, C)
  BY <1>1, <1>3, <1>4 DEF OrderIs
<1>6. LruOK
  BY <1>1, <1>3, <1>5 DEF LruOK
<1>. QED
  BY <1>3, <1>5, <1>6, OrderFacts

\* Every step keeps the list, and is a step of the recency order.
LEMMA LruSteps ==
    ASSUME LruOK, Lru!Next
    PROVE  LruOK' /\ Lru!Abstract!Next
<1>1. PICK n : n = lSize
  OBVIOUS
<1>2. PICK C \in [1 .. n -> ListNodes] : OrderIs(n, C)
  BY <1>1 DEF LruOK
<1>3. n \in Nat /\ Lru!Walk(lHead, lNext) = C /\ Len(C) = n /\ {C[i] : i \in DOMAIN C} = Lru!Used
  <2>1. n \in Nat
    BY <1>2 DEF OrderIs
  <2>. QED
    BY <1>2, <2>1, OrderFacts
<1>4. lData \in [ListNodes -> Data \union {Junk}]
  BY DEF LruOK
<1>5. \A i \in 1 .. n : C[i] \in ListNodes
  OBVIOUS
<1>6. ASSUME NEW k \in 1 .. n
      PROVE  /\ Lru!Abstract!RemoveAt(C, k) = Without(k, n, C)
             /\ SubSeq(C, 1, n - 1) = Without(n, n, C)
             /\ Tail(C) = Without(1, n, C)
  <2>1. C \in [1 .. n -> ListNodes]
    OBVIOUS
  <2>2. CutForms(k, n, C)
    BY <1>3, <2>1, SequenceForms
  <2>. QED
    BY <1>3, <2>2 DEF CutForms, Lru!Abstract!RemoveAt
<1>7. ASSUME NEW k \in 1 .. n, Removed(n, C, k)
      PROVE  /\ LruOK' /\ Lru!Walk(lHead, lNext)' = Without(k, n, C)
             /\ \A m \in ListNodes \ {C[k]} : lData'[m] = lData[m]
  <2>1. LruOK' /\ Lru!Walk(lHead, lNext)' = Without(k, n, C)
    BY <1>2, <1>7, RemovedKeeps
  <2>2. lData' = [lData EXCEPT ![C[k]] = Junk]
    BY <1>7 DEF Removed
  <2>. QED
    BY <1>4, <2>1, <2>2
<1>8. ASSUME NEW k \in 1 .. n, Removed(n, C, k), lResult' = lResult
      PROVE  LruOK' /\ Lru!Abstract!Next
  <2>1. Lru!Abstract!Delete(k)
    BY <1>3, <1>6, <1>7, <1>8 DEF Lru!Abstract!Delete, Lru!Abstract!Leaves
  <2>2. k \in DOMAIN C
    OBVIOUS
  <2>. QED
    BY <1>3, <1>7, <1>8, <2>1, <2>2 DEF Lru!Abstract!Next
<1>9. CASE \E x \in ListNodes, d \in Data : Lru!lru_push(x, d)
  <2>1. PICK x \in ListNodes, d \in Data : Lru!lru_push(x, d)
    BY <1>9
  <2>2. LruOK' /\ Lru!Walk(lHead, lNext)' = WithFirst(x, n, C)
    BY <1>2, <1>3, <2>1, PushKeeps
  <2>3. <<x>> \o C = WithFirst(x, n, C)
    <3>1. C \in [1 .. n -> ListNodes] /\ n \in Nat
      BY <1>3
    <3>. QED
      BY ONLY <3>1, x \in ListNodes, InFrontForm
  <2>4. x \notin Lru!Used /\ lData' = [lData EXCEPT ![x] = d] /\ lResult' = lResult
    BY <2>1 DEF Lru!lru_push
  <2>5. Lru!Abstract!ToSet(C) = {C[i] : i \in DOMAIN C}
    BY DEF Lru!Abstract!ToSet
  <2>6. Lru!Abstract!Push(x, d)
    BY <1>3, <2>2, <2>3, <2>4, <2>5 DEF Lru!Abstract!Push
  <2>. QED
    BY <2>2, <2>6 DEF Lru!Abstract!Next
<1>10. CASE Lru!lru_pop
  <2>1. n # 0 /\ n \in 1 .. n /\ Removed(n, C, n) /\ lResult' = lData[C[n]]
    BY <1>2, <1>3, <1>10, PopKeeps
  <2>2. C # <<>> /\ Lru!Abstract!Last(C) = C[n] /\ Lru!Abstract!Front(C) = Without(n, n, C)
    BY <1>3, <1>6, <2>1 DEF Lru!Abstract!Last, Lru!Abstract!Front
  <2>3. Lru!Abstract!Pop
    BY <1>3, <1>7, <2>1, <2>2 DEF Lru!Abstract!Pop, Lru!Abstract!Leaves
  <2>. QED
    BY <1>7, <2>1, <2>3 DEF Lru!Abstract!Next
<1>11. CASE Lru!lru_pop_top \/ (\E x \in ListNodes : Lru!DeleteHead(x))
  <2>1. /\ n # 0 /\ Removed(n, C, 1)
        /\ \/ Lru!lru_pop_top /\ lResult' = lData[C[1]]
           \/ lResult' = lResult
    BY <1>2, <1>11, HeadLeaves
  <2>2. 1 \in 1 .. n
    BY <1>3, <2>1
  <2>3. CASE lResult' = lResult
    BY <1>8, <2>1, <2>2, <2>3
  <2>4. CASE lResult' = lData[C[1]]
    <3>1. C # <<>> /\ Head(C) = C[1] /\ Tail(C) = Without(1, n, C)
      BY <1>3, <1>6, <2>1, <2>2
    <3>2. Lru!Abstract!PopTop
      BY <1>3, <1>7, <2>1, <2>2, <2>4, <3>1 DEF Lru!Abstract!PopTop, Lru!Abstract!Leaves
    <3>. QED
      BY <1>7, <2>1, <2>2, <3>2 DEF Lru!Abstract!Next
  <2>. QED
    BY <2>1, <2>3, <2>4
<1>12. CASE \E x \in ListNodes : Lru!DeleteInner(x)
  <2>1. PICK x \in ListNodes : Lru!DeleteInner(x)
    BY <1>12
  <2>2. PICK k \in 2 .. n : x = C[k]
    <3>1. x \in Lru!Used /\ x # lHead
      BY <2>1 DEF Lru!DeleteInner
    <3>2. IsLater(x, n, C)
      BY <1>2, <3>1, NotFirst
    <3>. QED
      BY <3>2 DEF IsLater
  <2>3. k \in 1 .. n /\ Removed(n, C, k) /\ lResult' = lResult
    BY <1>2, <1>3, <2>1, <2>2, InnerLeaves
  <2>. QED
    BY <1>8, <2>3
<1>13. CASE \E x \in ListNodes : Lru!lru_update(x)
  <2>1. PICK x \in ListNodes : Lru!lru_update(x)
    BY <1>13
  <2>2. PICK k \in 2 .. n : x = C[k]
    <3>1. x \in Lru!Used /\ x # lHead
      BY <2>1 DEF Lru!lru_update
    <3>2. IsLater(x, n, C)
      BY <1>2, <3>1, NotFirst
    <3>. QED
      BY <3>2 DEF IsLater
  <2>3. k \in 1 .. n /\ n - 1 \in Nat
    BY <1>3
  <2>4. /\ LruOK'
        /\ Lru!Walk(lHead, lNext)' = WithFirst(C[k], n - 1, Without(k, n, C))
    BY <1>2, <2>1, <2>2, UpdateKeeps
  <2>5. Without(k, n, C) \in [1 .. n - 1 -> ListNodes]
    BY <1>3, <1>5, <2>3 DEF Without
  <2>6. <<C[k]>> \o Without(k, n, C) = WithFirst(C[k], n - 1, Without(k, n, C))
    BY <1>5, <2>3, <2>5, InFrontForm
  <2>7. lData' = lData /\ lResult' = lResult
    BY <2>1 DEF Lru!lru_update
  <2>8. Lru!Abstract!Use(k)
    BY <1>3, <1>6, <2>3, <2>4, <2>6, <2>7 DEF Lru!Abstract!Use
  <2>9. k \in DOMAIN C
    BY <2>3
  <2>. QED
    BY <1>3, <2>4, <2>8, <2>9 DEF Lru!Abstract!Next
<1>. QED
  BY <1>9, <1>10, <1>11, <1>12, <1>13 DEF Lru!Next, Lru!lru_delete

-----------------------------------------------------------------------------
(* The skiplist. *)

\* Cell c comes before node y, by the keys K; the header before all.
Below(K, c, y) == c = Header \/ K[c] < K[y]

\* From cell c the nodes S go on with x, the header when c is the last.
LeadsTo(K, S, c, x) ==
    /\ x \in S \union {Header}
    /\ x # Header => Below(K, c, x)
    /\ \A y \in S : Below(K, c, y) => x # Header /\ K[x] <= K[y]

\* The nodes S have different keys, and their links f are in that order.
LevelOK(K, S, f) ==
    /\ Header \notin S
    /\ \A c \in S : K[c] \in Nat
    /\ \A c, d \in S : K[c] = K[d] => c = d
    /\ \A c \in S \union {Header} : LeadsTo(K, S, c, f[c])

\* The last cell below key k.
IsPred(K, S, p, k) ==
    /\ p \in S \union {Header}
    /\ p # Header => K[p] < k
    /\ \A y \in S : K[y] < k => p # Header /\ K[y] <= K[p]

LEMMA PredUnique ==
    ASSUME NEW K, NEW S, NEW f, LevelOK(K, S, f), NEW k \in Nat,
           NEW p, NEW q, IsPred(K, S, p, k), IsPred(K, S, q, k)
    PROVE  p = q
<1>1. p = Header => q = Header
  BY DEF IsPred
<1>2. q = Header => p = Header
  BY DEF IsPred
<1>3. p # Header /\ q # Header => p \in S /\ q \in S /\ K[p] <= K[q] /\ K[q] <= K[p]
  BY DEF IsPred
<1>4. p # Header /\ q # Header => K[p] = K[q]
  BY <1>3 DEF LevelOK
<1>. QED
  BY <1>1, <1>2, <1>3, <1>4 DEF LevelOK

LEMMA PredExists ==
    ASSUME NEW K, NEW S, NEW f, LevelOK(K, S, f), NEW k \in Nat, IsFiniteSet(S)
    PROVE  \E p : IsPred(K, S, p, k)
<1> DEFINE Z == {z \in S : K[z] < k}
           g == [z \in Z |-> K[z]]
           T == {g[z] : z \in Z}
<1>1. CASE Z = {}
  <2>1. IsPred(K, S, Header, k)
    BY <1>1 DEF IsPred
  <2>. QED
    BY <2>1
<1>2. CASE Z # {}
  <2>1. IsFiniteSet(Z)
    BY FS_Subset
  <2>2. DOMAIN g = Z
    OBVIOUS
  <2>3. T \subseteq Nat
    BY DEF LevelOK
  <2>9. T # {}
    <3>1. PICK z \in Z : TRUE
      BY <1>2
    <3>2. g[z] \in T
      BY <3>1
    <3>. QED
      BY <3>2
  <2>4. IsFiniteSet(T)
    <3>. HIDE DEF g, Z
    <3>. QED
      BY <2>1, <2>2, FiniteImage
  <2>5. PICK m \in T : \A t \in T : t <= m
    <3>. HIDE DEF T
    <3>. QED
      BY <2>3, <2>4, <2>9, FiniteGreatest
  <2>6. PICK p \in Z : m = K[p]
    BY <2>5
  <2>7. \A y \in Z : K[y] <= K[p]
    BY <2>5, <2>6
  <2>8. IsPred(K, S, p, k)
    BY <2>6, <2>7 DEF IsPred, LevelOK
  <2>. QED
    BY <2>8
<1>. QED
  BY <1>1, <1>2

\* A step to a node below k stays at or before the last one below k, and from
\* there none is left.
LEMMA PredSteps ==
    ASSUME NEW K, NEW S, NEW f, LevelOK(K, S, f), NEW k \in Nat,
           NEW p, IsPred(K, S, p, k), NEW c \in S \union {Header}, c = Header \/ K[c] < k
    PROVE  /\ f[c] \in S \union {Header}
           /\ f[c] # Header => c = Header \/ K[c] < K[f[c]]
           /\ ~ (f[c] # Header /\ K[f[c]] < k) <=> c = p
<1>1. LeadsTo(K, S, c, f[c])
  BY DEF LevelOK
<1>2. /\ f[c] \in S \union {Header}
      /\ f[c] # Header => c = Header \/ K[c] < K[f[c]]
  BY <1>1 DEF LeadsTo, Below
<1>3. ASSUME ~ (f[c] # Header /\ K[f[c]] < k) PROVE c = p
  <2>1. ASSUME NEW y \in S, K[y] < k PROVE c # Header /\ K[y] <= K[c]
    <3>1. ~ Below(K, c, y)
      BY <1>1, <1>2, <1>3, <2>1 DEF LeadsTo, LevelOK
    <3>. QED
      BY <3>1 DEF Below, LevelOK
  <2>2. IsPred(K, S, c, k)
    BY <2>1 DEF IsPred
  <2>. QED
    BY <2>2, PredUnique
<1>4. ASSUME f[c] # Header, K[f[c]] < k PROVE c # p
  <2>1. f[c] \in S /\ (c = Header \/ K[c] < K[f[c]])
    BY <1>2, <1>4
  <2>2. p # Header /\ K[f[c]] <= K[p]
    BY <1>4, <2>1 DEF IsPred
  <2>. QED
    BY <2>1, <2>2 DEF LevelOK
<1>. QED
  BY <1>2, <1>3, <1>4

\* What comes behind the last node below k.
LEMMA PredLeads ==
    ASSUME NEW K, NEW S, NEW f, LevelOK(K, S, f), NEW k \in Nat, NEW p, IsPred(K, S, p, k)
    PROVE  /\ f[p] \in S \union {Header}
           /\ f[p] # Header => k <= K[f[p]]
           /\ \A y \in S : k <= K[y] => f[p] # Header /\ K[f[p]] <= K[y]
           /\ \A y \in S : K[y] = k => f[p] = y
<1>1. p \in S \union {Header} /\ (p = Header \/ K[p] < k)
  BY DEF IsPred
<1>2. f[p] \in S \union {Header} /\ (f[p] # Header => ~ K[f[p]] < k)
  BY <1>1, PredSteps
<1>3. f[p] # Header => k <= K[f[p]]
  BY <1>2 DEF LevelOK
<1>4. ASSUME NEW y \in S, k <= K[y] PROVE f[p] # Header /\ K[f[p]] <= K[y]
  <2>1. Below(K, p, y)
    BY <1>1, <1>4 DEF Below, LevelOK
  <2>2. LeadsTo(K, S, p, f[p])
    BY <1>1 DEF LevelOK
  <2>. QED
    BY <2>1, <2>2 DEF LeadsTo
<1>5. ASSUME NEW y \in S, K[y] = k PROVE f[p] = y
  <2>1. f[p] # Header /\ K[f[p]] <= K[y]
    BY <1>4, <1>5
  <2>2. f[p] \in S /\ K[f[p]] = K[y]
    BY <1>2, <1>3, <1>5, <2>1 DEF LevelOK
  <2>. QED
    BY <2>2 DEF LevelOK
<1>. QED
  BY <1>2, <1>3, <1>4, <1>5

\* Node n of key k goes in behind the last cell below k.
LEMMA LevelTakes ==
    ASSUME NEW K, NEW S, NEW f, LevelOK(K, S, f), NEW k \in Nat, NEW p, IsPred(K, S, p, k),
           NEW n, n \notin S, n # Header, \A y \in S : K[y] # k,
           NEW K2, K2[n] = k, \A y \in S : K2[y] = K[y],
           NEW f2, f2[n] = f[p], f2[p] = n,
           \A c \in S \union {Header} : c # p => f2[c] = f[c]
    PROVE  LevelOK(K2, S \union {n}, f2)
<1>1. p \in S \union {Header} /\ (p = Header \/ K[p] < k)
  BY DEF IsPred
<1>2. /\ Header \notin S /\ \A c \in S : K[c] \in Nat
      /\ \A c, d \in S : K[c] = K[d] => c = d
      /\ \A c \in S \union {Header} : LeadsTo(K, S, c, f[c])
  BY DEF LevelOK
<1>3. /\ f[p] \in S \union {Header}
      /\ f[p] # Header => k <= K[f[p]]
      /\ \A y \in S : k <= K[y] => f[p] # Header /\ K[f[p]] <= K[y]
  BY PredLeads
<1>4. ASSUME NEW c \in S \union {n} \union {Header} PROVE LeadsTo(K2, S \union {n}, c, f2[c])
  <2>1. CASE c = n
    BY <1>2, <1>3, <2>1 DEF LeadsTo, Below
  <2>2. CASE c = p
    <3>1. c # n /\ f2[c] = n
      BY <1>1, <2>2
    <3>2. Below(K2, c, n)
      BY <1>1, <2>2 DEF Below
    <3>3. ASSUME NEW y \in S, Below(K2, c, y) PROVE k <= K2[y]
      <4>1. ~ K[y] < k
        BY <1>1, <1>2, <2>2, <3>3 DEF Below, IsPred
      <4>. QED
        BY <1>2, <4>1
    <3>. QED
      BY <1>2, <3>1, <3>2, <3>3 DEF LeadsTo
  <2>3. CASE c # n /\ c # p
    <3>1. c \in S \union {Header} /\ f2[c] = f[c] /\ LeadsTo(K, S, c, f[c])
      BY <1>2, <2>3
    <3>2. f[c] \in S \union {Header} /\ (f[c] # Header => Below(K2, c, f[c]))
      BY <1>2, <3>1 DEF LeadsTo, Below
    <3>3. ASSUME NEW y \in S, Below(K2, c, y) PROVE f[c] # Header /\ K2[f[c]] <= K2[y]
      BY <1>2, <3>1, <3>3 DEF LeadsTo, Below
    <3>4. ASSUME Below(K2, c, n) PROVE f[c] # Header /\ K2[f[c]] <= k
      <4>1. c = Header \/ K[c] < k
        BY <1>2, <3>1, <3>4 DEF Below
      <4>2. f[c] # Header /\ K[f[c]] < k
        BY <2>3, <3>1, <4>1, PredSteps
      <4>. QED
        BY <1>2, <3>2, <4>2
    <3>. QED
      BY <3>1, <3>2, <3>3, <3>4 DEF LeadsTo
  <2>. QED
    BY <2>1, <2>2, <2>3
<1>. QED
  BY <1>2, <1>4 DEF LevelOK

\* Node x, behind the last cell below its key, comes out.
LEMMA LevelLoses ==
    ASSUME NEW K, NEW S, NEW f, LevelOK(K, S, f), NEW x \in S, NEW p, IsPred(K, S, p, K[x]),
           NEW K2, \A y \in S : y # x => K2[y] = K[y],
           NEW f2, f2[p] = f[x], \A c \in S \union {Header} : c # x /\ c # p => f2[c] = f[c]
    PROVE  LevelOK(K2, S \ {x}, f2)
<1>2. /\ Header \notin S /\ \A c \in S : K[c] \in Nat
      /\ \A c, d \in S : K[c] = K[d] => c = d
      /\ \A c \in S \union {Header} : LeadsTo(K, S, c, f[c])
  BY DEF LevelOK
<1>1. p \in S \union {Header} /\ (p = Header \/ K[p] < K[x]) /\ K[x] \in Nat /\ p # x
  BY <1>2 DEF IsPred
<1>3. LeadsTo(K, S, x, f[x]) /\ f[x] # x
  BY <1>2 DEF LeadsTo, Below
<1>4. ASSUME NEW c \in (S \ {x}) \union {Header} PROVE LeadsTo(K2, S \ {x}, c, f2[c])
  <2>0. c \in S \union {Header} /\ c # x
    BY <1>2
  <2>1. CASE c = p
    <3>1. f2[c] = f[x] /\ f[x] \in (S \ {x}) \union {Header}
      BY <1>3, <2>1 DEF LeadsTo
    <3>2. f[x] # Header => K[x] < K[f[x]] /\ f[x] \in S
      BY <1>2, <1>3, <3>1 DEF LeadsTo, Below
    <3>3. f[x] # Header => Below(K2, c, f[x])
      BY <1>1, <1>2, <2>0, <2>1, <3>1, <3>2 DEF Below
    <3>4. ASSUME NEW y \in S, y # x, Below(K2, c, y) PROVE f[x] # Header /\ K2[f[x]] <= K2[y]
      <4>1. ~ K[y] < K[x]
        BY <1>1, <1>2, <2>0, <2>1, <3>4 DEF Below, IsPred
      <4>2. Below(K, x, y)
        BY <1>2, <3>4, <4>1 DEF Below
      <4>3. f[x] # Header /\ K[f[x]] <= K[y]
        BY <1>3, <4>2 DEF LeadsTo
      <4>. QED
        BY <1>3, <3>2, <3>4, <4>3
    <3>. QED
      BY <3>1, <3>3, <3>4 DEF LeadsTo
  <2>2. CASE c # p
    <3>1. f2[c] = f[c] /\ LeadsTo(K, S, c, f[c])
      BY <1>2, <2>0, <2>2
    <3>2. f[c] # x
      <4>1. SUFFICES ASSUME f[c] = x PROVE FALSE
        OBVIOUS
      <4>2. c = Header \/ K[c] < K[x]
        BY <1>2, <3>1, <4>1 DEF LeadsTo, Below
      <4>3. f[c] # Header /\ K[f[c]] < K[x]
        BY <1>1, <2>0, <2>2, <4>2, PredSteps
      <4>. QED
        BY <1>1, <4>1, <4>3
    <3>3. f[c] \in (S \ {x}) \union {Header} /\ (f[c] # Header => Below(K2, c, f[c]))
      BY <1>2, <2>0, <3>1, <3>2 DEF LeadsTo, Below
    <3>4. ASSUME NEW y \in S, y # x, Below(K2, c, y) PROVE f[c] # Header /\ K2[f[c]] <= K2[y]
      <4>1. Below(K, c, y)
        BY <2>0, <3>4 DEF Below
      <4>2. f[c] # Header /\ K[f[c]] <= K[y]
        BY <3>1, <4>1 DEF LeadsTo
      <4>. QED
        BY <3>2, <3>3, <3>4, <4>2
    <3>. QED
      BY <3>1, <3>3, <3>4 DEF LeadsTo
  <2>. QED
    BY <2>1, <2>2
<1>. QED
  BY <1>2, <1>4 DEF LevelOK

\* The last cell below x is what x leads to just if x is alone.
LEMMA LevelEmpties ==
    ASSUME NEW K, NEW S, NEW f, LevelOK(K, S, f), NEW x \in S, NEW p, IsPred(K, S, p, K[x])
    PROVE  p = f[x] <=> S = {x}
<1>1. /\ Header \notin S /\ \A c \in S : K[c] \in Nat
      /\ \A c, d \in S : K[c] = K[d] => c = d
      /\ LeadsTo(K, S, x, f[x])
  BY DEF LevelOK
<1>2. f[x] # Header => K[x] < K[f[x]] /\ f[x] \in S
  BY <1>1 DEF LeadsTo, Below
<1>3. p # Header => p \in S /\ K[p] < K[x]
  BY DEF IsPred
<1>4. ASSUME p = f[x] PROVE S = {x}
  <2>1. p = Header /\ f[x] = Header
    BY <1>1, <1>2, <1>3, <1>4
  <2>2. ASSUME NEW y \in S PROVE y = x
    <3>1. ~ K[y] < K[x]
      BY <2>1 DEF IsPred
    <3>2. ~ K[x] < K[y]
      BY <1>1, <2>1 DEF LeadsTo, Below
    <3>. QED
      BY <1>1, <3>1, <3>2
  <2>. QED
    BY <2>2
<1>5. ASSUME S = {x} PROVE p = f[x]
  BY <1>1, <1>2, <1>3, <1>5
<1>. QED
  BY <1>4, <1>5

\* What is not on the level does not matter to it.
LEMMA LevelStays ==
    ASSUME NEW K, NEW S, NEW f, LevelOK(K, S, f),
           NEW K2, \A y \in S : K2[y] = K[y],
           NEW f2, \A c \in S \union {Header} : f2[c] = f[c]
    PROVE  LevelOK(K2, S, f2)
<1>1. ASSUME NEW c \in S \union {Header} PROVE LeadsTo(K2, S, c, f2[c])
  <2>1. LeadsTo(K, S, c, f[c]) /\ f2[c] = f[c]
    BY DEF LevelOK
  <2>. QED
    BY <2>1 DEF LeadsTo, Below
<1>. QED
  BY <1>1 DEF LevelOK

LEMMA SkipSizes ==
    /\ IsFiniteSet(SkipNodes) /\ Header \notin SkipNodes /\ Junk \notin SkipNodes \union {Header}
    /\ SkipKeys \subseteq Nat /\ Junk \notin SkipKeys
    /\ MAX_L \in Nat \ {0, 1} /\ MaxVer \in Nat \ {0}
    /\ Skip!KeyMax \in Nat /\ \A k \in SkipKeys : k < Skip!KeyMax
    /\ Skip!Levels = 1 .. MAX_L - 1 /\ Skip!Cells = SkipNodes \union {Header}
<1>1. /\ IsFiniteSet(SkipNodes) /\ IsFiniteSet(SkipKeys)
      /\ SkipKeys \subseteq Nat /\ SkipKeys # {} /\ MAX_L \in Nat \ {0, 1}
      /\ MaxVer \in Nat \ {0}
      /\ Header \notin SkipNodes /\ Junk \notin Skip!Cells \union SkipKeys
  BY PartsAssumption DEF Skip!SkipAssumption, Skip!IsFiniteSet, IsFiniteSet
<1>2. PICK m : m = CHOOSE k \in SkipKeys : \A j \in SkipKeys : j <= k
  OBVIOUS
<1>3. \E k \in SkipKeys : \A j \in SkipKeys : j <= k
  BY <1>1, FiniteGreatest
<1>4. m \in SkipKeys /\ \A j \in SkipKeys : j <= m
  BY <1>2, <1>3
<1>5. Skip!KeyMax = 1 + m
  BY <1>2 DEF Skip!KeyMax
<1>. QED
  BY <1>1, <1>4, <1>5 DEF Skip!Levels, Skip!Cells

\* The nodes in the list, those as high as level i, and their links there.
InList == {n \in SkipNodes : sKey[n] # Junk}
AtLevel(i) == {n \in InList : i \in DOMAIN sList[n]}
LinksAt(i) == [c \in AtLevel(i) \union {Header} |-> sList[c][i]]

\* The nodes and cells have what their kind has.
CellsOK ==
    /\ sKey[Header] = Skip!KeyMax
    /\ \A n \in SkipNodes : sKey[n] \in SkipKeys \union {Junk}
    /\ DOMAIN sList = Skip!Cells /\ DOMAIN sKey = Skip!Cells
    /\ DOMAIN sList[Header] = Skip!Levels
    /\ \A n \in SkipNodes : \E l \in 0 .. MAX_L - 1 :
          DOMAIN sList[n] = 1 .. l /\ (l = 0 <=> sKey[n] = Junk)
    /\ \A n \in SkipNodes : sKey[n] = Junk => sList[n] = <<>>
    /\ sValue \in [SkipNodes -> (1 .. MaxVer) \union {Junk}]
    /\ \A n \in InList : sValue[n] \in 1 .. MaxVer

SkipOK ==
    /\ sLevel \in 0 .. MAX_L - 1 /\ sSize = Cardinality(InList)
    /\ CellsOK
    /\ \A i \in Skip!Levels : LevelOK(sKey, AtLevel(i), LinksAt(i))
    /\ \A i \in Skip!Levels : i > sLevel => AtLevel(i) = {}
    /\ \A i \in Skip!Levels : i \in 2 .. sLevel => AtLevel(i) # {}

LEMMA LevelFacts ==
    ASSUME SkipOK, NEW i \in Skip!Levels
    PROVE  /\ IsFiniteSet(InList) /\ IsFiniteSet(AtLevel(i)) /\ AtLevel(i) \subseteq InList
           /\ InList \subseteq SkipNodes /\ AtLevel(1) = InList
           /\ {d \in Skip!Cells : i \in DOMAIN sList[d]} = AtLevel(i) \union {Header}
           /\ \A n \in InList : sKey[n] \in SkipKeys
           /\ \A j \in Skip!Levels : i <= j => AtLevel(j) \subseteq AtLevel(i)
           /\ \A c \in AtLevel(i) \union {Header} : LinksAt(i)[c] = sList[c][i]
<1>1. CellsOK
  BY DEF SkipOK
<1>2. InList \subseteq SkipNodes /\ AtLevel(i) \subseteq InList
  BY DEF InList, AtLevel
<1>3. IsFiniteSet(InList) /\ IsFiniteSet(AtLevel(i))
  BY <1>2, SkipSizes, FS_Subset
<1>4. ASSUME NEW n \in SkipNodes, NEW j \in Skip!Levels, i <= j, j \in DOMAIN sList[n]
      PROVE  i \in DOMAIN sList[n]
  BY <1>1, <1>4, SkipSizes DEF CellsOK
<1>5. ASSUME NEW n \in SkipNodes, i \in DOMAIN sList[n] PROVE sKey[n] # Junk
  BY <1>1, <1>5, SkipSizes DEF CellsOK
<1>6. ASSUME NEW n \in InList PROVE 1 \in DOMAIN sList[n]
  BY <1>1, <1>6, SkipSizes DEF CellsOK, InList
<1>7. {d \in Skip!Cells : i \in DOMAIN sList[d]} = AtLevel(i) \union {Header}
  BY <1>1, <1>2, <1>5, SkipSizes DEF CellsOK, AtLevel, InList
<1>8. \A n \in InList : sKey[n] \in SkipKeys
  BY <1>1 DEF CellsOK, InList
<1>. QED
  BY <1>2, <1>3, <1>4, <1>6, <1>7, <1>8 DEF AtLevel, LinksAt

\* The comparison of a search with what a cell links to.
LEMMA LessMeans ==
    ASSUME SkipOK, NEW i \in Skip!Levels, NEW k \in SkipKeys,
           NEW x \in AtLevel(i) \union {Header}
    PROVE  sKey[x] < k <=> x # Header /\ sKey[x] < k
BY SkipSizes DEF SkipOK, CellsOK

\* A walk along a level from before k ends at the last cell below k.
LEMMA BeforeIs ==
    ASSUME SkipOK, NEW i \in Skip!Levels, NEW k \in SkipKeys,
           NEW p, IsPred(sKey, AtLevel(i), p, k),
           NEW c \in AtLevel(i) \union {Header}, c = Header \/ sKey[c] < k
    PROVE  Skip!Before(c, i, k) = p
<1> DEFINE S == AtLevel(i)
           D == S \union {Header}
           Step(x, w) == IF sKey[sList[x][i]] < k THEN w ELSE x
           walk[x \in {d \in Skip!Cells : i \in DOMAIN sList[d]}] ==
               IF sKey[sList[x][i]] < k THEN walk[sList[x][i]] ELSE x
<1>1. Skip!Before(c, i, k) = walk[c]
  BY DEF Skip!Before
<1>2. /\ {d \in Skip!Cells : i \in DOMAIN sList[d]} = D
      /\ \A x \in D : LinksAt(i)[x] = sList[x][i]
      /\ S \subseteq InList /\ \A n \in InList : sKey[n] \in SkipKeys
  BY LevelFacts
<1>3. LevelOK(sKey, S, LinksAt(i)) /\ k \in Nat
  BY SkipSizes DEF SkipOK
<1>4. ASSUME NEW x \in D, x = Header \/ sKey[x] < k
      PROVE  /\ sList[x][i] \in D
             /\ sKey[sList[x][i]] < k <=> x # p
             /\ x # p => /\ sList[x][i] \in S
                         /\ x = Header \/ sKey[x] < sKey[sList[x][i]]
  <2>1. PICK y : y = sList[x][i]
    OBVIOUS
  <2>2. /\ y \in D
        /\ y # Header => x = Header \/ sKey[x] < sKey[y]
        /\ ~ (y # Header /\ sKey[y] < k) <=> x = p
    <3>1. PICK f : f = LinksAt(i)
      OBVIOUS
    <3>2. f[x] = y
      BY <1>2, <2>1, <3>1
    <3>3. LevelOK(sKey, S, f) /\ IsPred(sKey, S, p, k)
      BY <1>3, <3>1
    <3>. HIDE DEF S
    <3>. QED
      BY <1>3, <1>4, <3>2, <3>3, PredSteps
  <2>3. sKey[y] < k <=> y # Header /\ sKey[y] < k
    BY <2>2, LessMeans
  <2>. QED
    BY <2>1, <2>2, <2>3
<1>5. \E g : g = [x \in D |-> Step(x, g[sList[x][i]])]
  <2> DEFINE To(x) == IF sKey[sList[x][i]] < k THEN p ELSE x
             g == [x \in D |-> To(x)]
  <2>1. ASSUME NEW x \in D PROVE g[x] = Step(x, g[sList[x][i]])
    <3>1. CASE ~ (sKey[sList[x][i]] < k)
      BY <3>1
    <3>2. CASE sKey[sList[x][i]] < k
      <4>1. PICK y : y = sList[x][i]
        OBVIOUS
      <4>2. y \in D
        <5>1. LeadsTo(sKey, S, x, LinksAt(i)[x])
          BY <1>3 DEF LevelOK
        <5>. QED
          BY <1>2, <4>1, <5>1 DEF LeadsTo
      <4>3. y = Header \/ sKey[y] < k
        BY <3>2, <4>1
      <4>4. To(y) = p
        BY <1>4, <4>2, <4>3
      <4>. QED
        BY <3>2, <4>1, <4>2, <4>4
    <3>. QED
      BY <3>1, <3>2
  <2>2. g = [x \in D |-> g[x]]
    OBVIOUS
  <2>. HIDE DEF g
  <2>3. g = [x \in D |-> Step(x, g[sList[x][i]])]
    <3>. HIDE DEF Step, D
    <3>. QED
      BY <2>1, <2>2, Zenon
  <2>. QED
    BY <2>3
<1>6. walk = [x \in D |-> Step(x, walk[sList[x][i]])]
  <2>1. \E g : g = [x \in {d \in Skip!Cells : i \in DOMAIN sList[d]} |-> Step(x, g[sList[x][i]])]
    BY <1>2, <1>5
  <2>2. walk = [x \in {d \in Skip!Cells : i \in DOMAIN sList[d]} |-> Step(x, walk[sList[x][i]])]
    BY <2>1, Zenon
  <2>. HIDE DEF walk
  <2>. QED
    BY <1>2, <2>2
<1>. HIDE DEF walk
<1>7. ASSUME NEW x \in D, x = Header \/ sKey[x] < k
      PROVE  walk[x] = IF x = p THEN p ELSE walk[sList[x][i]]
  <2>1. walk[x] = Step(x, walk[sList[x][i]])
    <3>. HIDE DEF Step, D
    <3>. QED
      BY <1>6
  <2>. QED
    BY <1>4, <1>7, <2>1
<1>8. ASSUME NEW x \in S, sKey[x] < k PROVE walk[x] = p
  <2> DEFINE M == {m \in 0 .. k : \A y \in S : sKey[y] < k /\ k - sKey[y] <= m => walk[y] = p}
  <2>0. \A y \in S : sKey[y] \in Nat
    BY <1>3 DEF LevelOK
  <2>1. 0 \in M
    BY <1>3, <2>0
  <2>2. ASSUME NEW m \in 0 .. k - 1, m \in M PROVE m + 1 \in M
    <3>1. ASSUME NEW y \in S, sKey[y] < k, k - sKey[y] <= m + 1 PROVE walk[y] = p
      <4>1. CASE y = p
        BY <1>7, <3>1, <4>1
      <4>2. CASE y # p
        <5>0. PICK z : z = sList[y][i]
          OBVIOUS
        <5>1. z \in S /\ sKey[z] < k /\ (y = Header \/ sKey[y] < sKey[z])
          BY <1>4, <3>1, <4>2, <5>0
        <5>2. y # Header
          BY <1>3 DEF LevelOK
        <5>3. k - sKey[z] <= m
          BY <1>3, <2>0, <3>1, <5>1, <5>2
        <5>4. walk[z] = p
          BY <2>2, <5>1, <5>3
        <5>. QED
          BY <1>7, <3>1, <4>2, <5>0, <5>4
      <4>. QED
        BY <4>1, <4>2
    <3>. QED
      BY <1>3, <3>1
  <2>3. 0 .. k \subseteq M
    <3>. HIDE DEF M
    <3>. QED
      BY <1>3, <2>1, <2>2, Induction
  <2>4. k \in M /\ k - sKey[x] <= k
    BY <1>3, <2>0, <2>3
  <2>. QED
    BY <1>8, <2>4
<1>9. CASE c = Header
  <2>1. CASE c = p
    BY <1>1, <1>7, <2>1
  <2>2. CASE c # p
    BY <1>1, <1>4, <1>7, <1>8, <1>9, <2>2
  <2>. QED
    BY <2>1, <2>2
<1>10. CASE c # Header
  BY <1>1, <1>8, <1>10
<1>. QED
  BY <1>9, <1>10

\* The path of a search leads over the last cell below k on each level.
LEMMA PathIs ==
    ASSUME SkipOK, NEW k \in SkipKeys
    PROVE  \A i \in Skip!Levels : IsPred(sKey, AtLevel(i), Skip!Path(k)[i], k)
<1> DEFINE Pred(i) == CHOOSE p : IsPred(sKey, AtLevel(i), p, k)
           Step(i, w) == IF i > sLevel THEN Header
                         ELSE Skip!Before(IF i = sLevel THEN Header ELSE w, i, k)
           path[i \in Skip!Levels] ==
               IF i > sLevel THEN Header
               ELSE Skip!Before(IF i = sLevel THEN Header ELSE path[i + 1], i, k)
<1>1. Skip!Path(k) = path
  BY DEF Skip!Path
<1>2. /\ k \in Nat /\ Skip!Levels = 1 .. MAX_L - 1 /\ MAX_L \in Nat \ {0, 1}
      /\ sLevel \in 0 .. MAX_L - 1
  BY SkipSizes DEF SkipOK
<1>3. ASSUME NEW i \in Skip!Levels PROVE IsPred(sKey, AtLevel(i), Pred(i), k)
  <2>1. LevelOK(sKey, AtLevel(i), LinksAt(i)) /\ IsFiniteSet(AtLevel(i))
    BY LevelFacts DEF SkipOK
  <2>2. \E p : IsPred(sKey, AtLevel(i), p, k)
    BY <1>2, <2>1, PredExists
  <2>. QED
    BY <2>2
<1>. HIDE DEF Pred
<1>4. ASSUME NEW i \in Skip!Levels, NEW w, i < sLevel => w = Pred(i + 1)
      PROVE  Step(i, w) = Pred(i)
  <2>1. CASE i > sLevel
    <3>1. Pred(i) \in AtLevel(i) \union {Header} /\ AtLevel(i) = {}
      BY <1>3, <2>1 DEF IsPred, SkipOK
    <3>. QED
      BY <2>1, <3>1
  <2>2. CASE i = sLevel
    <3>1. Skip!Before(Header, i, k) = Pred(i)
      BY <1>3, BeforeIs
    <3>. QED
      BY <1>2, <2>2, <3>1
  <2>3. CASE i < sLevel
    <3>1. i + 1 \in Skip!Levels /\ i <= i + 1
      BY <1>2, <2>3
    <3>2. PICK q : q = Pred(i + 1)
      OBVIOUS
    <3>3. IsPred(sKey, AtLevel(i + 1), q, k)
      BY <1>3, <3>1, <3>2
    <3>4. AtLevel(i + 1) \subseteq AtLevel(i)
      BY <3>1, LevelFacts
    <3>5. q \in AtLevel(i) \union {Header} /\ (q = Header \/ sKey[q] < k)
      BY <3>3, <3>4 DEF IsPred
    <3>6. Skip!Before(q, i, k) = Pred(i)
      BY <1>3, <3>5, BeforeIs
    <3>7. Step(i, w) = Skip!Before(q, i, k)
      BY <1>2, <1>4, <2>3, <3>2
    <3>. QED
      BY <3>6, <3>7
  <2>. QED
    BY <1>2, <2>1, <2>2, <2>3
<1>5. \E g : g = [i \in Skip!Levels |-> Step(i, g[i + 1])]
  <2> DEFINE g == [i \in Skip!Levels |-> Pred(i)]
  <2>1. ASSUME NEW i \in Skip!Levels PROVE g[i] = Step(i, g[i + 1])
    <3>1. i < sLevel => g[i + 1] = Pred(i + 1)
      BY <1>2
    <3>2. g[i] = Pred(i)
      OBVIOUS
    <3>. HIDE DEF g, Step
    <3>. QED
      BY <1>4, <3>1, <3>2
  <2>2. g = [i \in Skip!Levels |-> g[i]]
    OBVIOUS
  <2>. HIDE DEF g
  <2>3. g = [i \in Skip!Levels |-> Step(i, g[i + 1])]
    <3>. HIDE DEF Step
    <3>. QED
      BY <2>1, <2>2
  <2>. QED
    BY <2>3
<1>6. path = [i \in Skip!Levels |-> Step(i, path[i + 1])]
  BY <1>5, Zenon
<1>. HIDE DEF path
<1>7. ASSUME NEW i \in Skip!Levels, i < sLevel => path[i + 1] = Pred(i + 1)
      PROVE  path[i] = Pred(i)
  <2>1. path[i] = Step(i, path[i + 1])
    <3>. HIDE DEF Step
    <3>. QED
      BY <1>6
  <2>. HIDE DEF Step
  <2>. QED
    BY <1>4, <1>7, <2>1
<1>8. ASSUME NEW i \in Skip!Levels PROVE path[i] = Pred(i)
  <2> DEFINE M == {m \in 0 .. MAX_L - 2 : path[(MAX_L - 1) - m] = Pred((MAX_L - 1) - m)}
  <2>1. 0 \in M
    <3>1. (MAX_L - 1) - 0 \in Skip!Levels /\ ~ ((MAX_L - 1) - 0 < sLevel) /\ 0 \in 0 .. MAX_L - 2
      BY <1>2
    <3>. QED
      BY <1>7, <3>1
  <2>2. ASSUME NEW m \in 0 .. (MAX_L - 2) - 1, m \in M PROVE m + 1 \in M
    <3>1. PICK j : j = (MAX_L - 1) - (m + 1)
      OBVIOUS
    <3>2. j \in Skip!Levels /\ j + 1 = (MAX_L - 1) - m /\ m + 1 \in 0 .. MAX_L - 2
      BY <1>2, <3>1
    <3>3. path[j + 1] = Pred(j + 1)
      BY <2>2, <3>2
    <3>4. path[j] = Pred(j)
      BY <1>7, <3>2, <3>3
    <3>. QED
      BY <3>1, <3>2, <3>4
  <2>3. MAX_L - 2 \in Nat
    BY <1>2
  <2>4. 0 .. MAX_L - 2 \subseteq M
    <3>. HIDE DEF M
    <3>. QED
      BY <2>1, <2>2, <2>3, Induction
  <2>5. (MAX_L - 1) - i \in 0 .. MAX_L - 2 /\ (MAX_L - 1) - ((MAX_L - 1) - i) = i
    BY <1>2
  <2>. QED
    BY <2>4, <2>5
<1>. QED
  BY <1>1, <1>3, <1>8

\* Where a search ends: at the node of key k, else the first above, else the header.
IsBound(r, k) ==
    /\ r \in InList \union {Header}
    /\ r # Header => k <= sKey[r]
    /\ \A y \in InList : k <= sKey[y] => r # Header /\ sKey[r] <= sKey[y]
    /\ \A y \in InList : sKey[y] = k => r = y

LEMMA ReachedIs ==
    ASSUME SkipOK, NEW k \in SkipKeys
    PROVE  IsBound(Skip!Reached(k), k)
<1>1. 1 \in Skip!Levels /\ k \in Nat
  BY SkipSizes
<1>2. PICK p : p = IF sLevel = 0 THEN Header ELSE Skip!Path(k)[1]
  OBVIOUS
<1>3. IsPred(sKey, AtLevel(1), Skip!Path(k)[1], k)
  BY <1>1, PathIs
<1>4. sLevel = 0 => AtLevel(1) = {}
  BY <1>1 DEF SkipOK
<1>5. IsPred(sKey, AtLevel(1), p, k)
  BY <1>2, <1>3, <1>4 DEF IsPred
<1>6. PICK f : f = LinksAt(1)
  OBVIOUS
<1>7. LevelOK(sKey, AtLevel(1), f)
  BY <1>1, <1>6 DEF SkipOK
<1>8. AtLevel(1) = InList /\ f[p] = sList[p][1]
  BY <1>1, <1>5, <1>6, LevelFacts DEF IsPred
<1>9. /\ f[p] \in InList \union {Header}
      /\ f[p] # Header => k <= sKey[f[p]]
      /\ \A y \in InList : k <= sKey[y] => f[p] # Header /\ sKey[f[p]] <= sKey[y]
      /\ \A y \in InList : sKey[y] = k => f[p] = y
  <2>1. \E S : S = AtLevel(1)
    OBVIOUS
  <2>2. PICK S : S = AtLevel(1)
    BY <2>1
  <2>3. LevelOK(sKey, S, f) /\ IsPred(sKey, S, p, k) /\ S = InList
    BY <1>5, <1>7, <1>8, <2>2
  <2>4. /\ f[p] \in S \union {Header}
        /\ f[p] # Header => k <= sKey[f[p]]
        /\ \A y \in S : k <= sKey[y] => f[p] # Header /\ sKey[f[p]] <= sKey[y]
        /\ \A y \in S : sKey[y] = k => f[p] = y
    BY <1>1, <2>3, PredLeads
  <2>. QED
    BY <2>3, <2>4
<1>10. Skip!Reached(k) = f[p]
  BY <1>2, <1>8 DEF Skip!Reached
<1>. QED
  BY <1>9, <1>10 DEF IsBound

\* The sequence w is the nodes of level i up to its last, in order.
IsFront(w, i) ==
    /\ w \in Seq(AtLevel(i))
    /\ \A a, b \in 1 .. Len(w) : a < b => sKey[w[a]] < sKey[w[b]]
    /\ \A y \in AtLevel(i) :
          Len(w) # 0 /\ sKey[y] <= sKey[w[Len(w)]] => \E a \in 1 .. Len(w) : y = w[a]

\* Where a walk that has met w goes on.
GoesTo(w, i) == sList[IF w = <<>> THEN Header ELSE w[Len(w)]][i]

LEMMA FrontGrows ==
    ASSUME SkipOK, NEW i \in Skip!Levels, NEW w, IsFront(w, i), NEW x, x = GoesTo(w, i)
    PROVE  /\ x \in AtLevel(i) \union {Header}
           /\ x # Header => IsFront(Append(w, x), i) /\ Len(Append(w, x)) = Len(w) + 1
           /\ x = Header => \A y \in AtLevel(i) : \E a \in 1 .. Len(w) : y = w[a]
<1> DEFINE c == IF w = <<>> THEN Header ELSE w[Len(w)]
<1>1. /\ w \in Seq(AtLevel(i))
      /\ \A a, b \in 1 .. Len(w) : a < b => sKey[w[a]] < sKey[w[b]]
      /\ \A y \in AtLevel(i) :
            Len(w) # 0 /\ sKey[y] <= sKey[w[Len(w)]] => \E a \in 1 .. Len(w) : y = w[a]
  BY DEF IsFront
<1>2. Len(w) \in Nat /\ (w = <<>> <=> Len(w) = 0) /\ \A a \in 1 .. Len(w) : w[a] \in AtLevel(i)
  BY <1>1
<1>3. /\ LevelOK(sKey, AtLevel(i), LinksAt(i)) /\ \A y \in AtLevel(i) : sKey[y] \in Nat
      /\ Header \notin AtLevel(i)
  BY DEF SkipOK, LevelOK
<1>4. /\ c \in AtLevel(i) \union {Header} /\ (w # <<>> => c # Header /\ c = w[Len(w)])
  BY <1>2, <1>3
<1>5. LeadsTo(sKey, AtLevel(i), c, x)
  <2>1. LinksAt(i)[c] = x
    BY <1>4, LevelFacts DEF GoesTo
  <2>2. LeadsTo(sKey, AtLevel(i), c, LinksAt(i)[c])
    BY <1>3, <1>4 DEF LevelOK
  <2>. QED
    BY <2>1, <2>2
<1>6. /\ x \in AtLevel(i) \union {Header}
      /\ x # Header => w = <<>> \/ sKey[c] < sKey[x]
      /\ \A y \in AtLevel(i) : w = <<>> \/ sKey[c] < sKey[y] => x # Header /\ sKey[x] <= sKey[y]
  BY <1>4, <1>5 DEF LeadsTo, Below
<1>7. ASSUME x # Header PROVE IsFront(Append(w, x), i) /\ Len(Append(w, x)) = Len(w) + 1
  <2>1. PICK v : v = Append(w, x)
    OBVIOUS
  <2>2. /\ x \in AtLevel(i) /\ v \in Seq(AtLevel(i)) /\ Len(v) = Len(w) + 1
        /\ v[Len(v)] = x /\ \A a \in 1 .. Len(w) : v[a] = w[a]
    BY <1>1, <1>6, <1>7, <2>1
  <2>3. \A a \in 1 .. Len(w) : sKey[w[a]] < sKey[x]
    <3>1. SUFFICES ASSUME NEW a \in 1 .. Len(w) PROVE sKey[w[a]] < sKey[x]
      OBVIOUS
    <3>2. w # <<>> /\ sKey[c] < sKey[x] /\ c = w[Len(w)] /\ Len(w) \in 1 .. Len(w)
      BY <1>2, <1>4, <1>6, <1>7
    <3>3. a = Len(w) \/ sKey[w[a]] < sKey[w[Len(w)]]
      BY <1>1, <1>2, <3>2
    <3>4. /\ sKey[w[a]] \in Nat /\ sKey[x] \in Nat /\ sKey[c] \in Nat
      BY <1>2, <1>3, <2>2, <3>2
    <3>. QED
      BY <3>2, <3>3, <3>4
  <2>4. ASSUME NEW a \in 1 .. Len(v), NEW b \in 1 .. Len(v), a < b
        PROVE  sKey[v[a]] < sKey[v[b]]
    <3>1. a \in 1 .. Len(w) /\ (b = Len(v) \/ b \in 1 .. Len(w))
      BY <1>2, <2>2, <2>4
    <3>2. CASE b = Len(v)
      BY <2>2, <2>3, <3>1, <3>2
    <3>3. CASE b \in 1 .. Len(w)
      BY <1>1, <2>2, <2>4, <3>1, <3>3
    <3>. QED
      BY <3>1, <3>2, <3>3
  <2>5. ASSUME NEW y \in AtLevel(i), sKey[y] <= sKey[v[Len(v)]]
        PROVE  \E a \in 1 .. Len(v) : y = v[a]
    <3>1. CASE w = <<>> \/ sKey[c] < sKey[y]
      <4>1. sKey[x] = sKey[y]
        BY <1>3, <1>6, <2>2, <2>5, <3>1
      <4>2. x = y
        BY <1>3, <2>2, <4>1 DEF LevelOK
      <4>. QED
        BY <1>2, <2>2, <4>2
    <3>2. CASE ~ (w = <<>> \/ sKey[c] < sKey[y])
      <4>1. Len(w) # 0 /\ sKey[y] <= sKey[w[Len(w)]]
        BY <1>2, <1>3, <1>4, <3>2
      <4>2. PICK a \in 1 .. Len(w) : y = w[a]
        BY <1>1, <4>1
      <4>3. a \in 1 .. Len(v) /\ y = v[a]
        BY <1>2, <2>2, <4>2
      <4>. QED
        BY <4>3
    <3>. QED
      BY <3>1, <3>2
  <2>6. IsFront(v, i)
    BY <2>2, <2>4, <2>5 DEF IsFront
  <2>. QED
    BY <2>1, <2>2, <2>6
<1>8. ASSUME x = Header, NEW y \in AtLevel(i) PROVE \E a \in 1 .. Len(w) : y = w[a]
  <2>1. w # <<>> /\ ~ (sKey[c] < sKey[y])
    BY <1>6, <1>8
  <2>2. Len(w) # 0 /\ sKey[y] <= sKey[w[Len(w)]]
    BY <1>2, <1>3, <1>4, <2>1
  <2>. QED
    BY <1>1, <2>2
<1>. QED
  BY <1>6, <1>7, <1>8

\* The sequence w is all nodes of level i in order.
InOrder(w, i) ==
    /\ IsFront(w, i) /\ \A y \in AtLevel(i) : \E a \in 1 .. Len(w) : y = w[a]
    /\ GoesTo(w, i) = Header

LEMMA IteratedIs ==
    ASSUME SkipOK, NEW i \in Skip!Levels
    PROVE  InOrder(Skip!Iterated(i), i)
<1> DEFINE N == Cardinality(SkipNodes)
           T == Seq(SkipNodes)
           Met(m, w) ==
               LET x == sList[IF w = <<>> THEN Header ELSE w[Len(w)]][i]
               IN  IF Len(w) = m - 1 /\ x \in SkipNodes /\ i \in DOMAIN sList[x]
                   THEN Append(w, x) ELSE w
           walk[m \in 0 .. Skip!Cardinality(SkipNodes)] ==
               IF m = 0 THEN <<>>
               ELSE LET w == walk[m - 1]
                        x == sList[IF w = <<>> THEN Header ELSE w[Len(w)]][i]
                    IN  IF Len(w) = m - 1 /\ x \in SkipNodes /\ i \in DOMAIN sList[x]
                        THEN Append(w, x) ELSE w
<1>1. /\ N \in Nat /\ Skip!Cardinality(SkipNodes) = N
  BY SkipSizes, FS_CardinalityType DEF Skip!Cardinality, Cardinality
<1>2. Skip!Iterated(i) = walk[N]
  BY <1>1 DEF Skip!Iterated
<1>3. ASSUME NEW m \in 1 .. N, NEW w \in T PROVE Met(m, w) \in T
  OBVIOUS
<1>4. \E g : g = [m \in 0 .. N |-> IF m = 0 THEN <<>> ELSE Met(m, g[m - 1])]
  <2> DEFINE F == [m \in 1 .. N |-> [w \in T |-> Met(m, w)]]
  <2>1. F \in [1 .. N -> [T -> T]] /\ \A m \in 1 .. N : \A w \in T : F[m][w] = Met(m, w)
    <3>. HIDE DEF Met, T, N
    <3>. QED
      BY <1>3
  <2>2. <<>> \in T
    OBVIOUS
  <2>3. PICK g \in [0 .. N -> T] : g[0] = <<>> /\ \A m \in 1 .. N : g[m] = F[m][g[m - 1]]
    <3>1. PICK U, a, H, n : U = T /\ a = <<>> /\ H = F /\ n = N
      OBVIOUS
    <3>. HIDE DEF F, T, N
    <3>2. a \in U /\ H \in [1 .. n -> [U -> U]] /\ n \in Nat
      BY <1>1, <2>1, <2>2, <3>1
    <3>3. \E g \in [0 .. n -> U] : g[0] = a /\ \A m \in 1 .. n : g[m] = H[m][g[m - 1]]
      BY ONLY <3>2, Iteration
    <3>. QED
      BY <3>1, <3>3
  <2>4. ASSUME NEW m \in 1 .. N PROVE g[m] = Met(m, g[m - 1])
    <3>1. m - 1 \in 0 .. N
      BY <1>1
    <3>2. g[m - 1] \in T
      BY <2>3, <3>1
    <3>. HIDE DEF F, Met
    <3>. QED
      BY <2>1, <2>3, <3>2
  <2>5. ASSUME NEW m \in 0 .. N PROVE g[m] = IF m = 0 THEN <<>> ELSE Met(m, g[m - 1])
    <3>1. m # 0 => m \in 1 .. N
      BY <1>1
    <3>. HIDE DEF Met
    <3>. QED
      BY <2>3, <2>4, <3>1
  <2>6. g = [m \in 0 .. N |-> IF m = 0 THEN <<>> ELSE Met(m, g[m - 1])]
    <3>. HIDE DEF Met, T
    <3>. QED
      BY <2>3, <2>5
  <2>. QED
    BY <2>6
<1>5. walk = [m \in 0 .. N |-> IF m = 0 THEN <<>> ELSE Met(m, walk[m - 1])]
  BY <1>1, <1>4, Zenon
<1>. HIDE DEF walk
<1>6. walk[0] = <<>> /\ \A m \in 1 .. N : walk[m] = Met(m, walk[m - 1])
  <2>. HIDE DEF Met
  <2>. QED
    BY <1>1, <1>5
<1> DEFINE Good(m) == /\ IsFront(walk[m], i)
                      /\ Len(walk[m]) = m \/ GoesTo(walk[m], i) = Header
<1>7. Good(0)
  <2>1. Len(<<>>) = 0 /\ <<>> \in Seq(AtLevel(i))
    OBVIOUS
  <2>. QED
    BY <1>6, <2>1 DEF IsFront
<1>8. ASSUME NEW m \in 1 .. N, Good(m - 1) PROVE Good(m)
  <2>1. PICK w : w = walk[m - 1]
    OBVIOUS
  <2>2. PICK x : x = GoesTo(w, i)
    OBVIOUS
  <2>3. IsFront(w, i) /\ w \in Seq(AtLevel(i)) /\ (Len(w) = m - 1 \/ x = Header)
    BY <1>8, <2>1, <2>2 DEF IsFront
  <2>4. /\ x \in AtLevel(i) \union {Header}
        /\ x # Header => IsFront(Append(w, x), i) /\ Len(Append(w, x)) = Len(w) + 1
    BY <2>2, <2>3, FrontGrows
  <2>5. x \in SkipNodes /\ i \in DOMAIN sList[x] <=> x # Header
    BY <2>4, SkipSizes DEF AtLevel, InList
  <2>6. walk[m] = IF Len(w) = m - 1 /\ x \in SkipNodes /\ i \in DOMAIN sList[x]
                  THEN Append(w, x) ELSE w
    BY <1>6, <2>1, <2>2 DEF GoesTo
  <2>7. CASE x = Header
    BY <2>2, <2>3, <2>5, <2>6, <2>7
  <2>8. CASE x # Header
    BY <2>3, <2>4, <2>5, <2>6, <2>8
  <2>. QED
    BY <2>7, <2>8
<1>9. Good(N)
  <2> DEFINE M == {m \in 0 .. N : Good(m)}
  <2>1. 0 \in M
    BY <1>1, <1>7
  <2>2. ASSUME NEW m \in 0 .. N - 1, m \in M PROVE m + 1 \in M
    <3>1. m + 1 \in 1 .. N /\ m + 1 \in 0 .. N /\ (m + 1) - 1 = m
      BY <1>1
    <3>. HIDE DEF Good, N
    <3>. QED
      BY <1>8, <2>2, <3>1
  <2>3. 0 .. N \subseteq M
    <3>. HIDE DEF M, N
    <3>. QED
      BY <1>1, <2>1, <2>2, Induction
  <2>. QED
    BY <1>1, <2>3
<1>10. PICK w : w = walk[N]
  OBVIOUS
<1>11. IsFront(w, i) /\ (Len(w) = N \/ GoesTo(w, i) = Header)
  BY <1>9, <1>10
<1>12. PICK x : x = GoesTo(w, i)
  OBVIOUS
<1>13. x = Header
  <2>1. SUFFICES ASSUME x # Header PROVE FALSE
    OBVIOUS
  <2>2. PICK v, n : v = Append(w, x) /\ n = Len(v)
    OBVIOUS
  <2>3. IsFront(v, i) /\ n = N + 1
    BY <1>11, <1>12, <2>1, <2>2, FrontGrows
  <2>4. /\ v \in Seq(AtLevel(i)) /\ AtLevel(i) \subseteq SkipNodes
        /\ \A a, b \in 1 .. n : a < b => sKey[v[a]] < sKey[v[b]]
    BY <2>2, <2>3 DEF IsFront, AtLevel, InList
  <2>5. v \in [1 .. n -> SkipNodes] /\ n \in Nat
    <3>1. v \in Seq(SkipNodes)
      BY <2>4
    <3>. QED
      BY <2>2, <3>1, LenProperties
  <2>6. \A a \in 1 .. n : sKey[v[a]] \in Nat
    BY <2>2, <2>4 DEF SkipOK, LevelOK
  <2>7. \A a, b \in 1 .. n : v[a] = v[b] => a = b
    BY <2>4, <2>5, <2>6
  <2>8. n <= N
    BY <2>5, <2>7, SkipSizes, HowMany
  <2>. QED
    BY <1>1, <2>3, <2>8
<1>14. \A y \in AtLevel(i) : \E a \in 1 .. Len(w) : y = w[a]
  BY <1>11, <1>12, <1>13, FrontGrows
<1>. QED
  BY <1>2, <1>10, <1>11, <1>12, <1>13, <1>14 DEF InOrder

-----------------------------------------------------------------------------
(* The calls of the skiplist. *)

LEMMA SkipStart == Skip!Init => SkipOK
<1>. SUFFICES ASSUME Skip!Init PROVE SkipOK
  OBVIOUS
<1>1. /\ sLevel = 1 /\ sSize = 0
      /\ sList = [c \in Skip!Cells |-> IF c = Header THEN [i \in Skip!Levels |-> Header] ELSE <<>>]
      /\ sKey = [c \in Skip!Cells |-> IF c = Header THEN Skip!KeyMax ELSE Junk]
      /\ sValue = [n \in SkipNodes |-> Junk]
  BY DEF Skip!Init
<1>2. \A n \in SkipNodes : n # Header /\ sList[n] = <<>> /\ sKey[n] = Junk
  BY <1>1, SkipSizes
<1>3. InList = {} /\ \A i \in Skip!Levels : AtLevel(i) = {}
  BY <1>2 DEF InList, AtLevel
<1>4. /\ sKey[Header] = Skip!KeyMax /\ sList[Header] = [i \in Skip!Levels |-> Header]
      /\ 0 \in 0 .. MAX_L - 1
  BY <1>1, SkipSizes
<1>5. CellsOK
  BY <1>1, <1>2, <1>3, <1>4, SkipSizes DEF CellsOK
<1>6. ASSUME NEW i \in Skip!Levels PROVE LevelOK(sKey, AtLevel(i), LinksAt(i))
  <2>1. LinksAt(i)[Header] = Header
    BY <1>4 DEF LinksAt
  <2>. QED
    BY <1>3, <1>6, <2>1 DEF LevelOK, LeadsTo
<1>7. Cardinality({}) = 0
  BY FS_EmptySet
<1>8. sSize = Cardinality(InList) /\ sLevel \in 0 .. MAX_L - 1 /\ 2 .. sLevel = {}
  BY <1>1, <1>3, <1>7, SkipSizes
<1>. QED
  BY <1>3, <1>5, <1>6, <1>8 DEF SkipOK

LEMMA SkipStays == SkipOK /\ UNCHANGED skip => SkipOK'
<1>. SUFFICES ASSUME SkipOK, UNCHANGED skip PROVE SkipOK'
  OBVIOUS
<1>1. /\ sLevel' = sLevel /\ sSize' = sSize /\ sList' = sList /\ sKey' = sKey /\ sValue' = sValue
  BY DEF skip
<1>2. InList' = InList
  BY <1>1 DEF InList
<1>3. \A i : AtLevel(i)' = AtLevel(i) /\ LinksAt(i)' = LinksAt(i)
  BY <1>1, <1>2 DEF AtLevel, LinksAt
<1>4. CellsOK'
  BY <1>1, <1>2 DEF CellsOK, SkipOK
<1>5. \A i \in Skip!Levels : LevelOK(sKey', AtLevel(i)', LinksAt(i)')
  BY <1>1, <1>3 DEF SkipOK
<1>. QED
  BY <1>1, <1>2, <1>3, <1>4, <1>5 DEF SkipOK

\* A key that is there gets its next version.
LEMMA ReplaceKeeps ==
    ASSUME SkipOK, NEW k \in SkipKeys, Skip!Replace(k)
    PROVE  /\ SkipOK'
           /\ UNCHANGED <<sLevel, sSize, sList, sKey>>
           /\ \E x \in InList : sKey[x] = k /\ sValue' = [sValue EXCEPT ![x] = sValue[x] + 1]
<1>1. PICK x : x = Skip!Reached(k)
  OBVIOUS
<1>2. /\ sKey[x] = k /\ sValue[x] < MaxVer /\ sValue' = [sValue EXCEPT ![x] = sValue[x] + 1]
      /\ UNCHANGED <<sLevel, sSize, sList, sKey>>
  BY <1>1 DEF Skip!Replace
<1>3. x \in InList
  <2>1. IsBound(x, k)
    BY <1>1, ReachedIs
  <2>2. x # Header
    BY <1>2, SkipSizes DEF SkipOK, CellsOK
  <2>. QED
    BY <2>1, <2>2 DEF IsBound
<1>4. InList' = InList
  BY <1>2 DEF InList
<1>5. \A i : AtLevel(i)' = AtLevel(i) /\ LinksAt(i)' = LinksAt(i)
  BY <1>2, <1>4 DEF AtLevel, LinksAt
<1>6. CellsOK'
  <2>1. /\ sValue \in [SkipNodes -> (1 .. MaxVer) \union {Junk}]
        /\ \A n \in InList : sValue[n] \in 1 .. MaxVer
        /\ InList \subseteq SkipNodes /\ MaxVer \in Nat
    BY SkipSizes DEF SkipOK, CellsOK, InList
  <2>2. sValue[x] + 1 \in 1 .. MaxVer
    BY <1>2, <1>3, <2>1
  <2>3. /\ sValue' \in [SkipNodes -> (1 .. MaxVer) \union {Junk}]
        /\ \A n \in InList : sValue'[n] \in 1 .. MaxVer
    BY <1>2, <1>3, <2>1, <2>2
  <2>. QED
    BY <1>2, <1>4, <2>3 DEF SkipOK, CellsOK
<1>7. \A i \in Skip!Levels : LevelOK(sKey', AtLevel(i)', LinksAt(i)')
  BY <1>2, <1>5 DEF SkipOK
<1>8. SkipOK'
  BY <1>2, <1>4, <1>5, <1>6, <1>7 DEF SkipOK
<1>. QED
  BY <1>2, <1>3, <1>8

\* A key that is not there gets a node from malloc, of any height.
LEMMA InsertNewKeeps ==
    ASSUME SkipOK, NEW k \in SkipKeys, NEW n \in SkipNodes, NEW l \in Skip!Levels,
           Skip!InsertNew(n, k, l)
    PROVE  /\ SkipOK'
           /\ n \notin InList /\ InList' = InList \union {n} /\ \A y \in InList : sKey[y] # k
           /\ sKey' = [sKey EXCEPT ![n] = k] /\ sValue' = [sValue EXCEPT ![n] = 1]
<1>1. PICK p : p = Skip!Path(k)
  OBVIOUS
<1>2. /\ sKey[Skip!Reached(k)] # k /\ n \in Skip!Free /\ sList' = Skip!Linked(n, l, p)
      /\ sKey' = [sKey EXCEPT ![n] = k] /\ sValue' = [sValue EXCEPT ![n] = 1]
      /\ sLevel' = Skip!Higher(l) /\ sSize' = sSize + 1
  BY <1>1 DEF Skip!InsertNew
<1>3. \A i \in Skip!Levels : IsPred(sKey, AtLevel(i), p[i], k)
  BY <1>1, PathIs
<1>4. \A y \in InList : sKey[y] # k
  <2>1. IsBound(Skip!Reached(k), k)
    BY ReachedIs
  <2>. QED
    BY <1>2, <2>1 DEF IsBound
<1>5. n \notin InList /\ sKey[n] = Junk /\ sList[n] = <<>> /\ n # Header /\ k # Junk
  BY <1>2, SkipSizes DEF Skip!Free, InList, SkipOK, CellsOK
<1>6. CellsOK /\ InList \subseteq SkipNodes
  BY DEF SkipOK, InList
<1>7. InList' = InList \union {n}
  BY <1>2, <1>5, <1>6, SkipSizes DEF InList, CellsOK
<1>8. /\ \A c \in Skip!Cells : c # n =>
             sList'[c] = [i \in DOMAIN sList[c] |-> IF i <= l /\ p[i] = c THEN n ELSE sList[c][i]]
      /\ sList'[n] = [i \in 1 .. l |-> sList[p[i]][i]]
      /\ DOMAIN sList' = Skip!Cells
  BY <1>2, SkipSizes DEF Skip!Linked
<1>9. /\ DOMAIN sList'[n] = 1 .. l
      /\ \A c \in Skip!Cells : c # n => DOMAIN sList'[c] = DOMAIN sList[c]
  BY <1>8
<1>10. CellsOK'
  <2>1. /\ sKey'[n] = k /\ sValue'[n] = 1
        /\ \A c \in Skip!Cells : c # n => sKey'[c] = sKey[c]
        /\ \A c \in SkipNodes : c # n => sValue'[c] = sValue[c]
        /\ DOMAIN sKey' = Skip!Cells
        /\ sValue' \in [SkipNodes -> (1 .. MaxVer) \union {Junk}]
    BY <1>2, <1>6, SkipSizes DEF CellsOK
  <2>2. l \in 0 .. MAX_L - 1 /\ l # 0 /\ 1 \in 1 .. MaxVer
    BY SkipSizes
  <2>3. sKey'[Header] = Skip!KeyMax /\ DOMAIN sList'[Header] = Skip!Levels
    BY <1>5, <1>6, <1>9, <2>1, SkipSizes DEF CellsOK
  <2>4. \A c \in SkipNodes : sKey'[c] \in SkipKeys \union {Junk}
    BY <1>6, <2>1, SkipSizes DEF CellsOK
  <2>5. ASSUME NEW c \in SkipNodes
        PROVE  \E h \in 0 .. MAX_L - 1 : DOMAIN sList'[c] = 1 .. h /\ (h = 0 <=> sKey'[c] = Junk)
    <3>1. CASE c = n
      BY <1>5, <1>9, <2>1, <2>2, <3>1
    <3>2. CASE c # n
      BY <1>6, <1>9, <2>1, <3>2, SkipSizes DEF CellsOK
    <3>. QED
      BY <3>1, <3>2
  <2>6. ASSUME NEW c \in SkipNodes, sKey'[c] = Junk PROVE sList'[c] = <<>>
    <3>1. c # n /\ c \in Skip!Cells
      BY <1>5, <2>1, <2>6, SkipSizes
    <3>2. sList[c] = <<>>
      BY <1>6, <2>1, <2>6, <3>1 DEF CellsOK
    <3>3. sList'[c] = [i \in {} |-> IF i <= l /\ p[i] = c THEN n ELSE sList[c][i]]
      BY <1>8, <3>1, <3>2
    <3>. QED
      BY <3>3
  <2>7. \A c \in InList' : sValue'[c] \in 1 .. MaxVer
    BY <1>6, <1>7, <2>1, <2>2 DEF CellsOK
  <2>. QED
    BY <1>8, <2>1, <2>3, <2>4, <2>5, <2>6, <2>7 DEF CellsOK
<1>11. ASSUME NEW i \in Skip!Levels
       PROVE  AtLevel(i)' = AtLevel(i) \union (IF i <= l THEN {n} ELSE {})
  <2>1. \A c \in InList : i \in DOMAIN sList'[c] <=> i \in DOMAIN sList[c]
    BY <1>5, <1>6, <1>9, SkipSizes
  <2>2. i \in DOMAIN sList'[n] <=> i <= l
    BY <1>9, SkipSizes
  <2>. QED
    BY <1>7, <2>1, <2>2 DEF AtLevel
<1>12. ASSUME NEW i \in Skip!Levels PROVE LevelOK(sKey', AtLevel(i)', LinksAt(i)')
  <2>1. PICK K, S, f, q, K2, f2 : /\ K = sKey /\ S = AtLevel(i) /\ f = LinksAt(i) /\ q = p[i]
                                  /\ K2 = sKey' /\ f2 = LinksAt(i)'
    OBVIOUS
  <2>2. /\ LevelOK(K, S, f) /\ IsPred(K, S, q, k) /\ k \in Nat
        /\ S \subseteq InList /\ n \notin S /\ n # Header /\ \A y \in S : K[y] # k
    BY <1>3, <1>4, <1>5, <2>1, SkipSizes DEF SkipOK, AtLevel
  <2>3. K2[n] = k /\ \A y \in S : K2[y] = K[y]
    BY <1>2, <1>6, <2>1, <2>2, SkipSizes DEF CellsOK
  <2>4. /\ \A c \in S \union {Header} : i \in DOMAIN sList[c] /\ c \in Skip!Cells /\ c # n
        /\ \A c \in S \union {Header} : f[c] = sList[c][i]
        /\ q \in S \union {Header}
    BY <1>5, <1>6, <2>1, <2>2, SkipSizes DEF AtLevel, LinksAt, CellsOK, IsPred
  <2>5. ASSUME NEW c \in S \union {Header}
        PROVE  f2[c] = IF i <= l /\ q = c THEN n ELSE f[c]
    <3>1. sList'[c][i] = IF i <= l /\ q = c THEN n ELSE f[c]
      BY <1>8, <2>1, <2>4
    <3>2. c \in AtLevel(i)' \union {Header}
      BY <1>11, <2>1
    <3>. QED
      BY <2>1, <3>1, <3>2 DEF LinksAt
  <2>6. CASE i <= l
    <3>1. f2[n] = f[q]
      <4>1. sList'[n][i] = sList[q][i]
        BY <1>8, <2>1, <2>6, SkipSizes
      <4>2. n \in AtLevel(i)' \union {Header}
        BY <1>11, <2>6
      <4>. QED
        BY <2>1, <2>4, <4>1, <4>2 DEF LinksAt
    <3>2. f2[q] = n /\ \A c \in S \union {Header} : c # q => f2[c] = f[c]
      BY <2>4, <2>5, <2>6
    <3>3. LevelOK(K2, S \union {n}, f2)
      BY <2>2, <2>3, <3>1, <3>2, LevelTakes
    <3>. QED
      BY <1>11, <2>1, <2>6, <3>3
  <2>7. CASE ~ (i <= l)
    <3>1. LevelOK(K2, S, f2)
      BY <2>2, <2>3, <2>5, <2>7, LevelStays
    <3>. QED
      BY <1>11, <2>1, <2>7, <3>1
  <2>. QED
    BY <2>6, <2>7
<1>13. /\ sLevel \in 0 .. MAX_L - 1 /\ sLevel' = (IF l > sLevel THEN l ELSE sLevel)
       /\ l \in 1 .. MAX_L - 1 /\ MAX_L \in Nat
  BY <1>2, SkipSizes DEF SkipOK, Skip!Higher
<1>14. \A i \in Skip!Levels : i > sLevel' => AtLevel(i)' = {}
  BY <1>11, <1>13, SkipSizes DEF SkipOK
<1>15. \A i \in Skip!Levels : i \in 2 .. sLevel' => AtLevel(i)' # {}
  <2>1. SUFFICES ASSUME NEW i \in Skip!Levels, i \in 2 .. sLevel' PROVE AtLevel(i)' # {}
    OBVIOUS
  <2>2. i <= l \/ i \in 2 .. sLevel
    BY <1>13, <2>1, SkipSizes
  <2>3. i \in 2 .. sLevel => AtLevel(i) # {}
    BY DEF SkipOK
  <2>. QED
    BY <1>11, <2>2, <2>3
<1>16. sSize' = Cardinality(InList') /\ sLevel' \in 0 .. MAX_L - 1
  <2>1. IsFiniteSet(InList)
    BY <1>6, SkipSizes, FS_Subset
  <2>2. Cardinality(InList \union {n}) = Cardinality(InList) + 1
    BY <1>5, <2>1, FS_AddElement
  <2>. QED
    BY <1>2, <1>7, <1>13, <2>2 DEF SkipOK
<1>17. SkipOK'
  BY <1>10, <1>12, <1>14, <1>15, <1>16 DEF SkipOK
<1>. QED
  BY <1>2, <1>4, <1>5, <1>7, <1>17

\* The levels on which x is alone are the highest of the list.
LEMMA LevelsOff ==
    ASSUME SkipOK, NEW x \in InList
    PROVE  \E h \in 0 .. sLevel :
               {i \in Skip!Levels : AtLevel(i) = {x}} = h + 1 .. sLevel
<1> DEFINE A == {i \in Skip!Levels : AtLevel(i) = {x}}
<1>1. /\ sLevel \in 0 .. MAX_L - 1 /\ MAX_L \in Nat \ {0, 1} /\ Skip!Levels = 1 .. MAX_L - 1
  BY SkipSizes DEF SkipOK
<1>2. \A i \in A : i \in 1 .. sLevel
  BY <1>1 DEF SkipOK
<1>3. ASSUME NEW i \in A, NEW j \in i .. sLevel PROVE j \in A
  <2>1. j \in Skip!Levels /\ i \in Skip!Levels /\ i <= j /\ (j = i \/ j \in 2 .. sLevel)
    BY <1>1, <1>2
  <2>2. AtLevel(j) \subseteq AtLevel(i)
    BY <2>1, LevelFacts
  <2>3. j # i => AtLevel(j) # {}
    BY <2>1 DEF SkipOK
  <2>. QED
    BY <2>1, <2>2, <2>3
<1>4. CASE A = {}
  <2>1. sLevel \in 0 .. sLevel /\ sLevel + 1 .. sLevel = {}
    BY <1>1
  <2>. QED
    BY <1>4, <2>1
<1>5. CASE A # {}
  <2>1. A \subseteq Nat
    BY <1>1
  <2>2. PICK m \in A : \A i \in A : m <= i
    <3>. HIDE DEF A
    <3>. QED
      BY <1>5, <2>1, LeastNatural
  <2>3. PICK h : h = m - 1
    OBVIOUS
  <2>4. h \in 0 .. sLevel /\ h + 1 = m
    BY <1>1, <1>2, <2>2, <2>3
  <2>5. A = m .. sLevel
    <3>. HIDE DEF A
    <3>1. ASSUME NEW j \in A PROVE j \in m .. sLevel
      BY <1>1, <1>2, <2>1, <2>2
    <3>2. ASSUME NEW j \in m .. sLevel PROVE j \in A
      BY <1>3, <2>2
    <3>. QED
      BY <3>1, <3>2
  <2>. QED
    BY <2>4, <2>5
<1>. QED
  BY <1>4, <1>5

LEMMA DeleteKeeps ==
    ASSUME SkipOK, NEW k \in SkipKeys, Skip!skiplist_delete(k)
    PROVE  /\ SkipOK'
           /\ \E x \in InList : /\ sKey[x] = k /\ InList' = InList \ {x}
                                /\ sKey' = [sKey EXCEPT ![x] = Junk]
                                /\ sValue' = [sValue EXCEPT ![x] = Junk]
<1>1. PICK p, x : p = Skip!Path(k) /\ x = Skip!Reached(k)
  OBVIOUS
<1>2. /\ sKey[x] = k /\ sList' = Skip!Unlinked(x, p)
      /\ sLevel' = sLevel - Skip!Cardinality({i \in DOMAIN sList[x] : p[i] = sList[x][i]})
      /\ sKey' = [sKey EXCEPT ![x] = Junk] /\ sValue' = [sValue EXCEPT ![x] = Junk]
      /\ sSize' = sSize - 1
  BY <1>1 DEF Skip!skiplist_delete
<1>3. \A i \in Skip!Levels : IsPred(sKey, AtLevel(i), p[i], k)
  BY <1>1, PathIs
<1>6. CellsOK /\ InList \subseteq SkipNodes
  BY DEF SkipOK, InList
<1>4. x \in InList
  <2>1. IsBound(x, k)
    BY <1>1, ReachedIs
  <2>2. x # Header
    BY <1>2, <1>6, SkipSizes DEF CellsOK
  <2>. QED
    BY <2>1, <2>2 DEF IsBound
<1>5. x \in SkipNodes /\ x # Header /\ x \in Skip!Cells
  BY <1>4, <1>6, SkipSizes
<1>7. InList' = InList \ {x}
  BY <1>2, <1>5, <1>6, SkipSizes DEF InList, CellsOK
<1>8. /\ \A c \in Skip!Cells : c # x =>
             sList'[c] = [i \in DOMAIN sList[c] |->
                             IF i \in DOMAIN sList[x] /\ p[i] = c THEN sList[x][i]
                             ELSE sList[c][i]]
      /\ sList'[x] = <<>> /\ DOMAIN sList' = Skip!Cells
  BY <1>2, <1>5 DEF Skip!Unlinked
<1>9. \A c \in Skip!Cells : c # x => DOMAIN sList'[c] = DOMAIN sList[c]
  BY <1>8
<1>10. CellsOK'
  <2>1. /\ sKey'[x] = Junk /\ sValue'[x] = Junk
        /\ \A c \in Skip!Cells : c # x => sKey'[c] = sKey[c]
        /\ \A c \in SkipNodes : c # x => sValue'[c] = sValue[c]
        /\ DOMAIN sKey' = Skip!Cells
        /\ sValue' \in [SkipNodes -> (1 .. MaxVer) \union {Junk}]
    BY <1>2, <1>5, <1>6, SkipSizes DEF CellsOK
  <2>2. sKey'[Header] = Skip!KeyMax /\ DOMAIN sList'[Header] = Skip!Levels
    BY <1>5, <1>6, <1>9, <2>1, SkipSizes DEF CellsOK
  <2>4. \A c \in SkipNodes : sKey'[c] \in SkipKeys \union {Junk}
    BY <1>6, <2>1, SkipSizes DEF CellsOK
  <2>5. ASSUME NEW c \in SkipNodes
        PROVE  \E h \in 0 .. MAX_L - 1 : DOMAIN sList'[c] = 1 .. h /\ (h = 0 <=> sKey'[c] = Junk)
    <3>1. CASE c = x
      <4>1. 0 \in 0 .. MAX_L - 1 /\ DOMAIN sList'[c] = 1 .. 0
        BY <1>8, <3>1, SkipSizes
      <4>. QED
        BY <2>1, <3>1, <4>1
    <3>2. CASE c # x
      BY <1>6, <1>9, <2>1, <3>2, SkipSizes DEF CellsOK
    <3>. QED
      BY <3>1, <3>2
  <2>6. ASSUME NEW c \in SkipNodes, sKey'[c] = Junk PROVE sList'[c] = <<>>
    <3>1. CASE c = x
      BY <1>8, <3>1
    <3>2. CASE c # x
      <4>1. c \in Skip!Cells /\ sList[c] = <<>>
        BY <1>6, <2>1, <2>6, <3>2, SkipSizes DEF CellsOK
      <4>2. sList'[c] = [i \in {} |-> IF i \in DOMAIN sList[x] /\ p[i] = c THEN sList[x][i]
                                      ELSE sList[c][i]]
        BY <1>8, <3>2, <4>1
      <4>. QED
        BY <4>2
    <3>. QED
      BY <3>1, <3>2
  <2>7. \A c \in InList' : sValue'[c] \in 1 .. MaxVer
    BY <1>6, <1>7, <2>1 DEF CellsOK
  <2>. QED
    BY <1>8, <2>1, <2>2, <2>4, <2>5, <2>6, <2>7 DEF CellsOK
<1>11. ASSUME NEW i \in Skip!Levels PROVE AtLevel(i)' = AtLevel(i) \ {x}
  <2>1. \A c \in InList : c # x => (i \in DOMAIN sList'[c] <=> i \in DOMAIN sList[c])
    BY <1>6, <1>9, SkipSizes
  <2>. QED
    BY <1>7, <2>1 DEF AtLevel
<1>12. ASSUME NEW i \in Skip!Levels
       PROVE  /\ LevelOK(sKey', AtLevel(i)', LinksAt(i)')
              /\ i \in DOMAIN sList[x] => (p[i] = sList[x][i] <=> AtLevel(i) = {x})
  <2>1. PICK K, S, f, q, K2, f2 : /\ K = sKey /\ S = AtLevel(i) /\ f = LinksAt(i) /\ q = p[i]
                                  /\ K2 = sKey' /\ f2 = LinksAt(i)'
    OBVIOUS
  <2>2. /\ LevelOK(K, S, f) /\ IsPred(K, S, q, K[x]) /\ k \in Nat /\ S \subseteq InList
        /\ x \in S <=> i \in DOMAIN sList[x]
    BY <1>2, <1>3, <1>4, <2>1, SkipSizes DEF SkipOK, AtLevel
  <2>3. \A y \in S : y # x => K2[y] = K[y]
    BY <1>2, <1>6, <2>1, <2>2, SkipSizes DEF CellsOK
  <2>4. /\ \A c \in S \union {Header} : i \in DOMAIN sList[c] /\ c \in Skip!Cells
        /\ \A c \in S \union {Header} : f[c] = sList[c][i]
        /\ q \in S \union {Header} /\ q # x
    <3>1. q # Header => K[q] < K[x]
      BY <2>2 DEF IsPred
    <3>2. q \in S \union {Header} /\ q # x
      BY <1>2, <1>5, <2>1, <2>2, <3>1 DEF IsPred
    <3>. QED
      BY <1>6, <2>1, <2>2, <3>2, SkipSizes DEF AtLevel, LinksAt, CellsOK
  <2>5. ASSUME NEW c \in S \union {Header}, c # x
        PROVE  f2[c] = IF i \in DOMAIN sList[x] /\ q = c THEN sList[x][i] ELSE f[c]
    <3>1. sList'[c][i] = IF i \in DOMAIN sList[x] /\ q = c THEN sList[x][i] ELSE f[c]
      BY <1>8, <2>1, <2>4, <2>5
    <3>2. c \in AtLevel(i)' \union {Header}
      BY <1>11, <2>1, <2>5
    <3>. QED
      BY <2>1, <3>1, <3>2 DEF LinksAt
  <2>6. CASE x \in S
    <3>1. f2[q] = f[x] /\ \A c \in S \union {Header} : c # x /\ c # q => f2[c] = f[c]
      BY <2>2, <2>4, <2>5, <2>6
    <3>2. LevelOK(K2, S \ {x}, f2)
      BY <2>2, <2>3, <2>6, <3>1, LevelLoses
    <3>3. q = f[x] <=> S = {x}
      BY <2>2, <2>6, LevelEmpties
    <3>. QED
      BY <1>11, <2>1, <2>4, <2>6, <3>2, <3>3
  <2>7. CASE x \notin S
    <3>1. \A c \in S \union {Header} : f2[c] = f[c]
      BY <1>5, <2>2, <2>5, <2>7
    <3>2. \A y \in S : K2[y] = K[y]
      BY <2>3, <2>7
    <3>3. LevelOK(K2, S, f2)
      BY <2>2, <3>1, <3>2, LevelStays
    <3>4. S \ {x} = S /\ i \notin DOMAIN sList[x]
      BY <2>2, <2>7
    <3>. QED
      BY <1>11, <2>1, <3>3, <3>4
  <2>. QED
    BY <2>6, <2>7
<1>13. PICK h \in 0 .. sLevel : {i \in Skip!Levels : AtLevel(i) = {x}} = h + 1 .. sLevel
  BY <1>4, LevelsOff
<1>14. sLevel \in 0 .. MAX_L - 1 /\ MAX_L \in Nat \ {0, 1} /\ Skip!Levels = 1 .. MAX_L - 1
  BY SkipSizes DEF SkipOK
<1>15. sLevel' = h
  <2>1. DOMAIN sList[x] \subseteq Skip!Levels
    BY <1>5, <1>6, SkipSizes DEF CellsOK
  <2>2. \A i \in Skip!Levels : AtLevel(i) = {x} => i \in DOMAIN sList[x]
    BY DEF AtLevel
  <2>3. {i \in DOMAIN sList[x] : p[i] = sList[x][i]} = h + 1 .. sLevel
    BY <1>12, <1>13, <2>1, <2>2
  <2>4. Cardinality(h + 1 .. sLevel) = sLevel - h
    <3>1. h + 1 \in Int /\ sLevel \in Int
      BY <1>14
    <3>2. Cardinality(h + 1 .. sLevel) = IF h + 1 > sLevel THEN 0 ELSE sLevel - (h + 1) + 1
      BY <3>1, FS_Interval
    <3>. QED
      BY <1>14, <3>2
  <2>5. Skip!Cardinality(h + 1 .. sLevel) = Cardinality(h + 1 .. sLevel)
    BY DEF Skip!Cardinality, Cardinality
  <2>6. sLevel' = sLevel - (sLevel - h)
    BY <1>2, <2>3, <2>4, <2>5
  <2>. QED
    BY <1>14, <2>6
<1>16. ASSUME NEW i \in Skip!Levels, i > sLevel' PROVE AtLevel(i)' = {}
  <2>1. i > sLevel \/ i \in h + 1 .. sLevel
    BY <1>14, <1>15, <1>16
  <2>2. i > sLevel => AtLevel(i) = {}
    BY DEF SkipOK
  <2>3. i \in h + 1 .. sLevel => AtLevel(i) = {x}
    BY <1>13
  <2>. QED
    BY <1>11, <2>1, <2>2, <2>3
<1>17. ASSUME NEW i \in Skip!Levels, i \in 2 .. sLevel' PROVE AtLevel(i)' # {}
  <2>1. i \in 2 .. sLevel /\ i \notin h + 1 .. sLevel
    BY <1>14, <1>15, <1>17
  <2>2. AtLevel(i) # {} /\ AtLevel(i) # {x}
    BY <1>13, <2>1 DEF SkipOK
  <2>. QED
    BY <1>11, <2>2
<1>18. sSize' = Cardinality(InList') /\ sLevel' \in 0 .. MAX_L - 1
  <2>1. IsFiniteSet(InList)
    BY <1>6, SkipSizes, FS_Subset
  <2>2. Cardinality(InList \ {x}) = Cardinality(InList) - 1
    BY <1>4, <2>1, FS_RemoveElement
  <2>. QED
    BY <1>2, <1>7, <1>14, <1>15, <2>2 DEF SkipOK
<1>19. SkipOK'
  BY <1>10, <1>12, <1>16, <1>17, <1>18 DEF SkipOK
<1>. QED
  BY <1>2, <1>4, <1>7, <1>19

\* The level of a cleared list is 0.
LEMMA ClearKeeps ==
    ASSUME SkipOK, Skip!skiplist_clear
    PROVE  SkipOK' /\ InList' = {}
<1>1. /\ sLevel' = 0 /\ sSize' = 0
      /\ sList' = [c \in Skip!Cells |-> IF c = Header THEN [i \in Skip!Levels |-> Header] ELSE <<>>]
      /\ sKey' = [c \in Skip!Cells |-> IF c = Header THEN Skip!KeyMax ELSE Junk]
      /\ sValue' = [n \in SkipNodes |-> Junk]
  BY DEF Skip!skiplist_clear
<1>2. \A n \in SkipNodes : n # Header /\ sList'[n] = <<>> /\ sKey'[n] = Junk
  BY <1>1, SkipSizes
<1>3. InList' = {} /\ \A i \in Skip!Levels : AtLevel(i)' = {}
  BY <1>2 DEF InList, AtLevel
<1>4. /\ sKey'[Header] = Skip!KeyMax /\ sList'[Header] = [i \in Skip!Levels |-> Header]
      /\ 0 \in 0 .. MAX_L - 1
  BY <1>1, SkipSizes
<1>5. CellsOK'
  BY <1>1, <1>2, <1>3, <1>4, SkipSizes DEF CellsOK
<1>6. ASSUME NEW i \in Skip!Levels PROVE LevelOK(sKey', AtLevel(i)', LinksAt(i)')
  <2>1. LinksAt(i)'[Header] = Header
    BY <1>4 DEF LinksAt
  <2>. QED
    BY <1>3, <1>6, <2>1 DEF LevelOK, LeadsTo
<1>7. Cardinality({}) = 0
  BY FS_EmptySet
<1>8. sSize' = Cardinality(InList') /\ sLevel' \in 0 .. MAX_L - 1 /\ 2 .. sLevel' = {}
  BY <1>1, <1>3, <1>7, SkipSizes
<1>. QED
  BY <1>3, <1>5, <1>6, <1>8 DEF SkipOK

LEMMA SkipKeeps == SkipOK /\ Skip!Next => SkipOK'
<1>. SUFFICES ASSUME SkipOK, Skip!Next PROVE SkipOK'
  OBVIOUS
<1>1. ASSUME NEW k \in SkipKeys, Skip!Replace(k) PROVE SkipOK'
  BY <1>1, ReplaceKeeps
<1>2. ASSUME NEW k \in SkipKeys, NEW n \in SkipNodes, NEW l \in Skip!Levels, Skip!InsertNew(n, k, l)
      PROVE  SkipOK'
  BY <1>2, InsertNewKeeps
<1>3. ASSUME NEW k \in SkipKeys, Skip!skiplist_delete(k) PROVE SkipOK'
  BY <1>3, DeleteKeeps
<1>4. CASE Skip!skiplist_clear
  BY <1>4, ClearKeeps
<1>. QED
  BY <1>1, <1>2, <1>3, <1>4 DEF Skip!Next, Skip!skiplist_insert

\* The skiplist's invariant is one of all behaviours.
LEMMA SkipAlways == Spec => []SkipOK
<1>1. Init => SkipOK
  BY SkipStart DEF Init
<1>2. SkipOK /\ [Next]_vars => SkipOK'
  BY SkipKeeps, SkipStays DEF Next, vars
<1>. QED
  BY <1>1, <1>2, PTL DEF Spec

\* What the invariant says of the links and of the searches.
LEMMA SkipTells ==
    ASSUME SkipOK
    PROVE  Skip!TypeOK /\ Skip!LevelsSorted /\ Skip!SearchFinds
<1>0. CellsOK /\ InList \subseteq SkipNodes
  BY DEF SkipOK, InList
<1>1. InList = SkipNodes \ Skip!Free
  BY DEF InList, Skip!Free
<1>2. Skip!Cardinality(SkipNodes) = Cardinality(SkipNodes)
      /\ Skip!Cardinality(SkipNodes \ Skip!Free) = Cardinality(InList)
  BY <1>1 DEF Skip!Cardinality, Cardinality
<1>3. Skip!TypeOK
  <2>1. sSize \in 0 .. Cardinality(SkipNodes)
    <3>1. /\ Cardinality(InList) \in Nat /\ Cardinality(SkipNodes) \in Nat
          /\ Cardinality(InList) <= Cardinality(SkipNodes)
      BY <1>0, SkipSizes, FS_Subset, FS_CardinalityType
    <3>. QED
      BY <3>1 DEF SkipOK
  <2>2. ASSUME NEW c \in Skip!Cells PROVE DOMAIN sList[c] \in {1 .. l : l \in 0 .. MAX_L - 1}
    <3>1. \E l \in 0 .. MAX_L - 1 : DOMAIN sList[c] = 1 .. l
      <4>1. CASE c = Header
        BY <1>0, <4>1, SkipSizes DEF CellsOK
      <4>2. CASE c # Header
        BY <1>0, <4>2, SkipSizes DEF CellsOK
      <4>. QED
        BY <4>1, <4>2
    <3>. QED
      BY <3>1
  <2>3. ASSUME NEW c \in Skip!Cells, NEW i \in DOMAIN sList[c] PROVE sList[c][i] \in Skip!Cells
    <3>1. i \in Skip!Levels
      BY <2>2, SkipSizes
    <3>2. c \in AtLevel(i) \union {Header} /\ AtLevel(i) \subseteq SkipNodes
      BY <1>0, <3>1, LevelFacts
    <3>3. LeadsTo(sKey, AtLevel(i), c, LinksAt(i)[c]) /\ LinksAt(i)[c] = sList[c][i]
      BY <3>1, <3>2, LevelFacts DEF SkipOK, LevelOK
    <3>. QED
      BY <3>2, <3>3, SkipSizes DEF LeadsTo
  <2>4. sLevel \in 0 .. MAX_L - 1 /\ sValue \in [SkipNodes -> (1 .. MaxVer) \union {Junk}]
    BY <1>0 DEF SkipOK, CellsOK
  <2>. QED
    BY <1>2, <2>1, <2>2, <2>3, <2>4 DEF Skip!TypeOK
<1>4. ASSUME NEW i \in Skip!Levels
      PROVE  /\ {Skip!Iterated(i)[a] : a \in DOMAIN Skip!Iterated(i)} =
                    {n \in SkipNodes \ Skip!Free : i \in DOMAIN sList[n]}
             /\ \A a, b \in DOMAIN Skip!Iterated(i) :
                   a < b => sKey[Skip!Iterated(i)[a]] < sKey[Skip!Iterated(i)[b]]
             /\ sList[IF Skip!Iterated(i) = <<>> THEN Header
                      ELSE Skip!Iterated(i)[Len(Skip!Iterated(i))]][i] = Header
             /\ i > sLevel => sList[Header][i] = Header
             /\ i \in 2 .. sLevel => sList[Header][i] # Header
  <2>1. PICK w : w = Skip!Iterated(i)
    OBVIOUS
  <2>2. /\ w \in Seq(AtLevel(i)) /\ \A a, b \in 1 .. Len(w) : a < b => sKey[w[a]] < sKey[w[b]]
        /\ \A y \in AtLevel(i) : \E a \in 1 .. Len(w) : y = w[a]
        /\ GoesTo(w, i) = Header
    BY <2>1, IteratedIs DEF InOrder, IsFront
  <2>3. DOMAIN w = 1 .. Len(w) /\ \A a \in DOMAIN w : w[a] \in AtLevel(i)
    BY <2>2
  <2>4. {w[a] : a \in DOMAIN w} = AtLevel(i)
    BY <2>2, <2>3
  <2>5. sList[IF w = <<>> THEN Header ELSE w[Len(w)]][i] = Header
    BY <2>2 DEF GoesTo
  <2>6. LeadsTo(sKey, AtLevel(i), Header, sList[Header][i])
    BY LevelFacts DEF SkipOK, LevelOK
  <2>7. Header \notin AtLevel(i)
    BY DEF SkipOK, LevelOK
  <2>8. i > sLevel => sList[Header][i] = Header
    BY <2>6 DEF SkipOK, LeadsTo
  <2>9. i \in 2 .. sLevel => sList[Header][i] # Header
    BY <2>6 DEF SkipOK, LeadsTo, Below
  <2>. QED
    BY <1>1, <2>1, <2>2, <2>3, <2>4, <2>5, <2>8, <2>9 DEF AtLevel
<1>5. Skip!LevelsSorted
  <2>1. sSize = Skip!Cardinality(SkipNodes \ Skip!Free)
    BY <1>2 DEF SkipOK
  <2>. QED
    BY <1>4, <2>1 DEF Skip!LevelsSorted
<1>6. ASSUME sSize > 0, NEW k \in SkipKeys
      PROVE  LET found == Skip!skiplist_find(k)
                 bound == Skip!skiplist_find_lowerbound(k)
             IN  /\ \A n \in SkipNodes \ Skip!Free : sKey[n] = k => found = n
                 /\ found # Junk => sKey[found] = k
                 /\ sKey[bound] >= k
                 /\ \A n \in SkipNodes \ Skip!Free : sKey[n] >= k => sKey[bound] <= sKey[n]
  <2>1. PICK r : r = Skip!Reached(k)
    OBVIOUS
  <2>2. /\ r \in InList \union {Header} /\ (r # Header => k <= sKey[r])
        /\ \A y \in InList : k <= sKey[y] => r # Header /\ sKey[r] <= sKey[y]
        /\ \A y \in InList : sKey[y] = k => r = y
    BY <2>1, ReachedIs DEF IsBound
  <2>3. sSize # 0 /\ sSize \in Nat
    <3>1. Cardinality(InList) \in Nat
      BY <1>0, SkipSizes, FS_Subset, FS_CardinalityType
    <3>. QED
      BY <1>6, <3>1 DEF SkipOK
  <2>4. /\ Skip!skiplist_find_lowerbound(k) = r
        /\ Skip!skiplist_find(k) = IF sKey[r] = k THEN r ELSE Junk
    BY <2>1, <2>3 DEF Skip!skiplist_find_lowerbound, Skip!skiplist_find
  <2>5. /\ k \in Nat /\ sKey[Header] \in Nat /\ k < sKey[Header]
        /\ \A n \in InList : sKey[n] \in Nat
    BY <1>0, SkipSizes DEF CellsOK, InList
  <2>6. sKey[r] >= k /\ \A n \in InList : sKey[n] >= k => sKey[r] <= sKey[n]
    BY <2>2, <2>5
  <2>. QED
    BY <1>1, <2>2, <2>4, <2>6
<1>7. Skip!SearchFinds
  BY <1>6 DEF Skip!SearchFinds
<1>. QED
  BY <1>3, <1>5, <1>7

-----------------------------------------------------------------------------
(* The map that the skiplist is. *)

\* The map and the order of its keys that the list stands for.
KeysNow == {sKey[n] : n \in SkipNodes \ Skip!Free}
MapNow == [k \in KeysNow |-> sValue[CHOOSE n \in SkipNodes \ Skip!Free : sKey[n] = k]]
OrderNow == [i \in DOMAIN Skip!Iterated(1) |-> sKey[Skip!Iterated(1)[i]]]

\* Each node gives its key the value it holds, and the keys are in order.
MapTells ==
    /\ SkipNodes \ Skip!Free = InList
    /\ \A n \in InList : MapNow[sKey[n]] = sValue[n]
    /\ \A m, n \in InList : sKey[m] = sKey[n] => m = n
    /\ OrderNow \in [1 .. Cardinality(KeysNow) -> KeysNow]
    /\ \A i, j \in DOMAIN OrderNow : i < j => OrderNow[i] < OrderNow[j]
    /\ KeysNow = {} => OrderNow = <<>>

LEMMA MapFacts == SkipOK => MapTells
<1>. SUFFICES ASSUME SkipOK PROVE MapTells
  OBVIOUS
<1>1. InList = SkipNodes \ Skip!Free /\ 1 \in Skip!Levels
  BY SkipSizes DEF InList, Skip!Free
<1>2. LevelOK(sKey, InList, LinksAt(1)) /\ AtLevel(1) = InList
  <2>1. AtLevel(1) = InList
    BY <1>1, LevelFacts
  <2>2. LevelOK(sKey, AtLevel(1), LinksAt(1))
    BY <1>1 DEF SkipOK
  <2>. QED
    BY <2>1, <2>2
<1>3. \A m, n \in InList : sKey[m] = sKey[n] => m = n
  BY <1>2 DEF LevelOK
<1>4. ASSUME NEW n \in InList PROVE MapNow[sKey[n]] = sValue[n]
  <2>1. PICK m : m = CHOOSE y \in SkipNodes \ Skip!Free : sKey[y] = sKey[n]
    OBVIOUS
  <2>2. m \in InList /\ sKey[m] = sKey[n]
    BY <1>1, <2>1
  <2>3. m = n
    BY <1>3, <2>2
  <2>4. sKey[n] \in KeysNow
    BY <1>1 DEF KeysNow
  <2>. QED
    BY <2>1, <2>3, <2>4 DEF MapNow
<1>5. PICK w, n : w = Skip!Iterated(1) /\ n = Len(w)
  OBVIOUS
<1>6. /\ w \in Seq(InList) /\ \A a, b \in 1 .. n : a < b => sKey[w[a]] < sKey[w[b]]
      /\ \A y \in InList : \E a \in 1 .. n : y = w[a]
  BY <1>1, <1>2, <1>5, IteratedIs DEF InOrder, IsFront
<1>7. n \in Nat /\ DOMAIN w = 1 .. n /\ \A a \in 1 .. n : w[a] \in InList
  BY <1>5, <1>6
<1>8. OrderNow = [a \in 1 .. n |-> sKey[w[a]]]
  BY <1>5, <1>7 DEF OrderNow
<1>9. PICK C : C = [a \in 1 .. n |-> sKey[w[a]]]
  OBVIOUS
<1>10. KeysNow = {C[a] : a \in 1 .. n}
  <2>1. ASSUME NEW y \in InList PROVE \E a \in 1 .. n : sKey[y] = C[a]
    BY <1>6, <1>9
  <2>2. KeysNow = {sKey[y] : y \in InList}
    BY <1>1 DEF KeysNow
  <2>3. ASSUME NEW a \in 1 .. n PROVE C[a] \in {sKey[y] : y \in InList}
    BY <1>7, <1>9
  <2>. QED
    BY <2>1, <2>2, <2>3
<1>11. C \in [1 .. n -> KeysNow]
  BY <1>9, <1>10
<1>12. \A a, b \in 1 .. n : a < b => C[a] < C[b]
  BY <1>6, <1>9
<1>13. Cardinality(KeysNow) = n
  <2>1. \A a \in 1 .. n : C[a] \in Nat
    BY <1>2, <1>7, <1>9 DEF LevelOK
  <2>2. \A a, b \in 1 .. n : C[a] = C[b] => a = b
    BY <1>7, <1>12, <2>1
  <2>3. IsFiniteSet(KeysNow)
    <3>1. IsFiniteSet(InList)
      BY <1>1, LevelFacts
    <3>2. PICK f : f = [y \in InList |-> sKey[y]]
      OBVIOUS
    <3>3. DOMAIN f = InList /\ KeysNow = {f[y] : y \in InList}
      BY <1>1, <3>2 DEF KeysNow
    <3>. QED
      BY <3>1, <3>3, FiniteImage
  <2>4. PICK S : S = KeysNow
    OBVIOUS
  <2>5. Cardinality({C[a] : a \in 1 .. n}) = n
    <3>1. C \in [1 .. n -> S] /\ IsFiniteSet(S)
      BY <1>11, <2>3, <2>4
    <3>. QED
      BY <1>7, <2>2, <3>1, HowMany
  <2>. QED
    BY <1>10, <2>5
<1>14. KeysNow = {} => OrderNow = <<>>
  <2>1. SUFFICES ASSUME KeysNow = {} PROVE OrderNow = <<>>
    OBVIOUS
  <2>2. n = 0
    <3>1. n # 0 => C[1] \in KeysNow
      BY <1>7, <1>10
    <3>. QED
      BY <2>1, <3>1
  <2>3. w = <<>>
    BY <1>5, <1>6, <2>2
  <2>. QED
    BY <1>8, <2>2
<1>15. \A i, j \in DOMAIN OrderNow : i < j => OrderNow[i] < OrderNow[j]
  BY <1>8, <1>9, <1>12
<1>16. OrderNow \in [1 .. Cardinality(KeysNow) -> KeysNow]
  BY <1>8, <1>9, <1>11, <1>13
<1>. QED
  BY <1>1, <1>3, <1>4, <1>14, <1>15, <1>16 DEF MapTells

LEMMA SkipStep ==
    ASSUME SkipOK, Skip!Next
    PROVE  Skip!Abstract!Next
<1>0. SkipOK' /\ MapTells /\ MapTells'
  <2>1. MapTells'
    BY MapFacts, SkipKeeps, PTL
  <2>. QED
    BY <2>1, SkipKeeps, MapFacts
<1>1. PICK m, m2, Q, Q2 : m = MapNow /\ m2 = MapNow' /\ Q = KeysNow /\ Q2 = KeysNow'
  OBVIOUS
<1>2. /\ DOMAIN m = Q /\ DOMAIN m2 = Q2 /\ m = [k \in Q |-> m[k]] /\ m2 = [k \in Q2 |-> m2[k]]
      /\ Q = {sKey[n] : n \in InList} /\ Q2 = {sKey'[n] : n \in InList'}
      /\ \A n \in InList : m[sKey[n]] = sValue[n]
      /\ \A n \in InList' : m2[sKey'[n]] = sValue'[n]
      /\ \A x, y \in InList : sKey[x] = sKey[y] => x = y
  BY <1>0, <1>1 DEF MapTells, MapNow, KeysNow
<1>3. Skip!Abstract!Sorted
  BY <1>0 DEF Skip!Abstract!Sorted, Skip!Abstract!Lists, MapTells, MapNow, OrderNow, KeysNow,
              Skip!Abstract!Cardinality, Cardinality
<1>4. /\ CellsOK /\ InList \subseteq SkipNodes /\ DOMAIN sValue = SkipNodes
      /\ InList \subseteq Skip!Cells /\ DOMAIN sKey = Skip!Cells
  BY SkipSizes DEF SkipOK, CellsOK, InList
<1>5. ASSUME NEW k \in SkipKeys,
             m2 = [j \in Q \union {k} |->
                      IF j # k THEN m[j] ELSE IF k \in Q THEN m[k] + 1 ELSE 1]
      PROVE  Skip!Abstract!Insert(k)
  <2>1. MapNow' = [j \in DOMAIN MapNow \union {k} |->
                      IF j # k THEN MapNow[j]
                      ELSE IF k \in DOMAIN MapNow THEN MapNow[k] + 1 ELSE 1]
    BY <1>1, <1>2, <1>5
  <2>. QED
    BY <1>3, <2>1, Zenon DEF Skip!Abstract!Insert, MapNow, KeysNow
<1>6. ASSUME NEW k \in SkipKeys, Skip!Replace(k) PROVE Skip!Abstract!Insert(k)
  <2>1. PICK x \in InList : sKey[x] = k /\ sValue' = [sValue EXCEPT ![x] = sValue[x] + 1]
    BY <1>6, ReplaceKeeps
  <2>2. sKey' = sKey /\ InList' = InList
    BY <1>6, ReplaceKeeps DEF InList
  <2>3. Q2 = Q /\ Q \union {k} = Q /\ k \in Q
    BY <1>2, <2>1, <2>2
  <2>4. ASSUME NEW j \in Q PROVE m2[j] = IF j # k THEN m[j] ELSE m[k] + 1
    <3>1. PICK n \in InList : j = sKey[n]
      BY <1>2
    <3>2. m2[j] = sValue'[n] /\ m[j] = sValue[n] /\ n \in DOMAIN sValue
      BY <1>2, <1>4, <2>2, <3>1
    <3>3. j = k <=> n = x
      BY <1>2, <2>1, <3>1
    <3>. QED
      BY <2>1, <3>1, <3>2, <3>3
  <2>5. m2 = [j \in Q \union {k} |->
                 IF j # k THEN m[j] ELSE IF k \in Q THEN m[k] + 1 ELSE 1]
    BY <1>2, <2>3, <2>4
  <2>. QED
    BY <1>5, <2>5
<1>7. ASSUME NEW k \in SkipKeys, NEW n \in SkipNodes, NEW l \in Skip!Levels,
             Skip!InsertNew(n, k, l)
      PROVE  Skip!Abstract!Insert(k)
  <2>1. /\ n \notin InList /\ InList' = InList \union {n} /\ \A y \in InList : sKey[y] # k
        /\ sKey' = [sKey EXCEPT ![n] = k] /\ sValue' = [sValue EXCEPT ![n] = 1]
    BY <1>7, InsertNewKeeps
  <2>2. /\ sKey'[n] = k /\ sValue'[n] = 1
        /\ \A y \in InList : sKey'[y] = sKey[y] /\ sValue'[y] = sValue[y]
    BY <1>4, <2>1, SkipSizes
  <2>3. k \notin Q /\ Q2 = Q \union {k}
    <3>1. k \notin Q
      BY <1>2, <2>1
    <3>2. ASSUME NEW y \in InList' PROVE sKey'[y] \in Q \union {k}
      BY <1>2, <2>1, <2>2
    <3>3. ASSUME NEW j \in Q \union {k} PROVE j \in Q2
      BY <1>2, <2>1, <2>2
    <3>. QED
      BY <1>2, <3>1, <3>2, <3>3
  <2>4. m2[k] = 1
    BY <1>2, <2>1, <2>2
  <2>5. ASSUME NEW j \in Q PROVE m2[j] = m[j]
    <3>1. PICK y \in InList : j = sKey[y]
      BY <1>2
    <3>. QED
      BY <1>2, <2>1, <2>2, <3>1
  <2>6. m2 = [j \in Q \union {k} |->
                 IF j # k THEN m[j] ELSE IF k \in Q THEN m[k] + 1 ELSE 1]
    BY <1>2, <2>3, <2>4, <2>5
  <2>. QED
    BY <1>5, <2>6
<1>8. ASSUME NEW k \in SkipKeys, Skip!skiplist_delete(k) PROVE Skip!Abstract!Delete(k)
  <2>1. PICK x \in InList : /\ sKey[x] = k /\ InList' = InList \ {x}
                            /\ sKey' = [sKey EXCEPT ![x] = Junk]
                            /\ sValue' = [sValue EXCEPT ![x] = Junk]
    BY <1>8, DeleteKeeps
  <2>2. \A y \in InList' : /\ y \in InList /\ y # x
                           /\ sKey'[y] = sKey[y] /\ sValue'[y] = sValue[y]
    BY <1>4, <2>1
  <2>3. k \in Q /\ Q2 = Q \ {k}
    <3>1. ASSUME NEW y \in InList' PROVE sKey'[y] \in Q \ {k}
      BY <1>2, <2>1, <2>2
    <3>2. ASSUME NEW j \in Q, j # k PROVE j \in Q2
      <4>1. PICK y \in InList : j = sKey[y]
        BY <1>2
      <4>2. y \in InList' /\ sKey'[y] = j
        BY <2>1, <2>2, <3>2, <4>1
      <4>. QED
        BY <1>2, <4>2
    <3>. QED
      BY <1>2, <2>1, <3>1, <3>2
  <2>4. ASSUME NEW j \in Q2 PROVE m2[j] = m[j]
    <3>1. PICK y \in InList' : j = sKey'[y]
      BY <1>2
    <3>. QED
      BY <1>2, <2>2, <3>1
  <2>5. m2 = [j \in Q \ {k} |-> m[j]]
    BY <1>2, <2>3, <2>4
  <2>. QED
    <3>1. /\ k \in DOMAIN MapNow
          /\ MapNow' = [j \in DOMAIN MapNow \ {k} |-> MapNow[j]]
      BY <1>1, <1>2, <2>3, <2>5
    <3>. QED
      BY <1>3, <3>1, Zenon DEF Skip!Abstract!Delete, MapNow, KeysNow
<1>9. CASE Skip!skiplist_clear
  <2>1. InList' = {}
    BY <1>9, ClearKeeps
  <2>2. Q2 = {} /\ m2 = <<>>
    BY <1>2, <2>1
  <2>3. Skip!Abstract!Clear
    BY <1>1, <1>3, <2>2 DEF Skip!Abstract!Clear, MapNow, KeysNow
  <2>. QED
    BY <2>3 DEF Skip!Abstract!Next
<1>. QED
  BY <1>6, <1>7, <1>8, <1>9 DEF Skip!Next, Skip!skiplist_insert, Skip!Abstract!Next

-----------------------------------------------------------------------------
(* The queues of the LUNs. *)

LEMMA OrNothing ==
    ASSUME NEW x \in Int
    PROVE  Clock!Max({x, 0}) = IF x > 0 THEN x ELSE 0
<1>1. PICK m : m = IF x > 0 THEN x ELSE 0
  OBVIOUS
<1>2. m \in {x, 0} /\ \A y \in {x, 0} : m >= y
  BY <1>1
<1>3. \A z \in {x, 0} : (\A y \in {x, 0} : z >= y) => z = m
  BY <1>1
<1>4. Clock!Max({x, 0}) = m
  BY <1>2, <1>3 DEF Clock!Max
<1>. QED
  BY <1>1, <1>4

\* What each LUN still has to do.
WorkNow == [l \in Clock!Luns |-> Clock!Max({cNextLunAvailTime[l] - cNow, 0})]
WorkTells ==
    \A l \in Clock!Luns :
        WorkNow[l] = IF cNextLunAvailTime[l] > cNow THEN cNextLunAvailTime[l] - cNow ELSE 0

LEMMA WorkIs == ClockOK => WorkTells
<1>. SUFFICES ASSUME ClockOK, NEW l \in Clock!Luns
     PROVE  WorkNow[l] = IF cNextLunAvailTime[l] > cNow THEN cNextLunAvailTime[l] - cNow ELSE 0
  BY DEF WorkTells
<1>1. PICK x : x = cNextLunAvailTime[l] - cNow
  OBVIOUS
<1>2. x \in Int /\ (x > 0 <=> cNextLunAvailTime[l] > cNow)
  BY <1>1 DEF ClockOK, Clock!TypeOK
<1>3. WorkNow[l] = Clock!Max({x, 0})
  BY <1>1 DEF WorkNow
<1>. QED
  BY <1>1, <1>2, <1>3, OrNothing

\* Pages on one LUN are as many apart as there are LUNs.
LEMMA ApartOnLun ==
    ASSUME NEW q \in Nat, NEW r \in Nat, Clock!LunOf(q) = Clock!LunOf(r),
           r < q + Clock!tt_luns, q < r + Clock!tt_luns
    PROVE  q = r
<1> PICK c, n, t : c = ClockChs /\ n = ClockLuns /\ t = Clock!tt_luns
  OBVIOUS
<1>1. c \in Nat \ {0} /\ n \in Nat \ {0} /\ t \in Nat \ {0} /\ t = c * n
  BY ClockSizes DEF Clock!tt_luns
<1>2. q % c = r % c /\ (q \div c) % n = (r \div c) % n
  BY ClockLun
<1>3. PICK d, e, x : d = q \div c /\ e = r \div c /\ x = q % c
  OBVIOUS
<1>4. d \in Int /\ e \in Int /\ x \in Int /\ q = c * d + x /\ r = c * e + x
  BY <1>1, <1>2, <1>3, Division
<1>5. PICK a, b, y : a = d \div n /\ b = e \div n /\ y = d % n
  OBVIOUS
<1>6. a \in Int /\ b \in Int /\ y \in Int /\ d = n * a + y /\ e = n * b + y
  <2>1. e % n = y
    BY <1>2, <1>3, <1>5
  <2>2. d % n \in 0 .. n - 1 /\ d \div n \in Int /\ d = n * (d \div n) + (d % n)
    BY <1>1, <1>4, Division
  <2>3. e \div n \in Int /\ e = n * (e \div n) + (e % n)
    BY <1>1, <1>4, Division
  <2>. QED
    BY <1>5, <2>1, <2>2, <2>3
<1>7. PICK i : i = a - b
  OBVIOUS
<1>8. i \in Int /\ d - e = n * i
  BY <1>1, <1>6, <1>7
<1>9. q - r = c * (d - e)
  BY <1>1, <1>4
<1>10. q - r = t * i
  <2>1. c * (n * i) = (c * n) * i
    BY <1>1, <1>8
  <2>. QED
    BY <1>1, <1>8, <1>9, <2>1
<1>11. ~ i > 0
  <2>1. i > 0 => t * i >= t
    BY <1>1, <1>8
  <2>. QED
    BY <1>1, <1>10, <2>1
<1>12. ~ i < 0
  <2>1. i < 0 => t * i <= -t
    <3>1. SUFFICES ASSUME i < 0 PROVE t * i <= -t
      OBVIOUS
    <3>2. PICK j : j = -i - 1
      OBVIOUS
    <3>3. j \in Nat /\ t * i = -(t * j) - t /\ t * j \in Nat
      BY <1>1, <1>8, <3>1, <3>2
    <3>. QED
      BY <1>1, <3>3
  <2>. QED
    BY <1>1, <1>10, <2>1
<1>13. i = 0 /\ t * i = 0
  BY <1>1, <1>8, <1>11, <1>12
<1>. QED
  BY <1>10, <1>13

\* No LUN gets more operations from S than one call may have pages.
FewOnEach(S) ==
    /\ IsFiniteSet(S) /\ \A q \in S : Clock!LunOf(q) \in Clock!Luns
    /\ \A l \in Clock!Luns : Cardinality({q \in S : Clock!LunOf(q) = l}) \in 0 .. MaxRun

LEMMA FewOfRun ==
    ASSUME NEW p \in Clock!Pages, NEW n \in 1 .. MaxRun,
           Clock!Run(p, n) \subseteq Clock!Pages, NEW done \in SUBSET Clock!Run(p, n)
    PROVE  FewOnEach(done)
<1>1. /\ IsFiniteSet(Clock!Run(p, n))
      /\ \A q \in Clock!Run(p, n) : Clock!LunOf(q) \in Clock!Luns
  BY ClockRun
<1>2. Cardinality(Clock!Run(p, n)) = n
  <2>1. p \in Int /\ p + n - 1 \in Int /\ n >= 1 /\ MaxRun \in Nat /\ n \in Nat
    BY ClockSizes DEF Clock!Pages
  <2>2. Cardinality(p .. p + n - 1) = IF p > p + n - 1 THEN 0 ELSE (p + n - 1) - p + 1
    BY <2>1, FS_Interval
  <2>. QED
    BY <2>1, <2>2 DEF Clock!Run
<1>3. ASSUME NEW T \in SUBSET Clock!Run(p, n) PROVE IsFiniteSet(T) /\ Cardinality(T) \in 0 .. MaxRun
  <2>1. IsFiniteSet(T) /\ Cardinality(T) <= n /\ Cardinality(T) \in Nat
    BY <1>1, <1>2, FS_Subset, FS_CardinalityType
  <2>. QED
    BY <2>1, ClockSizes
<1>4. \A l \in Clock!Luns : {q \in done : Clock!LunOf(q) = l} \in SUBSET Clock!Run(p, n)
  OBVIOUS
<1>. QED
  BY <1>1, <1>3, <1>4 DEF FewOnEach

LEMMA FewOfLine ==
    ASSUME NEW p \in Clock!Pages
    PROVE  FewOnEach(Clock!OnePerLun(p))
<1> DEFINE S == Clock!OnePerLun(p)
<1>1. p \in Nat /\ Clock!tt_luns \in Nat \ {0} /\ MaxRun \in Nat \ {0}
      /\ S = p .. p + Clock!tt_luns - 1
  BY ClockSizes DEF Clock!Pages, Clock!OnePerLun, Clock!Run
<1>2. IsFiniteSet(S)
  BY <1>1, FS_Interval
<1>3. ASSUME NEW q \in S PROVE Clock!LunOf(q) \in Clock!Luns
  <2>1. q \in Int
    BY <1>1
  <2>2. q % ClockChs \in 0 .. ClockChs - 1 /\ q \div ClockChs \in Int
    BY <2>1, ClockSizes
  <2>3. (q \div ClockChs) % ClockLuns \in 0 .. ClockLuns - 1
    BY <2>2, ClockSizes
  <2>. QED
    BY <2>2, <2>3, ClockLun DEF Clock!Luns
<1>4. ASSUME NEW l \in Clock!Luns
      PROVE  Cardinality({q \in S : Clock!LunOf(q) = l}) \in 0 .. MaxRun
  <2> DEFINE On == {q \in S : Clock!LunOf(q) = l}
  <2>1. CASE On = {}
    <3>1. Cardinality(On) = 0
      BY <2>1, FS_EmptySet
    <3>. QED
      BY <1>1, <3>1
  <2>2. CASE On # {}
    <3>1. PICK r \in On : TRUE
      BY <2>2
    <3>2. ASSUME NEW q \in On PROVE q = r
      BY <1>1, <3>1, ApartOnLun
    <3>3. On = {r}
      BY <3>1, <3>2
    <3>4. Cardinality(On) = 1
      BY <3>3, FS_Singleton
    <3>. QED
      BY <1>1, <3>4
  <2>. QED
    BY <2>1, <2>2
<1>. QED
  BY <1>2, <1>3, <1>4 DEF FewOnEach

\* The LUNs that S is on get their share of it, and no other.
LEMMA SharesGiven ==
    ASSUME ClockOK, ClockOK', NEW S, FewOnEach(S), NEW c \in Nat,
           cNextLunAvailTime' = Clock!Advance(S, c), cNow' = cNow,
           NEW T, T = {Clock!LunOf(q) : q \in S}
    PROVE  /\ Clock!Queues!Give(T, Clock!Cost(c)) /\ T \subseteq Clock!Luns
           /\ \A l \in T : WorkNow'[l] = cNextLunAvailTime'[l] - cNow
<1>1. /\ cNow \in Nat /\ cNextLunAvailTime \in [Clock!Luns -> Nat] /\ cLatOn \in BOOLEAN
      /\ Clock!Cost(c) \in Nat
  BY DEF ClockOK, Clock!TypeOK, Clock!Cost
<1>2. /\ \A l \in Clock!Luns :
             WorkNow[l] = IF cNextLunAvailTime[l] > cNow THEN cNextLunAvailTime[l] - cNow ELSE 0
      /\ \A l \in Clock!Luns :
             WorkNow'[l] = IF cNextLunAvailTime'[l] > cNow THEN cNextLunAvailTime'[l] - cNow ELSE 0
  <2>1. WorkTells'
    BY WorkIs, PTL
  <2>2. WorkTells
    BY WorkIs
  <2>. QED
    BY <2>1, <2>2 DEF WorkTells
<1>3. T \subseteq Clock!Luns
  BY DEF FewOnEach
<1> DEFINE On(l) == {q \in S : Clock!LunOf(q) = l}
<1>4. ASSUME NEW l \in Clock!Luns
      PROVE  /\ Clock!Cardinality(On(l)) = Cardinality(On(l))
             /\ Cardinality(On(l)) \in 0 .. MaxRun
             /\ Cardinality(On(l)) = 0 <=> l \notin T
  <2>1. IsFiniteSet(On(l)) /\ Cardinality(On(l)) \in 0 .. MaxRun
    BY FS_Subset DEF FewOnEach
  <2>2. Cardinality(On(l)) = 0 <=> On(l) = {}
    BY <2>1, FS_EmptySet
  <2>3. On(l) = {} <=> l \notin T
    OBVIOUS
  <2>. QED
    BY <2>1, <2>2, <2>3 DEF Clock!Cardinality, Cardinality
<1>5. ASSUME NEW l \in Clock!Luns \ T PROVE WorkNow'[l] = WorkNow[l]
  <2>1. cNextLunAvailTime'[l] = cNextLunAvailTime[l]
    BY <1>4 DEF Clock!Advance
  <2>. QED
    BY <1>2, <2>1
<1>6. ASSUME NEW l \in T
      PROVE  /\ WorkNow'[l] = cNextLunAvailTime'[l] - cNow
             /\ \E k \in 1 .. MaxRun : WorkNow'[l] = WorkNow[l] + k * Clock!Cost(c)
  <2>1. PICK k : k = Cardinality(On(l))
    OBVIOUS
  <2>2. k \in 1 .. MaxRun /\ Clock!Cardinality(On(l)) = k /\ l \in Clock!Luns /\ k \in Nat
    <3>1. l \in Clock!Luns
      BY <1>3
    <3>2. k \in 0 .. MaxRun /\ k # 0 /\ Clock!Cardinality(On(l)) = k
      BY <1>4, <2>1, <3>1
    <3>. QED
      BY <3>1, <3>2, ClockSizes
  <2>3. cNextLunAvailTime'[l] = Clock!Max({cNextLunAvailTime[l], cNow}) + k * Clock!Cost(c)
    BY <2>2 DEF Clock!Advance, Clock!ssd_advance_status
  <2>4. PICK a, m, w : /\ a = cNextLunAvailTime[l] /\ m = Clock!Max({a, cNow})
                       /\ w = k * Clock!Cost(c)
    OBVIOUS
  <2>5. a \in Nat /\ m \in Nat /\ a <= m /\ cNow <= m /\ m \in {a, cNow}
    BY <1>1, <2>2, <2>4, ClockMaxTwo
  <2>6. w \in Nat
    BY <1>1, <2>2, <2>4
  <2>7. cNextLunAvailTime'[l] = m + w
    BY <2>3, <2>4
  <2>8. WorkNow'[l] = (m + w) - cNow
    BY <1>1, <1>2, <2>2, <2>5, <2>6, <2>7
  <2>9. WorkNow[l] = m - cNow
    BY <1>1, <1>2, <2>2, <2>4, <2>5
  <2>10. WorkNow'[l] = WorkNow[l] + w
    BY <1>1, <2>5, <2>6, <2>8, <2>9
  <2>. QED
    BY <2>2, <2>4, <2>7, <2>8, <2>10
<1>7. Clock!Queues!Give(T, Clock!Cost(c))
  BY <1>5, <1>6 DEF Clock!Queues!Give, WorkNow
<1>. QED
  BY <1>3, <1>6, <1>7

\* The LUNs T of the pages S are free from avail on, that is in v from now.
TimesAre(S, T, avail, v) ==
    /\ FewOnEach(S) /\ S # {} /\ T = {Clock!LunOf(q) : q \in S}
    /\ avail \in [Clock!Luns -> Nat] /\ cNow \in Nat
    /\ \A q \in S : /\ cNow <= avail[Clock!LunOf(q)]
                    /\ v[Clock!LunOf(q)] = avail[Clock!LunOf(q)] - cNow

\* The greatest of the times told, as a difference or as a maximum.
LEMMA LongestIs ==
    ASSUME NEW S, NEW T, NEW avail, NEW v, NEW w \in Nat, TimesAre(S, T, avail, v)
    PROVE  Clock!Max({w, Clock!Latency(avail, S)}) =
               Clock!Queues!Max({v[l] : l \in T} \union {w})
<1>. USE DEF TimesAre
<1> DEFINE f == [q \in S |-> avail[Clock!LunOf(q)]]
           E == {f[q] : q \in S}
           V == {v[l] : l \in T} \union {w}
<1>1. E = {avail[Clock!LunOf(q)] : q \in S} /\ DOMAIN f = S
  OBVIOUS
<1>2. E \subseteq Nat /\ E # {} /\ \A e \in E : cNow <= e
  BY DEF FewOnEach
<1>3. IsFiniteSet(E)
  <2>. HIDE DEF f
  <2>. QED
    BY <1>1, FiniteImage DEF FewOnEach
<1>4. PICK e : e = Clock!Max(E)
  OBVIOUS
<1>5. e \in E /\ \A x \in E : x <= e
  <2>. HIDE DEF E
  <2>. QED
    BY <1>2, <1>3, <1>4, ClockMax
<1>6. Clock!Latency(avail, S) = e - cNow /\ e - cNow \in Nat
  <2>1. Clock!EndOf(avail, S) = Clock!Max({avail[Clock!LunOf(q)] : q \in S})
    BY Zenon DEF Clock!EndOf
  <2>2. Clock!EndOf(avail, S) = e
    BY <1>1, <1>4, <2>1
  <2>3. e \in Nat /\ cNow <= e
    <3>. HIDE DEF E
    <3>. QED
      BY <1>2, <1>5
  <2>4. Clock!Latency(avail, S) = e - cNow
    BY <2>2, Zenon DEF Clock!Latency
  <2>5. e - cNow \in Nat
    BY <2>3
  <2>. QED
    BY <2>4, <2>5
<1>7. PICK m : m = Clock!Max({w, e - cNow})
  OBVIOUS
<1>8. m \in Nat /\ w <= m /\ e - cNow <= m /\ m \in {w, e - cNow}
  BY <1>6, <1>7, ClockMaxTwo
<1>9. V = {x - cNow : x \in E} \union {w}
  <2>1. ASSUME NEW l \in T PROVE v[l] \in {x - cNow : x \in E}
    <3>1. PICK q \in S : l = Clock!LunOf(q)
      OBVIOUS
    <3>2. v[l] = f[q] - cNow /\ f[q] \in E
      BY <3>1
    <3>. HIDE DEF f, E
    <3>. QED
      BY <3>2
  <2>2. ASSUME NEW x \in E PROVE x - cNow \in {v[l] : l \in T}
    <3>1. PICK q \in S : x = f[q]
      OBVIOUS
    <3>2. x - cNow = v[Clock!LunOf(q)] /\ Clock!LunOf(q) \in T
      BY <3>1
    <3>. QED
      BY <3>2
  <2>. HIDE DEF E
  <2>. QED
    BY <2>1, <2>2
<1>. HIDE DEF E
<1>10. m \in V /\ \A y \in V : m >= y
  <2>1. m \in V
    <3>1. e - cNow \in {x - cNow : x \in E}
      BY <1>5
    <3>2. e - cNow \in V /\ w \in V
      <4>. HIDE DEF V
      <4>. QED
        BY <1>9, <3>1
    <3>. QED
      BY <1>8, <3>2
  <2>2. ASSUME NEW x \in E PROVE m >= x - cNow
    <3>1. x \in Nat /\ e \in Nat /\ x <= e
      BY <1>2, <1>5
    <3>2. m \in Nat /\ e - cNow <= m
      BY <1>8
    <3>. HIDE DEF E
    <3>. QED
      BY <3>1, <3>2
  <2>. QED
    BY <1>8, <1>9, <2>1, <2>2
<1>11. V \subseteq Int
  <2>1. ASSUME NEW x \in E PROVE x - cNow \in Int
    <3>1. x \in Nat /\ cNow \in Nat
      BY <1>2
    <3>. QED
      BY <3>1
  <2>2. {x - cNow : x \in E} \subseteq Int
    BY <2>1
  <2>. HIDE DEF V
  <2>3. ASSUME NEW y \in V PROVE y \in Int
    <3>1. y \in {x - cNow : x \in E} \/ y = w
      BY <1>9
    <3>. QED
      BY <2>2, <3>1
  <2>. QED
    BY <2>3
<1>12. \A z \in V : (\A y \in V : z >= y) => z = m
  <2>. HIDE DEF V
  <2>1. m \in V /\ m \in Int /\ \A z \in V : z \in Int /\ m >= z
    BY <1>10, <1>11
  <2>. QED
    BY <2>1
<1>. HIDE DEF V
<1>13. Clock!Queues!Max(V) = m
  BY <1>10, <1>12 DEF Clock!Queues!Max
<1>. QED
  BY <1>6, <1>7, <1>13 DEF V

\* A call is served, and its answer noted or not, or it is given up.
LEMMA CalledInTurn ==
    ASSUME ClockOK, ClockOK', NEW S, S # {}, FewOnEach(S), NEW done \in SUBSET S, FewOnEach(done),
           NEW c \in {NAND_READ, NAND_WRITE}, Clock!Called(Clock!Advance(done, c), done, S)
    PROVE  Clock!Queues!Next
<1>0. c \in Nat /\ Clock!Cost(c) \in {0, NAND_READ, NAND_WRITE, NAND_ERASE}
  BY ClockSizes DEF Clock!Cost
<1>1. PICK avail, k, T : /\ avail = Clock!Advance(done, c) /\ k = Clock!Cost(c)
                         /\ T = {Clock!LunOf(q) : q \in done}
  OBVIOUS
<1>2. /\ cNextLunAvailTime' = avail /\ cNow' = cNow
      /\ \/ cMaxlat' = Clock!Longer(Clock!Waited[1],
                             IF done = S THEN Clock!Latency(avail, S) ELSE Refused)
         \/ cMaxlat' = cMaxlat
  BY <1>1 DEF Clock!Called
<1>3. /\ Clock!Queues!Give(T, k) /\ T \subseteq Clock!Luns
      /\ \A l \in T : WorkNow'[l] = avail[l] - cNow
  BY <1>0, <1>1, <1>2, SharesGiven
<1>4. k \in {0, NAND_READ, NAND_WRITE, NAND_ERASE}
  BY <1>0, <1>1
<1>5. ASSUME cMaxlat' \in {cMaxlat, Refused} PROVE Clock!Queues!GiveUp
  BY <1>3, <1>4, <1>5 DEF Clock!Queues!GiveUp
<1>6. PICK w : w = Clock!Waited[1]
  OBVIOUS
<1>7. w \in {cMaxlat, 0} /\ w \in Nat \union {Refused} /\ cMaxlat \in Nat \union {Refused}
  BY <1>6 DEF Clock!Waited, ClockOK, Clock!TypeOK
<1>8. CASE ~ (done = S /\ w # Refused) \/ cMaxlat' = cMaxlat
  <2>1. cMaxlat' \in {cMaxlat, Refused}
    BY <1>2, <1>6, <1>8 DEF Clock!Longer
  <2>. QED
    BY <1>5, <2>1 DEF Clock!Queues!Next
<1>9. CASE done = S /\ w # Refused /\ cMaxlat' # cMaxlat
  <2>1. w \in Nat /\ w \in {cMaxlat, 0} \ {Refused} /\ T # {} /\ T \in (SUBSET Clock!Luns) \ {{}}
    <3>1. w \in Nat /\ w \in {cMaxlat, 0} \ {Refused}
      BY <1>7, <1>9
    <3>2. T # {}
      BY <1>1, <1>9
    <3>3. T \in SUBSET Clock!Luns
      BY <1>3
    <3>4. T \in (SUBSET Clock!Luns) \ {{}}
      BY <3>2, <3>3
    <3>. QED
      BY <3>1, <3>2, <3>4, Zenon
  <2>2. avail \in [Clock!Luns -> Nat] /\ cNow \in Nat /\ \A q \in S : cNow <= avail[Clock!LunOf(q)]
    BY <1>0, <1>1, <1>9, AdvanceFacts DEF FewOnEach, ClockOK, Clock!TypeOK
  <2>3. PICK v : v = WorkNow'
    OBVIOUS
  <2>4. \A q \in S : v[Clock!LunOf(q)] = avail[Clock!LunOf(q)] - cNow
    BY <1>1, <1>3, <1>9, <2>3
  <2>5. Clock!Max({w, Clock!Latency(avail, S)}) = Clock!Queues!Max({v[l] : l \in T} \union {w})
    <3>1. FewOnEach(S) /\ S # {} /\ T = {Clock!LunOf(q) : q \in S}
      BY <1>1, <1>9
    <3>2. TimesAre(S, T, avail, v) /\ w \in Nat
      BY <2>1, <2>2, <2>4, <3>1 DEF TimesAre
    <3>. QED
      BY <3>2, LongestIs
  <2>6. Clock!Latency(avail, S) # Refused
    <3>1. Clock!EndOf(avail, S) \in Nat
      BY <1>9, <2>2, EndFacts DEF FewOnEach
    <3>2. Clock!Latency(avail, S) \in Int
      BY <2>2, <3>1 DEF Clock!Latency
    <3>. QED
      BY <3>2, ClockSizes
  <2>7. cMaxlat' = Clock!Max({w, Clock!Latency(avail, S)})
    BY <1>2, <1>6, <1>9, <2>6 DEF Clock!Longer
  <2>8. cMaxlat' = Clock!Queues!Max({WorkNow'[l] : l \in T} \union {w})
    BY <2>3, <2>5, <2>7
  <2>9. Clock!Queues!Serve
    BY <1>3, <1>4, <2>1, <2>8, Zenon DEF Clock!Queues!Serve, WorkNow
  <2>. QED
    BY <2>9 DEF Clock!Queues!Next
<1>. QED
  BY <1>8, <1>9

LEMMA ClockStep ==
    ASSUME ClockOK, Clock!Next
    PROVE  Clock!Queues!Next \/ UNCHANGED <<WorkNow, cMaxlat>>
<1>0. ClockOK'
  BY ClockKeeps
<1>1. CASE \E p \in Clock!Pages, n \in 1 .. MaxRun : Clock!ssd_write_ppa(p, n)
  <2>1. PICK p \in Clock!Pages, n \in 1 .. MaxRun : Clock!ssd_write_ppa(p, n)
    BY <1>1
  <2>2. PICK S, done : /\ S = Clock!Run(p, n)
                       /\ done = Clock!Before(S, {q \in S : ~Clock!NextInLine(p, q)})
    OBVIOUS
  <2>3. S \subseteq Clock!Pages /\ Clock!Called(Clock!Advance(done, NAND_WRITE), done, S)
    BY <2>1, <2>2 DEF Clock!ssd_write_ppa
  <2>4. done \in SUBSET S /\ S # {}
    BY <2>2, <2>3, ClockRun DEF Clock!Before
  <2>5. FewOnEach(S) /\ FewOnEach(done)
    BY <2>2, <2>3, <2>4, FewOfRun
  <2>. QED
    BY <1>0, <2>3, <2>4, <2>5, CalledInTurn
<1>2. CASE \E p \in Clock!Pages, n \in 1 .. MaxRun : Clock!ssd_read_ppa(p, n)
  <2>1. PICK p \in Clock!Pages, n \in 1 .. MaxRun : Clock!ssd_read_ppa(p, n)
    BY <1>2
  <2>2. PICK S, done : /\ S = Clock!Run(p, n)
                       /\ done = Clock!Before(S, {q \in S : ~cPpaState[q]})
    OBVIOUS
  <2>3. S \subseteq Clock!Pages /\ Clock!Called(Clock!Advance(done, NAND_READ), done, S)
    BY <2>1, <2>2 DEF Clock!ssd_read_ppa
  <2>4. done \in SUBSET S /\ S # {}
    BY <2>2, <2>3, ClockRun DEF Clock!Before
  <2>5. FewOnEach(S) /\ FewOnEach(done)
    BY <2>2, <2>3, <2>4, FewOfRun
  <2>. QED
    BY <1>0, <2>3, <2>4, <2>5, CalledInTurn
<1>3. CASE \E p \in Clock!Pages : Clock!ssd_trim_block(p)
  <2>1. PICK p \in Clock!Pages : Clock!ssd_trim_block(p)
    BY <1>3
  <2>2. PICK S, T, k : /\ S = Clock!OnePerLun(p) /\ T = {Clock!LunOf(q) : q \in S}
                       /\ k = Clock!Cost(NAND_ERASE)
    OBVIOUS
  <2>3. /\ cNextLunAvailTime' = Clock!Advance(S, NAND_ERASE) /\ cNow' = cNow
        /\ cMaxlat' = cMaxlat
    BY <2>1, <2>2 DEF Clock!ssd_trim_block
  <2>4. FewOnEach(S) /\ NAND_ERASE \in Nat
    BY <2>2, FewOfLine, ClockSizes
  <2>5. Clock!Queues!Give(T, k) /\ T \subseteq Clock!Luns
    BY <1>0, <2>2, <2>3, <2>4, SharesGiven
  <2>6. k \in {0, NAND_READ, NAND_WRITE, NAND_ERASE}
    BY <2>2 DEF Clock!Cost
  <2>. QED
    BY <2>3, <2>5, <2>6 DEF Clock!Queues!Next, Clock!Queues!GiveUp
<1>4. CASE Clock!toggle_ssd_lat
  BY <1>4 DEF Clock!toggle_ssd_lat, WorkNow
<1>5. CASE Clock!SetEtime
  BY <1>5 DEF Clock!SetEtime, Clock!nand_vars, WorkNow
<1>6. CASE Clock!Tick
  <2>1. cNow' = cNow + 1 /\ UNCHANGED <<cNextLunAvailTime, cMaxlat>>
    BY <1>6 DEF Clock!Tick, Clock!nand_vars
  <2>2. WorkTells /\ WorkTells'
    <3>1. WorkTells'
      BY <1>0, WorkIs, PTL
    <3>. QED
      BY <3>1, WorkIs
  <2>3. cNow \in Nat /\ cNextLunAvailTime \in [Clock!Luns -> Nat]
    BY DEF ClockOK, Clock!TypeOK
  <2>4. ASSUME NEW l \in Clock!Luns
        PROVE  WorkNow'[l] = Clock!Queues!Max({WorkNow[l] - 1, 0})
    <3>1. PICK a : a = cNextLunAvailTime[l]
      OBVIOUS
    <3>2. /\ a \in Nat /\ WorkNow[l] = IF a > cNow THEN a - cNow ELSE 0
          /\ WorkNow'[l] = IF a > cNow + 1 THEN a - (cNow + 1) ELSE 0
      BY <2>1, <2>2, <2>3, <3>1 DEF WorkTells
    <3>3. PICK x : x = WorkNow[l] - 1
      OBVIOUS
    <3>4. x \in Int /\ WorkNow'[l] = IF x > 0 THEN x ELSE 0
      BY <2>3, <3>2, <3>3
    <3>5. Clock!Queues!Max({x, 0}) = Clock!Max({x, 0})
      BY DEF Clock!Queues!Max, Clock!Max
    <3>. QED
      BY <3>3, <3>4, <3>5, OrNothing
  <2>5. WorkNow' = [l \in Clock!Luns |-> WorkNow'[l]]
    BY DEF WorkNow
  <2>6. WorkNow' = [l \in Clock!Luns |-> Clock!Queues!Max({WorkNow[l] - 1, 0})]
    <3>1. PICK v : v = WorkNow'
      OBVIOUS
    <3>2. v = [l \in Clock!Luns |-> v[l]]
      BY <2>5, <3>1
    <3>3. \A l \in Clock!Luns : v[l] = Clock!Queues!Max({WorkNow[l] - 1, 0})
      BY <2>4, <3>1
    <3>. QED
      BY <3>1, <3>2, <3>3
  <2>7. Clock!Queues!Tick
    BY <2>1, <2>6, Zenon DEF Clock!Queues!Tick, WorkNow
  <2>. QED
    BY <2>7 DEF Clock!Queues!Next
<1>. QED
  BY <1>1, <1>2, <1>3, <1>4, <1>5, <1>6 DEF Clock!Next

-----------------------------------------------------------------------------
(* The components side by side. *)

\* Each component keeps what it needs, whichever of them takes the steps.
LEMMA HotAlways == Spec => []HotOK
<1>1. Init => HotOK
  BY HotStart DEF Init
<1>2. HotOK /\ [Next]_vars => HotOK'
  <2>. SUFFICES ASSUME HotOK, [Next]_vars PROVE HotOK'
    OBVIOUS
  <2>1. CASE Hot!Next
    BY <2>1, HotKeeps
  <2>2. CASE UNCHANGED hot
    BY <2>2 DEF hot, HotOK, HotTable
  <2>. QED
    BY <2>1, <2>2 DEF Next, vars
<1>. QED
  BY <1>1, <1>2, PTL DEF Spec

LEMMA ClockAlways == Spec => []ClockOK
<1>1. Init => ClockOK
  BY ClockStart DEF Init
<1>2. ClockOK /\ [Next]_vars => ClockOK'
  <2>. SUFFICES ASSUME ClockOK, [Next]_vars PROVE ClockOK'
    OBVIOUS
  <2>1. CASE Clock!Next
    BY <2>1, ClockKeeps
  <2>2. CASE UNCHANGED clock
    BY <2>2 DEF clock, ClockOK, Clock!TypeOK
  <2>. QED
    BY <2>1, <2>2 DEF Next, vars
<1>. QED
  BY <1>1, <1>2, PTL DEF Spec

LEMMA LinesAlways == Spec => []LinesOK
<1>1. Init => LinesOK
  BY LinesStart DEF Init
<1>2. LinesOK /\ [Next]_vars => LinesOK'
  <2>. SUFFICES ASSUME LinesOK, [Next]_vars PROVE LinesOK'
    OBVIOUS
  <2>1. CASE Lines!Next
    BY <2>1, LinesKeep
  <2>2. CASE UNCHANGED lines
    BY <2>2 DEF lines, LinesOK, Lines!LinesAgree
  <2>. QED
    BY <2>1, <2>2 DEF Next, vars
<1>. QED
  BY <1>1, <1>2, PTL DEF Spec

LEMMA QueueStays ==
    ASSUME QueueOK, UNCHANGED queue
    PROVE  QueueOK' /\ UNCHANGED Queue!Pool!vars
<1>1. QueueOK'
  BY DEF queue, QueueOK, Linked, Sorted
<1>2. Queue!Queued' = Queue!Queued
  BY DEF queue, Queue!Queued
<1>. QED
  BY <1>1, <1>2 DEF queue, Queue!Pool!vars

LEMMA QueueAlways == Spec => []QueueOK
<1>1. Init => QueueOK
  BY QueueStart DEF Init
<1>2. QueueOK /\ [Next]_vars => QueueOK'
  BY QueueSteps, QueueStays DEF Next, vars
<1>. QED
  BY <1>1, <1>2, PTL DEF Spec

LEMMA LruStays ==
    ASSUME LruOK, UNCHANGED lru
    PROVE  LruOK' /\ UNCHANGED Lru!Abstract!vars
<1>1. UNCHANGED <<lHead, lTail, lSize, lPrev, lNext, lData, lResult>>
  BY DEF lru
<1>2. Lru!Used' = Lru!Used
  BY <1>1 DEF Lru!Used
<1>3. PICK n : n = lSize
  OBVIOUS
<1>4. PICK C \in [1 .. n -> ListNodes] : OrderIs(n, C)
  BY <1>3 DEF LruOK
<1>5. OrderIs(n, C)'
  BY <1>1, <1>2, <1>4 DEF OrderIs
<1>6. LruOK'
  BY <1>1, <1>2 DEF LruOK, OrderIs
<1>7. WalkGivesOrder'
  BY OrderGives, PTL
<1>8. Lru!Walk(lHead, lNext)' = Lru!Walk(lHead, lNext)
  BY <1>4, <1>5, <1>7, OrderGives DEF WalkGivesOrder
<1>. QED
  BY <1>1, <1>6, <1>8 DEF Lru!Abstract!vars

LEMMA LruAlways == Spec => []LruOK
<1>1. Init => LruOK
  BY LruStart DEF Init
<1>2. LruOK /\ [Next]_vars => LruOK'
  BY LruSteps, LruStays DEF Next, vars
<1>. QED
  BY <1>1, <1>2, PTL DEF Spec

\* dftl_cache.c: no promotion of a page's entries and no reset of the hot table
\* hides an entry from the reads, whatever the sizes of the table and of the
\* cache: probing from the home of an lpa meets its entry before a free slot.
THEOREM PathSound == Spec => []PathKept
<1>1. HotOK => PathKept
  BY HotFinds DEF PathKept
<1>. QED
  BY <1>1, HotAlways, PTL

\* ssd.c: a request is not due before the NAND has done all it was asked for,
\* for all latencies and numbers of channels, LUNs and pages.
THEOREM DueSound == Spec => []DueAfterNand
<1>1. ClockOK => DueAfterNand
  BY ClockTells DEF DueAfterNand
<1>. QED
  BY <1>1, ClockAlways, PTL

\* ssd.c: for every geometry, planes included, the page states and the write
\* pointers agree, no two programmed pages have one address, and each line is
\* spread evenly over the LUNs.
THEOREM LinesHold == Spec => []LinesAgree
<1>1. LinesOK => LinesAgree
  BY LinesStriped DEF LinesOK, LinesAgree
<1>. QED
  BY <1>1, LinesAlways, PTL

\* algo_queue.c: for any number of requests and any slack, an earlier request is
\* due later than a later one by at most a slack for each place between them.
THEOREM QueueSorted == Spec => []SortedWithinSlack
<1>1. QueueOK => SortedWithinSlack
  BY QueueTells DEF SortedWithinSlack
<1>. QED
  BY <1>1, QueueAlways, PTL

\* algo_queue.c: a request put in comes back at most once, with the time it was
\* put in with, and not before it is due: every step is one of the pool's.
THEOREM QueueIsPool == Spec => ImplementsPool
<1>1. Init => Queue!Pool!Init
  <2>. SUFFICES ASSUME Init PROVE Queue!Pool!Init
    OBVIOUS
  <2>1. Queue!Init
    BY DEF Init
  <2>2. Queue!Queued = {}
    BY <2>1, QueueEmpty
  <2>. QED
    BY <2>1, <2>2 DEF Queue!Init, Queue!Pool!Init
<1>2. QueueOK /\ [Next]_vars => [Queue!Pool!Next]_(Queue!Pool!vars)
  <2>. SUFFICES ASSUME QueueOK, [Next]_vars PROVE [Queue!Pool!Next]_(Queue!Pool!vars)
    OBVIOUS
  <2>1. CASE Queue!Next
    BY <2>1, QueueSteps
  <2>2. CASE UNCHANGED queue
    BY <2>2, QueueStays
  <2>. QED
    BY <2>1, <2>2 DEF Next, vars
<1>. QED
  BY <1>1, <1>2, QueueAlways, PTL DEF Spec, ImplementsPool, Queue!ImplementsPool, Queue!Pool!Spec

\* lru_list.c: for any number of nodes, each operation on the links is one on a
\* recency order: the cache's victim is the page used longest ago.
THEOREM LruIsRecency == Spec => ImplementsRecency
<1>1. Init => Lru!Walk(lHead, lNext) = <<>>
  BY LruStart DEF Init
<1>2. LruOK /\ [Next]_vars => [Lru!Abstract!Next]_(Lru!Abstract!vars)
  <2>. SUFFICES ASSUME LruOK, [Next]_vars PROVE [Lru!Abstract!Next]_(Lru!Abstract!vars)
    OBVIOUS
  <2>1. CASE Lru!Next
    BY <2>1, LruSteps
  <2>2. CASE UNCHANGED lru
    BY <2>2, LruStays
  <2>. QED
    BY <2>1, <2>2 DEF Next, vars
<1>. QED
  BY <1>1, <1>2, LruAlways, PTL
     DEF Spec, ImplementsRecency, Lru!ImplementsRecency, Lru!Abstract!Spec

\* skiplist.c: for any number of keys, nodes and levels, each operation is one on
\* a map, and the iterator meets its keys once and in order.
THEOREM SkipListIsMap == Spec => ImplementsMap
<1>1. Init => Skip!Abstract!Init
  <2>. SUFFICES ASSUME Init PROVE Skip!Abstract!Init
    OBVIOUS
  <2>1. SkipOK /\ MapTells
    BY SkipStart, MapFacts DEF Init
  <2>2. InList = {}
    <3>1. \A n \in SkipNodes : sKey[n] = Junk
      BY SkipSizes DEF Init, Skip!Init
    <3>. QED
      BY <3>1 DEF InList
  <2>3. KeysNow = {} /\ MapNow = <<>> /\ OrderNow = <<>>
    BY <2>1, <2>2 DEF MapTells, KeysNow, MapNow
  <2>. QED
    BY <2>3 DEF Skip!Abstract!Init, MapNow, KeysNow, OrderNow
<1>2. SkipOK /\ [Next]_vars => [Skip!Abstract!Next]_(Skip!Abstract!vars)
  <2>. SUFFICES ASSUME SkipOK, [Next]_vars PROVE [Skip!Abstract!Next]_(Skip!Abstract!vars)
    OBVIOUS
  <2>1. CASE Skip!Next
    BY <2>1, SkipStep
  <2>2. CASE UNCHANGED skip
    <3>1. /\ sLevel' = sLevel /\ sSize' = sSize /\ sList' = sList /\ sKey' = sKey
          /\ sValue' = sValue
      BY <2>2 DEF skip
    <3>2. Skip!Free' = Skip!Free /\ Skip!Iterated(1)' = Skip!Iterated(1)
      BY <3>1 DEF Skip!Free, Skip!Iterated
    <3>3. UNCHANGED Skip!Abstract!vars
      BY <3>1, <3>2 DEF Skip!Abstract!vars
    <3>. QED
      BY <3>3
  <2>. QED
    BY <2>1, <2>2 DEF Next, vars
<1>. QED
  BY <1>1, <1>2, SkipAlways, PTL
     DEF Spec, ImplementsMap, Skip!ImplementsMap, Skip!Abstract!Spec

\* ssd.c: for any latencies and geometry, each LUN works off what it is given in
\* order and without a gap, and a caller is told when the last of its LUNs ends.
THEOREM LunsInTurn == Spec => InTurn
<1>1. Init => Clock!Queues!Init
  <2>. SUFFICES ASSUME Init PROVE Clock!Queues!Init
    OBVIOUS
  <2>1. Clock!Init
    BY DEF Init
  <2>2. ASSUME NEW l \in Clock!Luns PROVE WorkNow[l] = 0
    <3>1. WorkTells /\ cNow = 0 /\ cNextLunAvailTime[l] = 0
      BY <2>1, ClockStart, WorkIs DEF Clock!Init
    <3>. QED
      BY <3>1 DEF WorkTells
  <2>3. WorkNow = [l \in Clock!Luns |-> 0]
    <3>1. WorkNow = [l \in Clock!Luns |-> WorkNow[l]]
      BY DEF WorkNow
    <3>. QED
      BY <2>2, <3>1
  <2>4. cMaxlat = 0
    BY <2>1 DEF Clock!Init
  <2>. QED
    BY <2>3, <2>4 DEF Clock!Queues!Init, WorkNow
<1>2. ClockOK /\ [Next]_vars => [Clock!Queues!Next]_<<WorkNow, cMaxlat>>
  <2>. SUFFICES ASSUME ClockOK, [Next]_vars
       PROVE  Clock!Queues!Next \/ UNCHANGED <<WorkNow, cMaxlat>>
    OBVIOUS
  <2>1. CASE Clock!Next
    BY <2>1, ClockStep
  <2>2. CASE UNCHANGED clock
    BY <2>2 DEF clock, WorkNow
  <2>. QED
    BY <2>1, <2>2 DEF Next, vars
<1>. QED
  BY <1>1, <1>2, ClockAlways, PTL
     DEF Spec, InTurn, Clock!InTurn, Clock!Queues!Spec, WorkNow

\* lru_list.c, algo_queue.c, skiplist.c: whatever sequence of calls is made, the
\* links of the three lists agree with what is in them, and a search of the
\* skiplist finds each key that is there and no other.
THEOREM LinksTrue == Spec => []LinksSound
<1>1. QueueOK => Queue!TypeOK /\ Queue!LinksAgree
  BY QueueTells
<1>2. LruOK => Lru!TypeOK /\ Lru!LinksAgree
  BY LruTells
<1>3. SkipOK => Skip!TypeOK /\ Skip!LevelsSorted /\ Skip!SearchFinds
  BY SkipTells
<1>4. QueueOK /\ LruOK /\ SkipOK => LinksSound
  BY <1>1, <1>2, <1>3 DEF LinksSound
<1>. QED
  BY <1>4, QueueAlways, LruAlways, SkipAlways, PTL

=============================================================================

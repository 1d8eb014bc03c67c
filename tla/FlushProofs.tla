---------------------------- MODULE FlushProofs ----------------------------
(***************************************************************************)
(* Proofs about FlushPath for every geometry, key set, hash and size of    *)
(* the write buffer: as long as GC leaves alone the superblocks to which   *)
(* the flush under way has written (Settled), no grain is lost or shared,  *)
(* no assertion of the block manager fails on a value, the NAND accepts    *)
(* every command, and a read returns the value last set.                   *)
(***************************************************************************)
EXTENDS FlushPath, SuperblockProofs

LEMMA Geometry ==
    /\ GRAIN_PER_PAGE \in Nat \ {0} /\ PPS \in Nat \ {0}
    /\ GrainsPerSblk \in Nat /\ GrainsPerSblk = PPS * GRAIN_PER_PAGE
BY PartitionAssumption, FlushAssumption DEF GrainsPerSblk

\* A function laid over another.
LEMMA OverFacts ==
    ASSUME NEW f, NEW g
    PROVE  /\ DOMAIN Over(f, g) = DOMAIN f \union DOMAIN g
           /\ \A x \in DOMAIN f : Over(f, g)[x] = f[x]
           /\ \A x \in DOMAIN g \ DOMAIN f : Over(f, g)[x] = g[x]
BY DEF Over

-----------------------------------------------------------------------------
(* The packing of a page. *)

\* Values to be packed, one of each name.
ItemSet(I) ==
    /\ I \subseteq [id : Nat, len : 1 .. GRAIN_PER_PAGE]
    /\ IsFiniteSet(I)
    /\ \A x, y \in I : x.id = y.id => x = y

\* Where the values P are: one after the other, below limit.
Places(P, at, limit) ==
    /\ DOMAIN at = {x.id : x \in P}
    /\ \A x \in P : at[x.id] \in Nat /\ at[x.id] + x.len <= limit
    /\ \A x, y \in P : x # y => \/ at[x.id] + x.len <= at[y.id]
                                \/ at[y.id] + y.len <= at[x.id]

PageStates(I) == [left : SUBSET I, used : 0 .. GRAIN_PER_PAGE,
                  at : UNION {[D -> Nat] : D \in SUBSET Nat}]

\* A page that has some of the values I.
PagesWith(I) == {page \in PageStates(I) : Places(I \ page.left, page.at, page.used)}

\* Of the values that fit there is one of those of the longest length last in its
\* bucket.
LEMMA LongestLast ==
    ASSUME NEW I, ItemSet(I), NEW fit, fit \subseteq I, fit # {}
    PROVE  \E x \in fit : \A y \in fit : \/ y.len < x.len
                                         \/ y.len = x.len /\ y.id <= x.id
<1>1. /\ fit \subseteq [id : Nat, len : 1 .. GRAIN_PER_PAGE]
      /\ IsFiniteSet(fit) /\ \A x \in fit : x.id \in Nat /\ x.len \in Nat
  BY FS_Subset DEF ItemSet
<1> DEFINE lens == {x.len : x \in fit}
<1>2. IsFiniteSet(lens) /\ lens \subseteq Nat /\ lens # {}
  <2> DEFINE f == [x \in fit |-> x.len]
  <2>1. DOMAIN f = fit /\ lens = {f[x] : x \in fit}
    OBVIOUS
  <2>2. IsFiniteSet({f[x] : x \in fit})
    <3>. HIDE DEF f
    <3>. QED
      BY <1>1, <2>1, FiniteImage
  <2>. QED
    BY <1>1, <2>1, <2>2
<1>3. PICK n \in lens : \A m \in lens : m <= n
  <2>. HIDE DEF lens
  <2>. QED
    BY <1>2, FiniteGreatest
<1> DEFINE long == {x \in fit : x.len = n}
           ids == {x.id : x \in long}
<1>4. IsFiniteSet(ids) /\ ids \subseteq Nat /\ ids # {}
  <2>1. IsFiniteSet(long) /\ long # {}
    BY <1>1, <1>3, FS_Subset
  <2> DEFINE f == [x \in long |-> x.id]
  <2>2. DOMAIN f = long /\ ids = {f[x] : x \in long}
    OBVIOUS
  <2>3. IsFiniteSet({f[x] : x \in long})
    <3>. HIDE DEF f, long
    <3>. QED
      BY <2>1, <2>2, FiniteImage
  <2>4. ids \subseteq Nat /\ ids # {}
    BY <1>1, <2>1
  <2>. HIDE DEF f, ids
  <2>. QED
    BY <2>2, <2>3, <2>4
<1>5. PICK i \in ids : \A j \in ids : j <= i
  <2>. HIDE DEF ids
  <2>. QED
    BY <1>4, FiniteGreatest
<1>6. PICK x \in fit : x.len = n /\ x.id = i
  BY <1>5
<1>7. ASSUME NEW y \in fit PROVE y.len < x.len \/ (y.len = x.len /\ y.id <= x.id)
  <2>1. y.len <= n /\ y.len \in Nat /\ n \in Nat
    BY <1>1, <1>2, <1>3
  <2>2. y.len = n => y.id <= i
    <3>1. y.len = n => y.id \in ids
      OBVIOUS
    <3>. QED
      BY <1>5, <3>1
  <2>3. y.len < n \/ y.len = n
    BY <2>1
  <2>. QED
    BY <1>6, <2>2, <2>3
<1>. QED
  BY <1>7

\* A value put behind the others keeps them in their places.
LEMMA PlacesAdd ==
    ASSUME NEW P, NEW at, NEW used \in Nat, NEW limit, Places(P, at, used),
           P \subseteq [id : Nat, len : 1 .. GRAIN_PER_PAGE],
           NEW x \in [id : Nat, len : 1 .. GRAIN_PER_PAGE],
           \A y \in P : y.id # x.id, limit = used + x.len
    PROVE  Places(P \union {x}, Over([n \in {x.id} |-> used], at), limit)
<1> DEFINE new == [n \in {x.id} |-> used]
           on == Over(new, at)
           Q == P \union {x}
<1>0. DOMAIN new = {x.id} /\ new[x.id] = used
  OBVIOUS
<1>1. /\ DOMAIN on = {x.id} \union DOMAIN at
      /\ on[x.id] = used
      /\ \A n \in DOMAIN at : n # x.id => on[n] = at[n]
  <2>. HIDE DEF new
  <2>1. /\ DOMAIN on = DOMAIN new \union DOMAIN at
        /\ \A n \in DOMAIN new : on[n] = new[n]
        /\ \A n \in DOMAIN at \ DOMAIN new : on[n] = at[n]
    BY DEF Over
  <2>. HIDE DEF on
  <2>. QED
    BY <1>0, <2>1
<1>. HIDE DEF on
<1>2. \A y \in P : on[y.id] = at[y.id] /\ y.len \in Nat
  BY <1>1 DEF Places
<1>3. DOMAIN on = {y.id : y \in Q}
  BY <1>1 DEF Places
<1>4. ASSUME NEW y \in Q PROVE on[y.id] \in Nat /\ on[y.id] + y.len <= limit
  <2>1. CASE y = x
    BY <1>1, <2>1
  <2>2. CASE y \in P
    <3>1. at[y.id] \in Nat /\ at[y.id] + y.len <= used /\ y.len \in Nat /\ x.len \in Nat
      BY <1>2, <2>2 DEF Places
    <3>. QED
      BY <1>2, <2>2, <3>1
  <2>. QED
    BY <2>1, <2>2
<1>5. ASSUME NEW y \in Q, NEW z \in Q, y # z
      PROVE  on[y.id] + y.len <= on[z.id] \/ on[z.id] + z.len <= on[y.id]
  <2>1. CASE y = x
    <3>1. z \in P
      BY <1>5, <2>1
    <3>. QED
      BY <1>1, <1>2, <2>1, <3>1 DEF Places
  <2>2. CASE z = x
    <3>1. y \in P
      BY <1>5, <2>2
    <3>. QED
      BY <1>1, <1>2, <2>2, <3>1 DEF Places
  <2>3. CASE y \in P /\ z \in P
    BY <1>2, <1>5, <2>3 DEF Places
  <2>. QED
    BY <2>1, <2>2, <2>3
<1>6. Places(Q, on, limit)
  BY <1>3, <1>4, <1>5 DEF Places
<1>. QED
  BY <1>6 DEF on

\* The greedy packing ends with a page of the values that found room.
LEMMA FillPageFacts ==
    ASSUME NEW I, ItemSet(I)
    PROVE  FillPage(I) \in PagesWith(I)
<1> DEFINE Fit(page) == {x \in page.left : Fits(page.used, x.len)}
           X(page) == CHOOSE x \in Fit(page) :
                         \A y \in Fit(page) : \/ y.len < x.len
                                              \/ y.len = x.len /\ y.id <= x.id
           Added(page, x) == [left |-> page.left \ {x},
                              used |-> page.used + x.len,
                              at   |-> Over([n \in {x.id} |-> page.used], page.at)]
           Add(page) == IF Fit(page) = {} THEN page ELSE Added(page, X(page))
           first == [left |-> I, used |-> 0, at |-> <<>>]
           filled[i \in 0 .. GRAIN_PER_PAGE] ==
               IF i = 0 THEN first ELSE Add(filled[i - 1])
           T == PagesWith(I)
<1>1. FillPage(I) = filled[GRAIN_PER_PAGE]
  BY DEF FillPage
<1>2. first \in T
  <2>1. <<>> \in [{} -> Nat] /\ DOMAIN <<>> = {}
    OBVIOUS
  <2>2. <<>> \in UNION {[D -> Nat] : D \in SUBSET Nat}
    <3>1. {} \in SUBSET Nat
      OBVIOUS
    <3>. QED
      BY <2>1, <3>1
  <2>3. first \in PageStates(I) /\ I \ first.left = {} /\ first.at = <<>>
    <3>1. 0 \in 0 .. GRAIN_PER_PAGE /\ I \in SUBSET I
      BY Geometry
    <3>. QED
      BY <2>2, <3>1 DEF PageStates
  <2>4. Places(I \ first.left, first.at, first.used)
    BY <2>1, <2>3 DEF Places
  <2>. QED
    BY <2>3, <2>4 DEF PagesWith
<1>3. ASSUME NEW page \in T PROVE Add(page) \in T
  <2>1. CASE Fit(page) = {}
    BY <2>1
  <2>2. CASE Fit(page) # {}
    <3>1. /\ page \in PageStates(I) /\ page.left \subseteq I
          /\ page.used \in 0 .. GRAIN_PER_PAGE
          /\ page.at \in UNION {[D -> Nat] : D \in SUBSET Nat}
          /\ Places(I \ page.left, page.at, page.used)
      BY DEF PagesWith, PageStates
    <3>2. Fit(page) \subseteq I
      BY <3>1
    <3>3. \E x \in Fit(page) : \A y \in Fit(page) : \/ y.len < x.len
                                                    \/ y.len = x.len /\ y.id <= x.id
      <4>. HIDE DEF Fit
      <4>. QED
        BY <2>2, <3>2, LongestLast
    <3>4. X(page) \in Fit(page)
      <4>. HIDE DEF Fit
      <4>. QED
        BY <3>3
    <3>5. PICK x : x = X(page)
      OBVIOUS
    <3>6. /\ x \in page.left /\ x \in I /\ x.id \in Nat /\ x.len \in 1 .. GRAIN_PER_PAGE
          /\ page.used + x.len <= GRAIN_PER_PAGE
          /\ x \in [id : Nat, len : 1 .. GRAIN_PER_PAGE]
          /\ I \subseteq [id : Nat, len : 1 .. GRAIN_PER_PAGE]
          /\ \A y \in I : y.id = x.id => y = x
      <4>1. x \in page.left /\ Fits(page.used, x.len) /\ x \in I
        BY <3>2, <3>4, <3>5
      <4>2. /\ x \in [id : Nat, len : 1 .. GRAIN_PER_PAGE]
            /\ I \subseteq [id : Nat, len : 1 .. GRAIN_PER_PAGE]
            /\ \A y \in I : y.id = x.id => y = x
        BY <4>1 DEF ItemSet
      <4>3. x.len <= GRAIN_PER_PAGE - page.used /\ x.len \in Nat
        BY <4>1, <4>2 DEF Fits
      <4>. QED
        BY <3>1, <4>1, <4>2, <4>3, Geometry
    <3> DEFINE new == Added(page, x)
               P == I \ page.left
               at == Over([n \in {x.id} |-> page.used], page.at)
    <3>7. Add(page) = new
      BY <2>2, <3>5
    <3>8. new.left = page.left \ {x} /\ new.used = page.used + x.len /\ new.at = at
      OBVIOUS
    <3>9. I \ new.left = P \union {x}
      BY <3>1, <3>6, <3>8
    <3>10. Places(P \union {x}, at, page.used + x.len)
      <4>1. /\ P \subseteq [id : Nat, len : 1 .. GRAIN_PER_PAGE]
            /\ \A y \in P : y.id # x.id
        BY <3>6
      <4>2. page.used \in Nat
        BY <3>1, Geometry
      <4>. HIDE DEF P
      <4>. QED
        BY <3>1, <3>6, <4>1, <4>2, PlacesAdd DEF P
    <3>11. at \in UNION {[D -> Nat] : D \in SUBSET Nat}
      <4>1. DOMAIN at \subseteq Nat /\ at = [n \in DOMAIN at |-> at[n]]
        <5>1. DOMAIN at = {x.id} \union DOMAIN page.at
          BY DEF Over
        <5>2. at = [n \in {x.id} \union DOMAIN page.at |-> at[n]]
          BY DEF Over
        <5>3. DOMAIN page.at \subseteq Nat
          BY <3>1
        <5>. HIDE DEF at
        <5>. QED
          BY <3>6, <5>1, <5>2, <5>3
      <4>2. \A n \in DOMAIN at : at[n] \in Nat
        <5>1. DOMAIN at = {y.id : y \in P \union {x}}
          BY <3>10 DEF Places
        <5>2. \A y \in P \union {x} : at[y.id] \in Nat
          BY <3>10 DEF Places
        <5>. HIDE DEF at, P
        <5>. QED
          BY <5>1, <5>2
      <4>. HIDE DEF at
      <4>3. at \in [DOMAIN at -> Nat]
        BY <4>1, <4>2
      <4>. QED
        BY <4>1, <4>3
    <3>12. new \in PageStates(I)
      <4>1. page.left \ {x} \in SUBSET I /\ page.used + x.len \in 0 .. GRAIN_PER_PAGE
        BY <3>1, <3>6, Geometry
      <4>. HIDE DEF at
      <4>2. new = [left |-> page.left \ {x}, used |-> page.used + x.len, at |-> at]
        BY DEF at
      <4>. HIDE DEF new
      <4>. QED
        BY <3>11, <4>1, <4>2 DEF PageStates
    <3>. HIDE DEF new, at, P
    <3>13. Places(I \ new.left, new.at, new.used)
      BY <3>8, <3>9, <3>10
    <3>14. new \in T
      BY <3>12, <3>13 DEF PagesWith
    <3>. QED
      BY <3>7, <3>14
  <2>. QED
    BY <2>1, <2>2
<1>. HIDE DEF Add, first, T
<1> DEFINE F == [i \in 1 .. GRAIN_PER_PAGE |-> [page \in T |-> Add(page)]]
<1>4. F \in [1 .. GRAIN_PER_PAGE -> [T -> T]] /\ GRAIN_PER_PAGE \in Nat
  BY <1>3, Geometry
<1>5. \E g : g = [i \in 0 .. GRAIN_PER_PAGE |-> IF i = 0 THEN first ELSE Add(g[i - 1])]
  <2>. HIDE DEF F
  <2>1. PICK g \in [0 .. GRAIN_PER_PAGE -> T] :
            g[0] = first /\ \A i \in 1 .. GRAIN_PER_PAGE : g[i] = F[i][g[i - 1]]
    BY <1>2, <1>4, Iteration
  <2>2. ASSUME NEW i \in 0 .. GRAIN_PER_PAGE
        PROVE  g[i] = IF i = 0 THEN first ELSE Add(g[i - 1])
    <3>1. CASE i = 0
      BY <2>1, <3>1
    <3>2. CASE i # 0
      <4>1. i \in 1 .. GRAIN_PER_PAGE /\ i - 1 \in 0 .. GRAIN_PER_PAGE
        BY <3>2, <1>4
      <4>2. g[i - 1] \in T /\ g[i] = F[i][g[i - 1]]
        BY <2>1, <4>1
      <4>3. F[i][g[i - 1]] = Add(g[i - 1])
        BY <4>1, <4>2 DEF F
      <4>. QED
        BY <3>2, <4>2, <4>3
    <3>. QED
      BY <3>1, <3>2
  <2>. QED
    BY <2>2
<1>6. filled = [i \in 0 .. GRAIN_PER_PAGE |->
                   IF i = 0 THEN first ELSE Add(filled[i - 1])]
  BY <1>5
<1>. HIDE DEF filled
<1>7. \A i \in 0 .. GRAIN_PER_PAGE : filled[i] \in T
  <2> DEFINE S == {i \in 0 .. GRAIN_PER_PAGE : filled[i] \in T}
  <2>1. filled[0] = first
    BY <1>4, <1>6
  <2>2. 0 \in S
    BY <1>2, <1>4, <2>1
  <2>3. ASSUME NEW i \in 0 .. GRAIN_PER_PAGE - 1, i \in S PROVE i + 1 \in S
    <3>1. i + 1 \in 0 .. GRAIN_PER_PAGE /\ i + 1 # 0 /\ (i + 1) - 1 = i
      BY <1>4
    <3>2. filled[i + 1] = Add(filled[i])
      BY <1>6, <3>1
    <3>. QED
      BY <1>3, <2>3, <3>1, <3>2
  <2>4. 0 .. GRAIN_PER_PAGE \subseteq S
    <3>. HIDE DEF S
    <3>. QED
      BY <1>4, <2>2, <2>3, Induction
  <2>. QED
    BY <2>4
<1>8. filled[GRAIN_PER_PAGE] \in T
  BY <1>4, <1>7
<1>. QED
  BY <1>1, <1>8 DEF T

-----------------------------------------------------------------------------
(* The pages GC fills in the reserve. *)

\* No value reaches over the end of its page.
Whole(P, at) ==
    \A x \in P : (at[x.id] % GRAIN_PER_PAGE) + x.len <= GRAIN_PER_PAGE

\* Position i of page n.
LEMMA PositionFacts ==
    ASSUME NEW n \in Nat, NEW i \in 0 .. GRAIN_PER_PAGE - 1
    PROVE  /\ n * GRAIN_PER_PAGE + i \in Nat
           /\ (n * GRAIN_PER_PAGE + i) % GRAIN_PER_PAGE = i
           /\ (n * GRAIN_PER_PAGE + i) \div GRAIN_PER_PAGE = n
<1>1. n * GRAIN_PER_PAGE = GRAIN_PER_PAGE * n /\ n * GRAIN_PER_PAGE \in Nat
  BY Geometry
<1>2. /\ (GRAIN_PER_PAGE * n + i) % GRAIN_PER_PAGE = i
      /\ (GRAIN_PER_PAGE * n + i) \div GRAIN_PER_PAGE = n
  BY Geometry, DivisionUnique
<1> DEFINE a == n * GRAIN_PER_PAGE
<1>3. a \in Nat /\ a = GRAIN_PER_PAGE * n
  BY <1>1
<1>. HIDE DEF a
<1>4. a + i \in Nat
  BY <1>3, Geometry
<1>5. (a + i) % GRAIN_PER_PAGE = i /\ (a + i) \div GRAIN_PER_PAGE = n
  BY <1>2, <1>3
<1>. QED
  BY <1>4, <1>5 DEF a

\* A page put behind the others.
LEMMA PlacesJoin ==
    ASSUME NEW P, NEW at, NEW n \in Nat, Places(P, at, n * GRAIN_PER_PAGE),
           Whole(P, at),
           NEW Q, NEW page, Places(Q, page, GRAIN_PER_PAGE),
           P \subseteq [id : Nat, len : 1 .. GRAIN_PER_PAGE],
           Q \subseteq [id : Nat, len : 1 .. GRAIN_PER_PAGE],
           \A x \in P, y \in Q : x.id # y.id,
           NEW on, on = Over([i \in DOMAIN page |-> n * GRAIN_PER_PAGE + page[i]], at)
    PROVE  /\ Places(P \union Q, on, (n + 1) * GRAIN_PER_PAGE)
           /\ Whole(P \union Q, on)
<1> DEFINE base == n * GRAIN_PER_PAGE
           new == [i \in DOMAIN page |-> base + page[i]]
<1>1. base \in Nat /\ (n + 1) * GRAIN_PER_PAGE = base + GRAIN_PER_PAGE
  BY Geometry
<1>2. on = Over(new, at)
  OBVIOUS
<1>3. /\ DOMAIN on = DOMAIN page \union DOMAIN at
      /\ \A i \in DOMAIN page : on[i] = base + page[i]
      /\ \A i \in DOMAIN at \ DOMAIN page : on[i] = at[i]
  <2>1. DOMAIN new = DOMAIN page /\ \A i \in DOMAIN page : new[i] = base + page[i]
    OBVIOUS
  <2>. HIDE DEF new
  <2> DEFINE over == Over(new, at)
  <2>2. /\ DOMAIN over = DOMAIN new \union DOMAIN at
        /\ \A i \in DOMAIN new : over[i] = new[i]
        /\ \A i \in DOMAIN at \ DOMAIN new : over[i] = at[i]
    BY OverFacts
  <2>3. on = over
    BY <1>2
  <2>. HIDE DEF over
  <2>. QED
    BY <2>1, <2>2, <2>3
<1>4. ASSUME NEW x \in Q
      PROVE  /\ on[x.id] = base + page[x.id] /\ page[x.id] \in Nat
             /\ x.len \in 1 .. GRAIN_PER_PAGE /\ page[x.id] + x.len <= GRAIN_PER_PAGE
  <2>1. x.id \in DOMAIN page
    BY DEF Places
  <2>. HIDE DEF base
  <2>. QED
    BY <1>3, <2>1 DEF Places
<1>5. ASSUME NEW x \in P
      PROVE  /\ on[x.id] = at[x.id] /\ at[x.id] \in Nat
             /\ x.len \in 1 .. GRAIN_PER_PAGE /\ at[x.id] + x.len <= base
  <2>1. x.id \in DOMAIN at
    BY DEF Places
  <2>2. x.id \notin DOMAIN page
    BY DEF Places
  <2>. QED
    BY <1>3, <2>1, <2>2 DEF Places
<1> DEFINE R == P \union Q
           limit == base + GRAIN_PER_PAGE
<1>6. DOMAIN on = {x.id : x \in R}
  BY <1>3 DEF Places
<1>. HIDE DEF base
<1>7. ASSUME NEW x \in R PROVE on[x.id] \in Nat /\ on[x.id] + x.len <= limit
  <2>1. CASE x \in P
    BY <1>1, <1>5, <2>1, Geometry
  <2>2. CASE x \in Q
    BY <1>1, <1>4, <2>2, Geometry
  <2>. QED
    BY <2>1, <2>2
<1>8. ASSUME NEW x \in P, NEW y \in Q PROVE on[x.id] + x.len <= on[y.id]
  BY <1>1, <1>4, <1>5
<1>9. ASSUME NEW x \in R, NEW y \in R, x # y
      PROVE  on[x.id] + x.len <= on[y.id] \/ on[y.id] + y.len <= on[x.id]
  <2>1. CASE x \in P /\ y \in P
    BY <1>5, <1>9, <2>1 DEF Places
  <2>2. CASE x \in Q /\ y \in Q
    <3>1. page[x.id] + x.len <= page[y.id] \/ page[y.id] + y.len <= page[x.id]
      BY <1>9, <2>2 DEF Places
    <3>2. x.len \in Nat /\ y.len \in Nat
      BY <1>4, <2>2, Geometry
    <3>. QED
      BY <1>1, <1>4, <2>2, <3>1, <3>2
  <2>3. CASE x \in P /\ y \in Q
    BY <1>8, <2>3
  <2>4. CASE x \in Q /\ y \in P
    BY <1>8, <2>4
  <2>. QED
    BY <2>1, <2>2, <2>3, <2>4
<1>10. Places(R, on, (n + 1) * GRAIN_PER_PAGE)
  BY <1>1, <1>6, <1>7, <1>9 DEF Places
<1>11. ASSUME NEW x \in R PROVE (on[x.id] % GRAIN_PER_PAGE) + x.len <= GRAIN_PER_PAGE
  <2>1. CASE x \in P
    BY <1>5, <2>1 DEF Whole
  <2>2. CASE x \in Q
    <3>1. page[x.id] \in 0 .. GRAIN_PER_PAGE - 1
      BY <1>4, <2>2, Geometry
    <3>2. on[x.id] % GRAIN_PER_PAGE = page[x.id]
      BY <1>4, <2>2, <3>1, PositionFacts DEF base
    <3>. QED
      BY <1>4, <2>2, <3>2
  <2>. QED
    BY <2>1, <2>2
<1>. QED
  BY <1>10, <1>11 DEF Whole

LayoutStates(I) == [left : SUBSET I, pages : Nat,
                    at : UNION {[D -> Nat] : D \in SUBSET Nat}]

\* Pages that have some of the values I.
LayoutsOf(I) ==
    {a \in LayoutStates(I) : /\ Places(I \ a.left, a.at, a.pages * GRAIN_PER_PAGE)
                             /\ Whole(I \ a.left, a.at)}

\* A function with Places has naturals for values.
LEMMA PlacesTyped ==
    ASSUME NEW P, NEW at, NEW limit, Places(P, at, limit),
           P \subseteq [id : Nat, len : 1 .. GRAIN_PER_PAGE],
           NEW f, NEW g, at = Over(f, g)
    PROVE  at \in UNION {[D -> Nat] : D \in SUBSET Nat}
<1>1. DOMAIN at \subseteq Nat /\ \A n \in DOMAIN at : at[n] \in Nat
  BY DEF Places
<1>2. at = [n \in DOMAIN at |-> at[n]]
  BY DEF Over
<1>3. at \in [DOMAIN at -> Nat]
  BY <1>1, <1>2
<1>. QED
  BY <1>1, <1>3

\* The reserve's layout holds its values in places of their own, all of them if it
\* has no more pages than a superblock.
LEMMA LayoutFacts ==
    ASSUME NEW M, NEW I, I = {[id |-> g[2], len |-> oob[g].length] : g \in M},
           ItemSet(I)
    PROVE  /\ Layout(M) \in LayoutsOf(I)
           /\ Layout(M).pages <= PPS => Layout(M).left = {}
<1> DEFINE Page(a) == FillPage(a.left)
           Shifted(a) == Over([n \in DOMAIN Page(a).at |->
                                  a.pages * GRAIN_PER_PAGE + Page(a).at[n]], a.at)
           Added(a) == [left |-> Page(a).left, pages |-> a.pages + 1,
                        at |-> Shifted(a)]
           AddPage(a) == IF a.left = {} THEN a ELSE Added(a)
           first == [left |-> {[id |-> g[2], len |-> oob[g].length] : g \in M},
                     pages |-> 0, at |-> <<>>]
           packed[i \in 0 .. PPS + 1] ==
               IF i = 0 THEN first ELSE AddPage(packed[i - 1])
           T == LayoutsOf(I)
<1>1. Layout(M) = packed[PPS + 1]
  BY DEF Layout
<1>2. first \in T /\ first.pages = 0
  <2>1. <<>> \in [{} -> Nat] /\ DOMAIN <<>> = {} /\ {} \in SUBSET Nat
    OBVIOUS
  <2>2. <<>> \in UNION {[D -> Nat] : D \in SUBSET Nat}
    BY <2>1
  <2>3. first = [left |-> I, pages |-> 0, at |-> <<>>]
    OBVIOUS
  <2>. HIDE DEF first
  <2>4. first \in LayoutStates(I) /\ I \ first.left = {} /\ first.at = <<>>
    <3>1. I \in SUBSET I /\ 0 \in Nat
      OBVIOUS
    <3>. QED
      BY <2>2, <2>3, <3>1 DEF LayoutStates
  <2>5. Places(I \ first.left, first.at, first.pages * GRAIN_PER_PAGE)
    BY <2>1, <2>4 DEF Places
  <2>6. Whole(I \ first.left, first.at)
    BY <2>4 DEF Whole
  <2>. QED
    BY <2>3, <2>4, <2>5, <2>6 DEF LayoutsOf
<1>3. ASSUME NEW a \in T PROVE AddPage(a) \in T
  <2>1. CASE a.left = {}
    BY <2>1
  <2>2. CASE a.left # {}
    <3>1. /\ a.left \subseteq I /\ a.pages \in Nat
          /\ Places(I \ a.left, a.at, a.pages * GRAIN_PER_PAGE)
          /\ Whole(I \ a.left, a.at)
      BY DEF LayoutsOf, LayoutStates
    <3>2. ItemSet(a.left)
      BY <3>1, FS_Subset DEF ItemSet
    <3> DEFINE page == Page(a)
               on == Shifted(a)
               P == I \ a.left
               Q == a.left \ page.left
    <3>3. page.left \subseteq a.left /\ Places(Q, page.at, page.used)
          /\ page.used \in 0 .. GRAIN_PER_PAGE
      <4>1. page \in PagesWith(a.left)
        BY <3>2, FillPageFacts
      <4>. HIDE DEF page
      <4>. QED
        BY <4>1 DEF PagesWith, PageStates
    <3>4. /\ P \subseteq [id : Nat, len : 1 .. GRAIN_PER_PAGE]
          /\ Q \subseteq [id : Nat, len : 1 .. GRAIN_PER_PAGE]
          /\ \A x \in P, y \in Q : x.id # y.id
      <4>1. I \subseteq [id : Nat, len : 1 .. GRAIN_PER_PAGE]
        BY DEF ItemSet
      <4>2. P \subseteq I /\ Q \subseteq I
        BY <3>1
      <4>3. ASSUME NEW x \in P, NEW y \in Q PROVE x.id # y.id
        <5>1. x # y /\ x \in I /\ y \in I
          BY <3>1
        <5>. QED
          BY <5>1 DEF ItemSet
      <4>. HIDE DEF P, Q
      <4>. QED
        BY <4>1, <4>2, <4>3
    <3>5. Places(Q, page.at, GRAIN_PER_PAGE)
      <4>1. \A x \in Q : page.at[x.id] \in Nat /\ x.len \in Nat
        <5>. HIDE DEF Q, page
        <5>. QED
          BY <3>3, <3>4, Geometry DEF Places
      <4>. HIDE DEF Q, page
      <4>2. \A x \in Q : page.at[x.id] + x.len <= GRAIN_PER_PAGE
        BY <3>3, <4>1, Geometry DEF Places
      <4>. QED
        BY <3>3, <4>2 DEF Places
    <3>6. /\ Places(P \union Q, on, (a.pages + 1) * GRAIN_PER_PAGE)
          /\ Whole(P \union Q, on)
      <4>1. on = Over([i \in DOMAIN page.at |->
                          a.pages * GRAIN_PER_PAGE + page.at[i]], a.at)
        OBVIOUS
      <4>2. Places(P, a.at, a.pages * GRAIN_PER_PAGE) /\ Whole(P, a.at)
        BY <3>1
      <4>. HIDE DEF P, Q, page, on
      <4>. QED
        BY <3>1, <3>4, <3>5, <4>1, <4>2, PlacesJoin
    <3> DEFINE new == Added(a)
    <3>7. AddPage(a) = new
      BY <2>2
    <3>8. /\ new = [left |-> page.left, pages |-> a.pages + 1, at |-> on]
          /\ \E f, g : on = Over(f, g)
      OBVIOUS
    <3>9. I \ page.left = P \union Q
      BY <3>1, <3>3
    <3>. HIDE DEF new, on, P, Q, page
    <3>10. on \in UNION {[D -> Nat] : D \in SUBSET Nat}
      <4>1. PICK f, g : on = Over(f, g)
        BY <3>8
      <4> DEFINE R == P \union Q
                 limit == (a.pages + 1) * GRAIN_PER_PAGE
      <4>2. Places(R, on, limit) /\ R \subseteq [id : Nat, len : 1 .. GRAIN_PER_PAGE]
        BY <3>4, <3>6
      <4>. HIDE DEF R, limit
      <4>. QED
        BY <4>1, <4>2, PlacesTyped
    <3>11. new \in LayoutStates(I)
      <4>1. page.left \in SUBSET I /\ a.pages + 1 \in Nat
        BY <3>1, <3>3
      <4>. QED
        BY <3>8, <3>10, <4>1 DEF LayoutStates
    <3>12. new.left = page.left /\ new.pages = a.pages + 1 /\ new.at = on
      BY <3>8
    <3>13. /\ Places(I \ new.left, new.at, new.pages * GRAIN_PER_PAGE)
           /\ Whole(I \ new.left, new.at)
      BY <3>6, <3>9, <3>12
    <3>. QED
      BY <3>7, <3>11, <3>13 DEF LayoutsOf
  <2>. QED
    BY <2>1, <2>2
<1>4. \A a : a.left # {} => AddPage(a).pages = a.pages + 1
  OBVIOUS
<1>5. \A a : a.left = {} => AddPage(a) = a
  OBVIOUS
<1>. HIDE DEF AddPage, first, T
<1> DEFINE F == [i \in 1 .. PPS + 1 |-> [a \in T |-> AddPage(a)]]
<1>6. F \in [1 .. PPS + 1 -> [T -> T]] /\ PPS + 1 \in Nat
  BY <1>3, Geometry
<1>7. \E g : g = [i \in 0 .. PPS + 1 |-> IF i = 0 THEN first ELSE AddPage(g[i - 1])]
  <2>. HIDE DEF F
  <2>1. PICK g \in [0 .. PPS + 1 -> T] :
            g[0] = first /\ \A i \in 1 .. PPS + 1 : g[i] = F[i][g[i - 1]]
    <3> DEFINE N == PPS + 1
    <3>1. N \in Nat /\ F \in [1 .. N -> [T -> T]] /\ first \in T
      BY <1>2, <1>6
    <3>. HIDE DEF N
    <3>2. \E g \in [0 .. N -> T] : g[0] = first /\ \A i \in 1 .. N : g[i] = F[i][g[i - 1]]
      BY <3>1, Iteration
    <3>. QED
      BY <3>2 DEF N
  <2>2. ASSUME NEW i \in 0 .. PPS + 1
        PROVE  g[i] = IF i = 0 THEN first ELSE AddPage(g[i - 1])
    <3>1. CASE i = 0
      BY <2>1, <3>1
    <3>2. CASE i # 0
      <4>1. i \in 1 .. PPS + 1 /\ i - 1 \in 0 .. PPS + 1
        BY <3>2, <1>6
      <4>2. g[i - 1] \in T /\ g[i] = F[i][g[i - 1]]
        BY <2>1, <4>1
      <4>3. F[i][g[i - 1]] = AddPage(g[i - 1])
        BY <4>1, <4>2 DEF F
      <4>. QED
        BY <3>2, <4>2, <4>3
    <3>. QED
      BY <3>1, <3>2
  <2>. QED
    BY <2>2
<1>8. packed = [i \in 0 .. PPS + 1 |-> IF i = 0 THEN first ELSE AddPage(packed[i - 1])]
  BY <1>7
<1>. HIDE DEF packed
<1>9. \A i \in 0 .. PPS + 1 :
          packed[i] \in T /\ (packed[i].left # {} => packed[i].pages = i)
  <2> DEFINE S == {i \in 0 .. PPS + 1 :
                      packed[i] \in T /\ (packed[i].left # {} => packed[i].pages = i)}
  <2>1. packed[0] = first
    BY <1>6, <1>8
  <2>2. 0 \in S
    BY <1>2, <1>6, <2>1
  <2>3. ASSUME NEW i \in 0 .. (PPS + 1) - 1, i \in S PROVE i + 1 \in S
    <3>1. i + 1 \in 0 .. PPS + 1 /\ i + 1 # 0 /\ (i + 1) - 1 = i
      BY <1>6
    <3>2. packed[i + 1] = AddPage(packed[i])
      BY <1>8, <3>1
    <3>3. packed[i + 1] \in T
      BY <1>3, <2>3, <3>2
    <3>4. packed[i + 1].left # {} => packed[i + 1].pages = i + 1
      <4>1. CASE packed[i].left = {}
        BY <1>5, <3>2, <4>1
      <4>2. CASE packed[i].left # {}
        BY <1>4, <2>3, <3>2, <4>2
      <4>. QED
        BY <4>1, <4>2
    <3>. QED
      BY <3>1, <3>3, <3>4
  <2>4. 0 .. PPS + 1 \subseteq S
    <3>. HIDE DEF S
    <3>. QED
      BY <1>6, <2>2, <2>3, Induction
  <2>. QED
    BY <2>4
<1>10. /\ packed[PPS + 1] \in T
       /\ packed[PPS + 1].left # {} => packed[PPS + 1].pages = PPS + 1
  BY <1>6, <1>9
<1>11. packed[PPS + 1].pages <= PPS => packed[PPS + 1].left = {}
  BY <1>10, Geometry
<1>. QED
  BY <1>1, <1>10, <1>11 DEF T

-----------------------------------------------------------------------------
(* The grains of values. *)

\* Its position in its page.
Pos(g) == g[2] % GRAIN_PER_PAGE

\* n grains from g on are in one page.
InPage(g, n) == n \in 1 .. GRAIN_PER_PAGE /\ Pos(g) + n <= GRAIN_PER_PAGE

\* The values that start at the grains A share no grain, and V has theirs.
Tiled(V, A, oobs) ==
    /\ A \subseteq Grains
    /\ \A g \in A : InPage(g, oobs[g].length)
    /\ \A g, h \in A :
          g # h => Span(g, oobs[g].length) \cap Span(h, oobs[h].length) = {}
    /\ V = UNION {Span(g, oobs[g].length) : g \in A}

Oobs == [lpa : Lpas, length : 0 .. GRAIN_PER_PAGE]

\* A grain is its superblock, its page and its position.
LEMMA GrainFacts ==
    ASSUME NEW g \in Grains
    PROVE  /\ g = <<g[1], g[2]>> /\ g[1] \in Sblks /\ g[2] \in Nat
           /\ Pos(g) \in 0 .. GRAIN_PER_PAGE - 1
           /\ PageOf(g) \in Pages /\ PageOf(g)[1] = g[1]
           /\ PageOf(g)[2] = g[2] \div GRAIN_PER_PAGE
           /\ g[2] = PageOf(g)[2] * GRAIN_PER_PAGE + Pos(g)
<1>1. g = <<g[1], g[2]>> /\ g[1] \in Sblks /\ g[2] \in 0 .. GrainsPerSblk - 1
  BY DEF Grains
<1>2. g[2] \in Nat /\ g[2] < PPS * GRAIN_PER_PAGE
  BY <1>1, Geometry
<1> DEFINE q == g[2] \div GRAIN_PER_PAGE
           r == g[2] % GRAIN_PER_PAGE
<1>3. r \in 0 .. GRAIN_PER_PAGE - 1 /\ q \in Int /\ g[2] = GRAIN_PER_PAGE * q + r
  <2> DEFINE a == g[2]
  <2>1. a \in Int
    BY <1>2
  <2>. HIDE DEF a
  <2>2. /\ a % GRAIN_PER_PAGE \in 0 .. GRAIN_PER_PAGE - 1
        /\ a \div GRAIN_PER_PAGE \in Int
        /\ a = GRAIN_PER_PAGE * (a \div GRAIN_PER_PAGE) + (a % GRAIN_PER_PAGE)
    BY <2>1, Geometry, Division
  <2>. QED
    BY <2>2 DEF a
<1>. HIDE DEF q, r
<1>4. GRAIN_PER_PAGE * q < PPS * GRAIN_PER_PAGE
  <2> DEFINE b == GRAIN_PER_PAGE * q
             c == PPS * GRAIN_PER_PAGE
  <2>1. b \in Int /\ c \in Int /\ g[2] = b + r /\ g[2] < c
    BY <1>2, <1>3, Geometry
  <2>. HIDE DEF b, c
  <2>2. b < c
    BY <1>3, <2>1, Geometry
  <2>. QED
    BY <2>2 DEF b, c
<1>5. q < PPS
  <2>1. q >= PPS => GRAIN_PER_PAGE * q >= PPS * GRAIN_PER_PAGE
    BY <1>3, Geometry, SMT
  <2> DEFINE b == GRAIN_PER_PAGE * q
             c == PPS * GRAIN_PER_PAGE
  <2>2. b \in Int /\ c \in Int /\ b < c /\ (q >= PPS => b >= c)
    BY <1>3, <1>4, <2>1, Geometry
  <2>. HIDE DEF b, c
  <2>. QED
    BY <1>3, <2>2, Geometry
<1>6. q >= 0
  <2>1. q <= -1 => GRAIN_PER_PAGE * q <= -GRAIN_PER_PAGE
    BY <1>3, Geometry, SMT
  <2> DEFINE b == GRAIN_PER_PAGE * q
  <2>2. b \in Int /\ g[2] = b + r /\ (q <= -1 => b <= -GRAIN_PER_PAGE)
    BY <1>3, <2>1, Geometry
  <2>. HIDE DEF b
  <2>. QED
    BY <1>2, <1>3, <2>2, Geometry
<1>7. GRAIN_PER_PAGE * q = q * GRAIN_PER_PAGE
  BY <1>3, Geometry
<1>8. q \in 0 .. PPS - 1
  BY <1>3, <1>5, <1>6, Geometry
<1>9. PageOf(g) = <<g[1], q>> /\ Pos(g) = r
  BY DEF PageOf, Pos, q, r
<1>10. PageOf(g) \in Pages
  BY <1>1, <1>8, <1>9 DEF Pages
<1>. QED
  BY <1>1, <1>2, <1>3, <1>7, <1>9, <1>10 DEF q

\* The grain at position i of page p.
LEMMA GrainAt ==
    ASSUME NEW p \in Pages, NEW i \in 0 .. GRAIN_PER_PAGE - 1,
           NEW g, g = <<p[1], p[2] * GRAIN_PER_PAGE + i>>
    PROVE  g \in Grains /\ PageOf(g) = p /\ Pos(g) = i
<1>1. p = <<p[1], p[2]>> /\ p[1] \in Sblks /\ p[2] \in 0 .. PPS - 1
  BY DEF Pages
<1>2. p[2] \in Nat
  BY <1>1
<1> DEFINE a == p[2] * GRAIN_PER_PAGE
           c == PPS * GRAIN_PER_PAGE
<1>3. /\ a + i \in Nat /\ (a + i) % GRAIN_PER_PAGE = i
      /\ (a + i) \div GRAIN_PER_PAGE = p[2]
  BY <1>2, PositionFacts
<1>4. a + GRAIN_PER_PAGE <= c
  <2> DEFINE n == p[2]
  <2>1. n \in Nat /\ n + 1 <= PPS
    BY <1>1, Geometry
  <2>. HIDE DEF n
  <2>2. (n + 1) * GRAIN_PER_PAGE <= PPS * GRAIN_PER_PAGE
    BY <2>1, Geometry, SMT
  <2>3. (n + 1) * GRAIN_PER_PAGE = n * GRAIN_PER_PAGE + GRAIN_PER_PAGE
    BY <2>1, Geometry, SMT
  <2>4. n * GRAIN_PER_PAGE + GRAIN_PER_PAGE <= PPS * GRAIN_PER_PAGE
    BY <2>2, <2>3, Zenon
  <2>. QED
    BY <2>4 DEF n
<1>5. a \in Nat /\ c \in Nat /\ c = GrainsPerSblk
  BY <1>2, Geometry
<1>6. g = <<p[1], a + i>>
  OBVIOUS
<1>. HIDE DEF a, c
<1>7. a + i \in 0 .. GrainsPerSblk - 1
  BY <1>3, <1>4, <1>5, Geometry
<1>8. g \in Grains
  BY <1>1, <1>6, <1>7 DEF Grains
<1>. QED
  BY <1>1, <1>3, <1>6, <1>8 DEF PageOf, Pos

\* The grains of a value are in its page, one after the other.
LEMMA SpanFacts ==
    ASSUME NEW g \in Grains, NEW n, InPage(g, n), NEW x
    PROVE  x \in Span(g, n) <=>
               /\ x \in Grains /\ PageOf(x) = PageOf(g)
               /\ Pos(g) <= Pos(x) /\ Pos(x) < Pos(g) + n
<1>1. /\ g = <<g[1], g[2]>> /\ g[2] \in Nat /\ n \in Nat
      /\ Pos(g) \in 0 .. GRAIN_PER_PAGE - 1 /\ Pos(g) + n <= GRAIN_PER_PAGE
      /\ PageOf(g) \in Pages /\ PageOf(g)[1] = g[1] /\ PageOf(g)[2] \in Nat
      /\ g[2] = PageOf(g)[2] * GRAIN_PER_PAGE + Pos(g)
  <2>1. PageOf(g)[2] \in Nat
    BY GrainFacts DEF Pages
  <2>. QED
    BY <2>1, GrainFacts, Geometry DEF InPage
<1> DEFINE a == PageOf(g)[2] * GRAIN_PER_PAGE
<1>2. a \in Nat /\ g[2] = a + Pos(g)
  BY <1>1, Geometry
<1>3. ASSUME x \in Span(g, n)
      PROVE  /\ x \in Grains /\ PageOf(x) = PageOf(g)
             /\ Pos(g) <= Pos(x) /\ Pos(x) < Pos(g) + n
  <2>1. PICK i \in 0 .. n - 1 : x = <<g[1], g[2] + i>>
    BY <1>3 DEF Span
  <2> DEFINE j == Pos(g) + i
  <2>2. j \in 0 .. GRAIN_PER_PAGE - 1
    BY <1>1, Geometry
  <2>3. x = <<PageOf(g)[1], a + j>>
    <3>. HIDE DEF a
    <3>1. (a + Pos(g)) + i = a + j
      BY <1>1, <1>2
    <3>. QED
      BY <1>1, <1>2, <2>1, <3>1
  <2>. HIDE DEF j
  <2>4. x \in Grains /\ PageOf(x) = PageOf(g) /\ Pos(x) = j
    BY <1>1, <2>2, <2>3, GrainAt
  <2>. QED
    BY <1>1, <2>4 DEF j
<1>4. ASSUME x \in Grains, PageOf(x) = PageOf(g),
             Pos(g) <= Pos(x), Pos(x) < Pos(g) + n
      PROVE  x \in Span(g, n)
  <2>1. /\ x = <<x[1], x[2]>> /\ x[1] = g[1] /\ Pos(x) \in Nat
        /\ x[2] = a + Pos(x)
    BY <1>1, <1>4, GrainFacts, Geometry
  <2> DEFINE i == Pos(x) - Pos(g)
  <2>2. i \in 0 .. n - 1
    BY <1>1, <1>4, <2>1, Geometry
  <2>3. x[2] = g[2] + i
    <3>. HIDE DEF a
    <3>. QED
      BY <1>1, <1>2, <2>1
  <2>4. x = <<g[1], g[2] + i>>
    BY <2>1, <2>3
  <2>. QED
    BY <2>2, <2>4 DEF Span
<1>. QED
  BY <1>3, <1>4

-----------------------------------------------------------------------------
(* What GC finds. *)

\* Grains of one page are told apart by their positions.
LEMMA SamePosition ==
    ASSUME NEW g \in Grains, NEW h \in Grains, PageOf(g) = PageOf(h), Pos(g) = Pos(h)
    PROVE  g = h
<1>1. /\ g = <<g[1], g[2]>> /\ h = <<h[1], h[2]>> /\ g[1] = h[1]
      /\ g[2] = PageOf(g)[2] * GRAIN_PER_PAGE + Pos(g)
      /\ h[2] = PageOf(h)[2] * GRAIN_PER_PAGE + Pos(h)
  BY GrainFacts
<1>. QED
  BY <1>1

\* The first grain of a value is one of its grains.
LEMMA FirstInSpan ==
    ASSUME NEW g \in Grains, NEW n, InPage(g, n)
    PROVE  g \in Span(g, n)
<1>1. Pos(g) \in Nat /\ n \in Nat /\ n > 0
  BY GrainFacts, Geometry DEF InPage
<1>. QED
  BY <1>1, SpanFacts

\* A value that starts within another is that value.
LEMMA TiledApart ==
    ASSUME NEW V, NEW A, NEW oobs, Tiled(V, A, oobs), NEW g \in A, NEW h \in A,
           PageOf(g) = PageOf(h), Pos(g) <= Pos(h),
           Pos(h) < Pos(g) + oobs[g].length
    PROVE  g = h
<1>1. g \in Grains /\ InPage(g, oobs[g].length) /\ h \in Grains
      /\ InPage(h, oobs[h].length)
  BY DEF Tiled
<1>2. h \in Span(g, oobs[g].length)
  BY <1>1, SpanFacts
<1>3. h \in Span(h, oobs[h].length)
  BY <1>1, FirstInSpan
<1>. QED
  BY <1>2, <1>3 DEF Tiled

\* GC's scan of a page stops at the first grains of its values and at no other.
LEMMA FirstGrainsFacts ==
    ASSUME NEW A, Tiled(valid, A, oob), oob \in [Grains -> Oobs],
           NEW v \in Sblks, NEW o \in 0 .. PPS - 1
    PROVE  FirstGrains(v, o) = {g \in A : PageOf(g) = <<v, o>>}
<1> DEFINE At(j) == <<v, o * GRAIN_PER_PAGE + j>>
           Scan(s, j) == IF j < s.skip \/ At(j) \notin valid THEN s
                         ELSE [skip |-> j + oob[At(j)].length,
                               found |-> s.found \union {At(j)}]
           first == [skip |-> 0, found |-> {}]
           scan[j \in 0 .. GRAIN_PER_PAGE] ==
               IF j = 0 THEN first ELSE Scan(scan[j - 1], j - 1)
           T == [skip : Nat, found : SUBSET Grains]
           Here == {g \in A : PageOf(g) = <<v, o>>}
<1>1. FirstGrains(v, o) = scan[GRAIN_PER_PAGE].found
  BY DEF FirstGrains
<1>2. <<v, o>> \in Pages
  BY DEF Pages
<1>3. ASSUME NEW j \in 0 .. GRAIN_PER_PAGE - 1
      PROVE  /\ At(j) \in Grains /\ PageOf(At(j)) = <<v, o>> /\ Pos(At(j)) = j
             /\ oob[At(j)].length \in Nat
  <2> DEFINE p == <<v, o>>
  <2>1. At(j) = <<p[1], p[2] * GRAIN_PER_PAGE + j>> /\ p \in Pages
    BY <1>2
  <2>. HIDE DEF p, At
  <2>2. At(j) \in Grains /\ PageOf(At(j)) = p /\ Pos(At(j)) = j
    BY <2>1, GrainAt
  <2>3. oob[At(j)] \in Oobs
    BY <2>2
  <2>4. oob[At(j)].length \in Nat
    BY <2>3, Geometry DEF Oobs
  <2>. QED
    BY <2>2, <2>4 DEF p
<1>4. ASSUME NEW g \in Here
      PROVE  /\ g \in A /\ g \in Grains /\ g = At(Pos(g))
             /\ Pos(g) \in 0 .. GRAIN_PER_PAGE - 1
             /\ oob[g].length \in Nat /\ oob[g].length > 0
             /\ InPage(g, oob[g].length) /\ g \in valid
  <2>1. g \in A /\ g \in Grains /\ PageOf(g) = <<v, o>> /\ InPage(g, oob[g].length)
    BY DEF Tiled
  <2>2. /\ g = <<g[1], g[2]>> /\ g[1] = v /\ g[2] = o * GRAIN_PER_PAGE + Pos(g)
        /\ Pos(g) \in 0 .. GRAIN_PER_PAGE - 1
    BY <2>1, GrainFacts
  <2>3. oob[g].length \in Nat /\ oob[g].length > 0
    BY <2>1, Geometry DEF InPage
  <2>4. g \in valid
    BY <2>1, FirstInSpan DEF Tiled
  <2>. QED
    BY <2>1, <2>2, <2>3, <2>4
<1>. HIDE DEF At
<1>5. ASSUME NEW s \in T, NEW j \in 0 .. GRAIN_PER_PAGE - 1 PROVE Scan(s, j) \in T
  <2>1. s.skip \in Nat /\ s.found \in SUBSET Grains /\ j \in Nat
    BY Geometry
  <2>2. j + oob[At(j)].length \in Nat /\ s.found \union {At(j)} \in SUBSET Grains
    BY <1>3, <2>1
  <2>. QED
    BY <2>2
<1>6. first \in T
  OBVIOUS
<1> DEFINE F == [i \in 1 .. GRAIN_PER_PAGE |-> [s \in T |-> Scan(s, i - 1)]]
<1>7. \E g : g = [j \in 0 .. GRAIN_PER_PAGE |->
                     IF j = 0 THEN first ELSE Scan(g[j - 1], j - 1)]
  <2>. HIDE DEF Scan, T, first
  <2>1. \A i \in 1 .. GRAIN_PER_PAGE : i - 1 \in 0 .. GRAIN_PER_PAGE - 1
    BY Geometry
  <2>2. F \in [1 .. GRAIN_PER_PAGE -> [T -> T]] /\ GRAIN_PER_PAGE \in Nat
    BY <1>5, <2>1, Geometry
  <2>. HIDE DEF F
  <2>3. PICK g \in [0 .. GRAIN_PER_PAGE -> T] :
            g[0] = first /\ \A i \in 1 .. GRAIN_PER_PAGE : g[i] = F[i][g[i - 1]]
    <3>1. first \in T
      BY <1>6
    <3>2. PICK U, a, H : U = T /\ a = first /\ H = F
      OBVIOUS
    <3>3. a \in U /\ H \in [1 .. GRAIN_PER_PAGE -> [U -> U]] /\ GRAIN_PER_PAGE \in Nat
      BY <2>2, <3>1, <3>2
    <3>4. \E g \in [0 .. GRAIN_PER_PAGE -> U] :
              g[0] = a /\ \A i \in 1 .. GRAIN_PER_PAGE : g[i] = H[i][g[i - 1]]
      BY ONLY <3>3, Iteration
    <3>. QED
      BY <3>2, <3>4
  <2>4. ASSUME NEW i \in 0 .. GRAIN_PER_PAGE
        PROVE  g[i] = IF i = 0 THEN first ELSE Scan(g[i - 1], i - 1)
    <3>1. CASE i = 0
      BY <2>3, <3>1
    <3>2. CASE i # 0
      <4>1. i \in 1 .. GRAIN_PER_PAGE /\ i - 1 \in 0 .. GRAIN_PER_PAGE
        BY <3>2, Geometry
      <4>2. g[i - 1] \in T /\ g[i] = F[i][g[i - 1]]
        BY <2>3, <4>1
      <4>3. F[i][g[i - 1]] = Scan(g[i - 1], i - 1)
        BY <4>1, <4>2 DEF F
      <4>. QED
        BY <3>2, <4>2, <4>3
    <3>. QED
      BY <3>1, <3>2
  <2>. QED
    BY <2>4
<1>8. scan = [j \in 0 .. GRAIN_PER_PAGE |->
                 IF j = 0 THEN first ELSE Scan(scan[j - 1], j - 1)]
  <2>. HIDE DEF Scan, first
  <2>. QED
    BY <1>7
<1>. HIDE DEF scan
\* After j grains: the values that start at them are found, and skip is the
\* end of the last if that is not behind.
<1> DEFINE End(g) == Pos(g) + oob[g].length
           Inv(s, j) ==
               /\ s \in T
               /\ s.found = {g \in Here : Pos(g) < j}
               /\ s.skip > j => \E g \in Here : Pos(g) < j /\ End(g) = s.skip
               /\ \A g \in Here : Pos(g) < j => End(g) <= s.skip \/ End(g) <= j
<1>9. ASSUME NEW j \in 0 .. GRAIN_PER_PAGE - 1, NEW s, Inv(s, j)
      PROVE  Inv(Scan(s, j), j + 1)
  <2>1. s.skip \in Nat /\ j \in Nat /\ Scan(s, j) \in T
    BY <1>5, <1>9, Geometry
  <2>2. \A g \in Here : Pos(g) \in Nat /\ End(g) \in Nat /\ Pos(g) < End(g)
    BY <1>4, Geometry
  <2>3. ASSUME At(j) \notin Here PROVE {g \in Here : Pos(g) < j + 1} = {g \in Here : Pos(g) < j}
    <3>1. \A g \in Here : Pos(g) # j
      BY <1>4, <2>3
    <3>. HIDE DEF Here
    <3>. QED
      BY <2>1, <2>2, <3>1
  <2>4. CASE j < s.skip
    <3>1. PICK g \in Here : Pos(g) < j /\ End(g) = s.skip
      BY <1>9, <2>4
    <3>2. At(j) \notin Here
      <4>1. ASSUME At(j) \in Here PROVE FALSE
        <5>1. /\ g \in A /\ At(j) \in A /\ PageOf(g) = PageOf(At(j))
              /\ Pos(At(j)) = j
          BY <1>3, <4>1
        <5>2. Pos(g) \in Nat /\ Pos(g) <= Pos(At(j)) /\ Pos(At(j)) < Pos(g) + oob[g].length
          BY <2>1, <2>2, <2>4, <3>1, <5>1
        <5>3. g = At(j)
          <6>. HIDE DEF Here, T, Scan
          <6>. QED
            BY <5>1, <5>2, TiledApart
        <5>. QED
          BY <2>1, <2>2, <3>1, <5>1, <5>3
      <4>. QED
        BY <4>1
    <3>3. Scan(s, j) = s
      BY <2>4
    <3>4. s.found = {h \in Here : Pos(h) < j + 1}
      BY <1>9, <2>3, <3>2
    <3>. HIDE DEF Here, Scan, T, End
    <3>5. \A h \in Here : Pos(h) < j + 1 => End(h) <= s.skip \/ End(h) <= j + 1
      <4>1. \A h \in Here : Pos(h) < j + 1 => Pos(h) < j
        BY <2>3, <3>2
      <4>. QED
        BY <1>9, <2>1, <2>2, <4>1
    <3>6. s.skip > j + 1 => \E h \in Here : Pos(h) < j + 1 /\ End(h) = s.skip
      BY <2>1, <2>2, <3>1
    <3>. QED
      BY <2>1, <3>3, <3>4, <3>5, <3>6
  <2>5. CASE ~(j < s.skip) /\ At(j) \notin valid
    <3>1. At(j) \notin Here
      BY <1>4, <2>5
    <3>2. Scan(s, j) = s
      BY <2>5
    <3>3. s.found = {h \in Here : Pos(h) < j + 1}
      BY <1>9, <2>3, <3>1
    <3>. HIDE DEF Here, Scan, T, End
    <3>4. \A h \in Here : Pos(h) < j + 1 => End(h) <= s.skip \/ End(h) <= j + 1
      <4>1. \A h \in Here : Pos(h) < j + 1 => Pos(h) < j
        BY <2>3, <3>1
      <4>. QED
        BY <1>9, <2>1, <2>2, <4>1
    <3>5. ~(s.skip > j + 1)
      BY <2>1, <2>5
    <3>. QED
      BY <2>1, <3>2, <3>3, <3>4, <3>5
  <2>6. CASE ~(j < s.skip) /\ At(j) \in valid
    <3>1. At(j) \in Here
      <4>1. PICK g \in A : At(j) \in Span(g, oob[g].length)
        BY <2>6 DEF Tiled
      <4>2. g \in Grains /\ InPage(g, oob[g].length)
        BY DEF Tiled
      <4>3. /\ PageOf(At(j)) = PageOf(g) /\ Pos(g) <= Pos(At(j))
            /\ Pos(At(j)) < Pos(g) + oob[g].length
        BY <4>1, <4>2, SpanFacts
      <4>4. g \in Here /\ Pos(g) <= j /\ j < End(g)
        BY <1>3, <4>3
      <4>5. ~(Pos(g) < j)
        BY <1>9, <2>1, <2>2, <2>6, <4>4
      <4>6. Pos(g) = j
        BY <2>1, <2>2, <4>4, <4>5
      <4>. QED
        BY <1>4, <4>4, <4>6
    <3>2. Pos(At(j)) = j
      BY <1>3
    <3> DEFINE new == [skip |-> j + oob[At(j)].length, found |-> s.found \union {At(j)}]
    <3>3. Scan(s, j) = new
      BY <2>6
    <3>4. new.skip = End(At(j)) /\ new.found = s.found \union {At(j)}
      BY <3>2
    <3>5. \A g \in Here : Pos(g) = j => g = At(j)
      BY <1>4
    <3>. HIDE DEF new, Here, Scan, T, End
    <3>6. {g \in Here : Pos(g) < j + 1} = {g \in Here : Pos(g) < j} \union {At(j)}
      BY <2>1, <2>2, <3>1, <3>2, <3>5
    <3>7. new.found = {g \in Here : Pos(g) < j + 1}
      BY <1>9, <3>4, <3>6
    <3>8. \A h \in Here : Pos(h) < j + 1 => End(h) <= new.skip \/ End(h) <= j + 1
      <4>1. ASSUME NEW h \in Here, Pos(h) < j + 1
            PROVE  End(h) <= new.skip \/ End(h) <= j + 1
        <5>1. CASE h = At(j)
          BY <2>2, <3>4, <5>1
        <5>2. CASE h # At(j)
          <6>1. Pos(h) < j
            BY <2>1, <2>2, <3>5, <4>1, <5>2
          <6>2. End(h) <= s.skip \/ End(h) <= j
            BY <1>9, <6>1
          <6>. QED
            BY <2>1, <2>2, <2>6, <6>2
        <5>. QED
          BY <5>1, <5>2
      <4>. QED
        BY <4>1
    <3>9. \E h \in Here : Pos(h) < j + 1 /\ End(h) = new.skip
      BY <2>1, <3>1, <3>2, <3>4
    <3>. QED
      BY <2>1, <3>3, <3>7, <3>8, <3>9
  <2>. QED
    BY <2>4, <2>5, <2>6
<1>10. Inv(first, 0)
  <2>1. \A g \in Here : ~(Pos(g) < 0)
    BY <1>4, Geometry
  <2>. HIDE DEF Here, End
  <2>2. first.found = {} /\ first.skip = 0 /\ ~(0 > 0)
    OBVIOUS
  <2>. HIDE DEF first
  <2>. QED
    BY <1>6, <2>1, <2>2
<1> DEFINE S == {j \in 0 .. GRAIN_PER_PAGE : Inv(scan[j], j)}
<1>11. 0 .. GRAIN_PER_PAGE \subseteq S
  <2>. HIDE DEF Inv, Scan, first
  <2>1. 0 \in S
    BY <1>8, <1>10, Geometry
  <2>2. ASSUME NEW j \in 0 .. GRAIN_PER_PAGE - 1, j \in S PROVE j + 1 \in S
    <3>1. j + 1 \in 0 .. GRAIN_PER_PAGE /\ j + 1 # 0 /\ (j + 1) - 1 = j
      BY Geometry
    <3>2. scan[j + 1] = Scan(scan[j], j)
      BY <1>8, <3>1
    <3>3. Inv(scan[j + 1], j + 1)
      BY <1>9, <2>2, <3>2
    <3>. QED
      BY <3>1, <3>3
  <2>. HIDE DEF S
  <2>. QED
    BY <2>1, <2>2, Geometry, Induction
<1>12. scan[GRAIN_PER_PAGE].found = {g \in Here : Pos(g) < GRAIN_PER_PAGE}
  <2>1. GRAIN_PER_PAGE \in S
    <3>. HIDE DEF S
    <3>. QED
      BY <1>11, Geometry
  <2>. QED
    BY <2>1
<1>13. {g \in Here : Pos(g) < GRAIN_PER_PAGE} = Here
  BY <1>4, Geometry
<1>. QED
  BY <1>1, <1>12, <1>13

(* The inductive invariant.  Its predicates have what they speak of as     *)
(* parameters: between GC and the page placed after it no variable has the *)
(* values.                                                                 *)

Mapping(tp) == {l \in Lpas : tp[l] # NoGrain}

\* The first grains of the values: mapped, or of an entry not mapped yet.
Firsts(tp, ents, pend) ==
    {tp[l] : l \in Mapping(tp)} \union {ents[k] : k \in pend}

\* No two owners have the same value.
HeldOnce(tp, ents, pend) ==
    /\ \A l, m \in Mapping(tp) : tp[l] = tp[m] => l = m
    /\ \A j, k \in pend : ents[j] = ents[k] => j = k
    /\ \A l \in Mapping(tp), k \in pend : tp[l] # ents[k]

Cells == (Keys \X Vals) \union {NoCell}

FlashTypes(wp, oobs, cells, tp) ==
    /\ wp \in [Sblks -> 0 .. PPS]
    /\ oobs \in [Grains -> Oobs]
    /\ cells \in [Grains -> Cells]
    /\ tp \in [Lpas -> Grains \union {NoGrain}]

Exact(V, cnt) ==
    /\ cnt \in [Sblks -> 0 .. GrainsPerSblk]
    /\ \A b \in Sblks : cnt[b] = Cardinality({g \in V : g[1] = b})

\* The OOB and the page of a mapped value name its entry and its key; rk is
\* real_keys.
Named(oobs, cells, tp, rk) ==
    \A l \in Mapping(tp) : oobs[tp[l]].lpa = l /\ cells[tp[l]][1] = rk[l]

\* The page of an entry not mapped yet has its value; buf is the write buffer.
Written(cells, ents, pend, buf) == \A k \in pend : cells[ents[k]] = <<k, buf[k]>>

Flash(wp, V, cnt, oobs, cells, tp, ents, pend, rk, buf) ==
    /\ FlashTypes(wp, oobs, cells, tp)
    /\ HeldOnce(tp, ents, pend)
    /\ Tiled(V, Firsts(tp, ents, pend), oobs)
    /\ \A g \in V : Programmed(wp, PageOf(g))
    /\ Exact(V, cnt)
    /\ Named(oobs, cells, tp, rk)
    /\ Written(cells, ents, pend, buf)

FlashOK == Flash(wp_offt, valid, valid_cnt, oob, cell, pte_ppa, ent_ppa,
                 Pending, real_keys, wb)

\* The rest of the types, and what the phase of a flush says.
Phases ==
    /\ DOMAIN wb \subseteq Keys /\ IsFiniteSet(DOMAIN wb)
    /\ \A k \in DOMAIN wb : wb[k] \in Vals
    /\ pc \in {"idle", "assign", "map"}
    /\ todo \subseteq DOMAIN wb
    /\ \A k \in DOMAIN ent_ppa : ent_ppa[k] \in Grains
    /\ pc = "idle" => todo = {} /\ DOMAIN ent_ppa = {} /\ fl = <<>>
    /\ pc = "assign" => DOMAIN ent_ppa = DOMAIN wb \ todo
    /\ pc = "map" => DOMAIN ent_ppa = DOMAIN wb
    /\ pc # "map" => hash_table = {}
    /\ hash_table \subseteq Grains \X Lpas
    /\ pte_fp \in [Lpas -> Nat]
    /\ real_keys \in [Lpas -> Keys \union {NoKey}]
    /\ max_try \in Tries
    /\ gc_bucket \in {"null", "freed", "freed twice"}
    /\ failed \in {"none", "no superblock to reclaim", "get_page_num"}

\* The flush list has the pages between the pointers of the NAND and of the
\* allocator, in order.
Listed(wp, lw, list) ==
    /\ lw \in [Sblks -> 0 .. PPS]
    /\ list \in Seq(Pages)
    /\ \A b \in Sblks : lw[b] <= wp[b]
    /\ \A p \in Pages : (lw[p[1]] <= p[2] /\ p[2] < wp[p[1]])
                            <=> \E i \in DOMAIN list : list[i] = p
    /\ \A i, j \in DOMAIN list :
          i < j /\ list[i][1] = list[j][1] => list[i][2] < list[j][2]

\* The list has the page of every entry placed in this flush.
ListOK ==
    /\ Listed(wp_offt, line_wp, fl)
    /\ \A k \in DOMAIN ent_ppa : \E i \in DOMAIN fl : fl[i] = PageOf(ent_ppa[k])
    /\ nand_err = FALSE

\* The roles of the superblocks, as in TransArea.
Roles ==
    /\ sblk_rsv \in Sblks /\ d_active \in Sblks \union {NoSblk}
    /\ active_sblk \in Sblks \union {NoSblk}
    /\ wp_offt[sblk_rsv] = 0 /\ d_active # sblk_rsv
    /\ free_sblk_cnt = Cardinality({b \in Sblks : wp_offt[b] = 0})
    /\ \A b \in Sblks : b # d_active => wp_offt[b] \in {0, PPS}
    /\ d_active = NoSblk => \A b \in Sblks : wp_offt[b] = 0
    /\ d_active # NoSblk => wp_offt[d_active] > 0
    /\ ~GcNeeded(free_sblk_cnt) => active_sblk = d_active

IInv == Phases /\ Roles /\ ListOK /\ FlashOK

\* No two keys have one fingerprint.
FpsDiffer == \A j, k \in Keys : FpOf[j] = FpOf[k] => j = k

\* Before place c of a key's path, where the key is, no entry is initial or has
\* its fingerprint.
Found(tp, fp, rk, k, c) ==
    /\ tp[Lpa(k, c)] # NoGrain /\ rk[Lpa(k, c)] = k
    /\ \A i \in 0 .. c - 1 : tp[Lpa(k, i)] # NoGrain /\ fp[Lpa(k, i)] # FpOf[k]

\* Every entry is where its key's probes find it.
Reached ==
    \A l \in Mapped :
        /\ real_keys[l] \in Keys
        /\ pte_fp[l] = FpOf[real_keys[l]]
        /\ \E c \in 0 .. max_try :
              /\ l = Lpa(real_keys[l], c)
              /\ Found(pte_ppa, pte_fp, real_keys, real_keys[l], c)

\* The keys of this flush that have been mapped have their new value, and keep
\* the entry.
Flushed ==
    pc = "map" =>
        /\ \A k \in DOMAIN wb \ todo :
              \E l \in Mapped : real_keys[l] = k /\ cell[pte_ppa[l]] = <<k, wb[k]>>
        /\ \A l \in Lpas : d_htable_find(pte_ppa[l], l) => real_keys[l] \notin todo

ProbeOK == Reached /\ Flushed

-----------------------------------------------------------------------------
(* Spans and counts. *)

LEMMA NoGrainFacts == NoGrain \notin Grains /\ \A l \in Lpas : l \in Nat
BY SblksFacts, FlushAssumption DEF NoGrain, Grains, Lpas

\* A value of len grains at offset a of superblock b, within one of the first m
\* pages.
LEMMA SpotFacts ==
    ASSUME NEW b \in Sblks, NEW a \in Nat, NEW len \in 1 .. GRAIN_PER_PAGE,
           NEW m \in 0 .. PPS, a + len <= m * GRAIN_PER_PAGE,
           (a % GRAIN_PER_PAGE) + len <= GRAIN_PER_PAGE,
           NEW g, g = <<b, a>>
    PROVE  /\ g \in Grains /\ InPage(g, len) /\ PageOf(g)[1] = b
           /\ PageOf(g)[2] < m
<1>1. m * GRAIN_PER_PAGE <= PPS * GRAIN_PER_PAGE /\ m * GRAIN_PER_PAGE \in Nat
  BY Geometry, SMT
<1>2. a < m * GRAIN_PER_PAGE /\ a \in 0 .. GrainsPerSblk - 1
  <2> DEFINE c == m * GRAIN_PER_PAGE
  <2>1. c \in Nat /\ c <= GrainsPerSblk /\ a + len <= c
    BY <1>1, Geometry
  <2>. HIDE DEF c
  <2>2. a < c /\ a \in 0 .. GrainsPerSblk - 1
    BY <2>1, Geometry
  <2>. QED
    BY <2>2 DEF c
<1>3. g \in Grains /\ Pos(g) = a % GRAIN_PER_PAGE /\ g[1] = b /\ g[2] = a
  BY <1>2 DEF Grains, Pos
<1>4. InPage(g, len)
  BY <1>3 DEF InPage
<1> DEFINE q == PageOf(g)[2]
<1>5. /\ q \in Nat /\ PageOf(g)[1] = b /\ Pos(g) \in 0 .. GRAIN_PER_PAGE - 1
      /\ a = q * GRAIN_PER_PAGE + Pos(g)
  <2>1. PageOf(g) \in Pages
    BY <1>3, GrainFacts
  <2>2. q \in Nat
    BY <2>1, PartitionAssumption DEF Pages
  <2>. QED
    BY <1>3, <2>2, GrainFacts
<1>. HIDE DEF q
<1>6. q * GRAIN_PER_PAGE < m * GRAIN_PER_PAGE
  <2> DEFINE c == m * GRAIN_PER_PAGE
             d == q * GRAIN_PER_PAGE
  <2>1. c \in Nat /\ d \in Nat /\ a < c /\ a = d + Pos(g)
    BY <1>1, <1>2, <1>5, Geometry
  <2>. HIDE DEF c, d
  <2>2. d < c
    BY <1>5, <2>1, Geometry
  <2>. QED
    BY <2>2 DEF c, d
<1>7. q < m
  <2>1. q >= m => q * GRAIN_PER_PAGE >= m * GRAIN_PER_PAGE
    BY <1>5, Geometry, SMT
  <2> DEFINE c == m * GRAIN_PER_PAGE
             d == q * GRAIN_PER_PAGE
  <2>2. c \in Nat /\ d \in Nat /\ d < c /\ (q >= m => d >= c)
    BY <1>1, <1>5, <1>6, <2>1, Geometry
  <2>. HIDE DEF c, d
  <2>3. ~(q >= m)
    BY <2>2
  <2>. QED
    BY <1>5, <2>3
<1>. QED
  BY <1>3, <1>4, <1>5, <1>7 DEF q

\* Values one behind the other share no grain.
LEMMA SpansApart ==
    ASSUME NEW g, NEW h, NEW m \in Nat, NEW n \in Nat,
           g[2] \in Nat, h[2] \in Nat, g[2] + m <= h[2]
    PROVE  Span(g, m) \cap Span(h, n) = {}
<1>1. ASSUME NEW x, x \in Span(g, m), x \in Span(h, n) PROVE FALSE
  <2>1. PICK i \in 0 .. m - 1 : x = <<g[1], g[2] + i>>
    BY <1>1 DEF Span
  <2>2. PICK j \in 0 .. n - 1 : x = <<h[1], h[2] + j>>
    BY <1>1 DEF Span
  <2>3. g[2] + i = h[2] + j
    BY <2>1, <2>2
  <2>. QED
    BY <2>3
<1>. QED
  BY <1>1

\* The grains of one superblock among V are finitely many, at most all of its.
LEMMA InSblk ==
    ASSUME NEW V, V \subseteq Grains, NEW b \in Sblks
    PROVE  /\ IsFiniteSet({g \in V : g[1] = b})
           /\ Cardinality({g \in V : g[1] = b}) \in 0 .. GrainsPerSblk
<1> DEFINE S == {b}
           T == 0 .. GrainsPerSblk - 1
           U == {g \in V : g[1] = b}
<1>1. IsFiniteSet(S) /\ Cardinality(S) = 1 /\ IsFiniteSet(T) /\ Cardinality(T) = GrainsPerSblk
  <2> PICK n \in Nat : n = GrainsPerSblk
    BY Geometry
  <2>1. T = 0 .. n - 1 /\ n = GrainsPerSblk /\ 0 \in Int /\ n - 1 \in Int
    OBVIOUS
  <2>2. /\ IsFiniteSet(0 .. n - 1)
        /\ Cardinality(0 .. n - 1) = IF 0 > n - 1 THEN 0 ELSE (n - 1) - 0 + 1
    BY <2>1, FS_Interval
  <2>3. Cardinality(0 .. n - 1) = n
    BY <2>2
  <2>4. IsFiniteSet(S) /\ Cardinality(S) = 1
    BY FS_Singleton
  <2>. QED
    BY <2>1, <2>2, <2>3, <2>4
<1>2. U \in SUBSET (S \X T)
  BY DEF Grains
<1>. HIDE DEF S, T, U
<1>3. IsFiniteSet(S \X T) /\ Cardinality(S \X T) = 1 * GrainsPerSblk
  BY <1>1, FS_Product
<1>4. IsFiniteSet(U) /\ Cardinality(U) <= 1 * GrainsPerSblk
  BY <1>2, <1>3, FS_Subset
<1>5. Cardinality(U) \in Nat
  BY <1>4, FS_CardinalityType
<1>6. GrainsPerSblk \in Nat
  BY Geometry
<1>7. Cardinality(U) \in 0 .. GrainsPerSblk
  BY <1>4, <1>5, <1>6
<1>. QED
  BY <1>4, <1>7 DEF U

\* What validate_grain of the grains gs makes of the counts.
CountedOn(gs, cnt) ==
    [b \in Sblks |-> cnt[b] + Cardinality({g \in gs : g[1] = b})]

\* The counts stay exact when grains not valid yet are added,
LEMMA ExactAdd ==
    ASSUME NEW V, V \subseteq Grains, NEW N, N \subseteq Grains, V \cap N = {},
           NEW cnt, Exact(V, cnt)
    PROVE  Exact(V \union N, CountedOn(N, cnt))
<1> DEFINE c == CountedOn(N, cnt)
<1>1. ASSUME NEW b \in Sblks
      PROVE  /\ c[b] = Cardinality({g \in V \union N : g[1] = b})
             /\ c[b] \in 0 .. GrainsPerSblk
  <2> DEFINE S == {g \in V : g[1] = b}
             T == {g \in N : g[1] = b}
             U == {g \in V \union N : g[1] = b}
  <2>1. IsFiniteSet(S) /\ Cardinality(S) \in 0 .. GrainsPerSblk
    BY InSblk
  <2>2. IsFiniteSet(T) /\ Cardinality(T) \in 0 .. GrainsPerSblk
    BY InSblk
  <2>3. S \cap T = {} /\ U = S \union T
    OBVIOUS
  <2>4. Cardinality(U) \in 0 .. GrainsPerSblk
    BY InSblk
  <2>5. c[b] = Cardinality(S) + Cardinality(T)
    BY DEF Exact, CountedOn
  <2>. HIDE DEF S, T, U
  <2>6. Cardinality(S \union T) = Cardinality(S) + Cardinality(T) - Cardinality(S \cap T)
    BY <2>1, <2>2, FS_Union
  <2>7. Cardinality(S \cap T) = 0
    BY <2>3, FS_EmptySet
  <2>8. Cardinality(S) \in Nat /\ Cardinality(T) \in Nat
    BY <2>1, <2>2, Geometry
  <2>9. Cardinality(U) = c[b]
    BY <2>3, <2>5, <2>6, <2>7, <2>8
  <2>. QED
    BY <2>4, <2>9 DEF U
<1>. QED
  BY <1>1 DEF Exact, CountedOn

\* and when valid grains are taken away.
LEMMA ExactRemove ==
    ASSUME NEW V, V \subseteq Grains, NEW N, N \subseteq V,
           NEW cnt, Exact(V, cnt)
    PROVE  Exact(V \ N, CountedOff(N, cnt))
<1> DEFINE c == CountedOff(N, cnt)
<1>1. ASSUME NEW b \in Sblks
      PROVE  /\ c[b] = Cardinality({g \in V \ N : g[1] = b})
             /\ c[b] \in 0 .. GrainsPerSblk
  <2> DEFINE S == {g \in V : g[1] = b}
             T == {g \in N : g[1] = b}
             U == {g \in V \ N : g[1] = b}
  <2>1. IsFiniteSet(S) /\ Cardinality(S) \in 0 .. GrainsPerSblk
    BY InSblk
  <2>2. N \subseteq Grains
    OBVIOUS
  <2>3. IsFiniteSet(T) /\ Cardinality(T) \in 0 .. GrainsPerSblk
    BY <2>2, InSblk
  <2>4. S \cap T = T /\ U = S \ T
    OBVIOUS
  <2>5. V \ N \subseteq Grains
    OBVIOUS
  <2>6. Cardinality(U) \in 0 .. GrainsPerSblk
    BY <2>5, InSblk
  <2>7. c[b] = Cardinality(S) - Cardinality(T)
    BY DEF Exact, CountedOff
  <2>. HIDE DEF S, T, U
  <2>8. Cardinality(S \ T) = Cardinality(S) - Cardinality(S \cap T)
    BY <2>1, FS_Difference
  <2>9. Cardinality(U) = c[b]
    BY <2>4, <2>7, <2>8
  <2>. QED
    BY <2>6, <2>9 DEF U
<1>. QED
  BY <1>1 DEF Exact, CountedOff

\* Values are added on grains not valid yet,
LEMMA TiledAdd ==
    ASSUME NEW V, NEW A, NEW oobs, Tiled(V, A, oobs),
           NEW new, \A g \in A : new[g].length = oobs[g].length,
           NEW N, N \subseteq Grains,
           \A g \in N : InPage(g, new[g].length),
           \A g, h \in N :
              g # h => Span(g, new[g].length) \cap Span(h, new[h].length) = {},
           \A g \in N : Span(g, new[g].length) \cap V = {},
           NEW W, W = UNION {Span(g, new[g].length) : g \in N}
    PROVE  Tiled(V \union W, A \union N, new)
<1> DEFINE Own(g) == Span(g, new[g].length)
<1>1. /\ A \subseteq Grains
      /\ \A g \in A : InPage(g, new[g].length)
      /\ \A g, h \in A : g # h => Own(g) \cap Own(h) = {}
      /\ V = UNION {Own(g) : g \in A}
  BY DEF Tiled
<1>2. /\ \A g, h \in N : g # h => Own(g) \cap Own(h) = {}
      /\ \A g \in N : Own(g) \cap V = {}
      /\ W = UNION {Own(g) : g \in N}
  OBVIOUS
<1>. HIDE DEF Own
<1>3. \A g \in A : Own(g) \subseteq V
  BY <1>1
<1>4. \A g, h \in A \union N : g # h => Own(g) \cap Own(h) = {}
  BY <1>1, <1>2, <1>3
<1>5. V \union W = UNION {Own(g) : g \in A \union N}
  BY <1>1, <1>2
<1>. QED
  BY <1>1, <1>4, <1>5 DEF Tiled, Own

\* The grains of the values that start at B.
Owned(B, oobs) == UNION {Span(g, oobs[g].length) : g \in B}

\* and taken away with all their grains.
LEMMA TiledRemove ==
    ASSUME NEW V, NEW A, NEW oobs, Tiled(V, A, oobs),
           NEW B, B \subseteq A,
           NEW new, \A g \in A \ B : new[g].length = oobs[g].length
    PROVE  /\ Owned(B, oobs) \subseteq V
           /\ Tiled(V \ Owned(B, oobs), A \ B, new)
<1>a. PICK W : W = Owned(B, oobs)
  OBVIOUS
<1> DEFINE Own(g) == Span(g, oobs[g].length)
<1>1. /\ A \subseteq Grains
      /\ \A g \in A : InPage(g, oobs[g].length)
      /\ \A g, h \in A : g # h => Own(g) \cap Own(h) = {}
      /\ V = UNION {Own(g) : g \in A}
      /\ W = UNION {Own(g) : g \in B}
  BY <1>a DEF Tiled, Owned
<1>2. \A g \in A \ B : Span(g, new[g].length) = Own(g)
  OBVIOUS
<1>. HIDE DEF Own
<1>3. W \subseteq V
  BY <1>1
<1>4. V \ W = UNION {Own(g) : g \in A \ B}
  BY <1>1
<1>5. V \ W = UNION {Span(g, new[g].length) : g \in A \ B}
  BY <1>2, <1>4
<1>6. \A g, h \in A \ B :
         g # h => Span(g, new[g].length) \cap Span(h, new[h].length) = {}
  BY <1>1, <1>2
<1>7. \A g \in A \ B : InPage(g, new[g].length)
  BY <1>1
<1>8. Tiled(V \ W, A \ B, new)
  BY <1>1, <1>5, <1>6, <1>7 DEF Tiled
<1>. QED
  BY <1>3, <1>8, <1>a, Zenon

\* The inverse of a function with distinct values.
LEMMA AntiFacts ==
    ASSUME NEW f, \A x, y \in DOMAIN f : f[x] = f[y] => x = y
    PROVE  /\ DOMAIN AntiFunction(f) = {f[x] : x \in DOMAIN f}
           /\ \A x \in DOMAIN f : AntiFunction(f)[f[x]] = x
BY DEF AntiFunction, Inverse, Range

\* What GC finds in a superblock: the first grains in it.
LEMMA ValuesInFacts ==
    ASSUME NEW A, Tiled(valid, A, oob), oob \in [Grains -> Oobs], NEW v \in Sblks
    PROVE  ValuesIn(v) = {g \in A : g[1] = v}
<1>1. \A o \in 0 .. PPS - 1 : FirstGrains(v, o) = {g \in A : PageOf(g) = <<v, o>>}
  BY FirstGrainsFacts
<1>2. A \subseteq Grains
  BY DEF Tiled
<1>3. ASSUME NEW g \in A
      PROVE  /\ PageOf(g)[1] = g[1] /\ PageOf(g) = <<g[1], PageOf(g)[2]>>
             /\ PageOf(g)[2] \in 0 .. PPS - 1
  <2>1. PageOf(g) \in Pages /\ PageOf(g)[1] = g[1]
    BY <1>2, GrainFacts
  <2>. QED
    BY <2>1 DEF Pages
<1>4. ValuesIn(v) = UNION {{g \in A : PageOf(g) = <<v, o>>} : o \in 0 .. PPS - 1}
  BY <1>1 DEF ValuesIn
<1>5. ASSUME NEW g, g \in ValuesIn(v) PROVE g \in A /\ g[1] = v
  <2>1. PICK o \in 0 .. PPS - 1 : g \in A /\ PageOf(g) = <<v, o>>
    BY <1>4, <1>5
  <2>. QED
    BY <1>3, <2>1
<1>6. ASSUME NEW g \in A, g[1] = v PROVE g \in ValuesIn(v)
  BY <1>3, <1>4, <1>6
<1>. QED
  BY <1>5, <1>6

\* The next page of a superblock is put behind the list.
LEMMA ListAppend ==
    ASSUME NEW wp \in [Sblks -> 0 .. PPS], NEW lw, NEW list, Listed(wp, lw, list),
           NEW b \in Sblks, wp[b] < PPS
    PROVE  Listed([wp EXCEPT ![b] = @ + 1], lw, Append(list, <<b, wp[b]>>))
<1> PICK up : up = [wp EXCEPT ![b] = @ + 1]
  OBVIOUS
<1> PICK longer : longer = Append(list, <<b, wp[b]>>)
  OBVIOUS
<1> PICK p : p = <<b, wp[b]>>
  OBVIOUS
<1>1. p \in Pages /\ p[1] = b /\ p[2] = wp[b]
  <2>1. wp[b] \in 0 .. PPS - 1
    BY Geometry
  <2>. QED
    BY <2>1 DEF Pages
<1>2. list \in Seq(Pages) /\ lw \in [Sblks -> 0 .. PPS]
  BY DEF Listed
<1>3. /\ longer \in Seq(Pages) /\ Len(longer) = Len(list) + 1
      /\ Len(list) \in Nat
      /\ DOMAIN list = 1 .. Len(list)
      /\ DOMAIN longer = 1 .. Len(list) + 1
      /\ longer[Len(list) + 1] = p
      /\ \A i \in 1 .. Len(list) : longer[i] = list[i]
  BY <1>1, <1>2
<1>4. up \in [Sblks -> 0 .. PPS] /\ up[b] = wp[b] + 1
      /\ \A c \in Sblks \ {b} : up[c] = wp[c]
  BY Geometry
<1>5. \A c \in Sblks : lw[c] <= up[c]
  <2>1. \A c \in Sblks : lw[c] <= wp[c] /\ lw[c] \in Nat /\ wp[c] \in Nat
    BY <1>2, Geometry DEF Listed
  <2>2. \A c \in Sblks : up[c] = wp[c] \/ up[c] = wp[c] + 1
    BY <1>4
  <2>. QED
    BY <2>1, <2>2
<1>6. ASSUME NEW q \in Pages
      PROVE  (lw[q[1]] <= q[2] /\ q[2] < up[q[1]])
                <=> \E i \in DOMAIN longer : longer[i] = q
  <2>1. /\ q[1] \in Sblks /\ q[2] \in Nat /\ q = <<q[1], q[2]>>
        /\ wp[q[1]] \in Nat /\ lw[q[1]] \in Nat /\ lw[q[1]] <= wp[q[1]]
    BY <1>2, Geometry DEF Pages, Listed
  <2>2. (lw[q[1]] <= q[2] /\ q[2] < wp[q[1]]) <=> \E i \in DOMAIN list : list[i] = q
    BY DEF Listed
  <2>3. (\E i \in DOMAIN longer : longer[i] = q)
            <=> (q = p \/ \E i \in DOMAIN list : list[i] = q)
    BY <1>3
  <2>4. CASE q[1] = b
    <3>1. up[q[1]] = wp[q[1]] + 1
      BY <1>4, <2>4
    <3>2. q[2] < up[q[1]] <=> (q[2] < wp[q[1]] \/ q[2] = wp[q[1]])
      BY <2>1, <3>1
    <3>3. q = p <=> q[2] = wp[q[1]]
      BY <1>1, <2>1, <2>4
    <3>. QED
      BY <2>1, <2>2, <2>3, <3>2, <3>3
  <2>5. CASE q[1] # b
    <3>1. up[q[1]] = wp[q[1]] /\ q # p
      BY <1>1, <1>4, <2>1, <2>5
    <3>. QED
      BY <2>2, <2>3, <3>1
  <2>. QED
    BY <2>4, <2>5
<1>7. ASSUME NEW i \in DOMAIN longer, NEW j \in DOMAIN longer,
             i < j, longer[i][1] = longer[j][1]
      PROVE  longer[i][2] < longer[j][2]
  <2>1. i \in DOMAIN list /\ longer[i] = list[i]
    BY <1>3, <1>7
  <2>2. CASE j \in DOMAIN list
    <3>1. longer[j] = list[j]
      BY <1>3, <2>2
    <3>. QED
      BY <1>7, <2>1, <2>2, <3>1 DEF Listed
  <2>3. CASE j \notin DOMAIN list
    <3>1. longer[j] = p
      BY <1>3, <2>3
    <3>2. list[i] \in Pages
      BY <1>2, <2>1
    <3>3. list[i][2] < wp[list[i][1]]
      BY <2>1, <3>2 DEF Listed
    <3>. QED
      BY <1>1, <1>7, <2>1, <3>1, <3>3
  <2>. QED
    BY <2>2, <2>3
<1>8. Listed(up, lw, longer)
  BY <1>2, <1>3, <1>5, <1>6, <1>7 DEF Listed
<1>. QED
  BY <1>8

-----------------------------------------------------------------------------
\* The entries new are laid in page p, each on grains of its own.
SpotsIn(new, p) ==
    /\ DOMAIN new \subseteq todo
    /\ \A k \in DOMAIN new : /\ new[k] \in Grains /\ PageOf(new[k]) = p
                             /\ InPage(new[k], LenOf[wb[k]])
    /\ \A j, k \in DOMAIN new :
          j # k => /\ new[j] # new[k]
                   /\ Span(new[j], LenOf[wb[j]]) \cap Span(new[k], LenOf[wb[k]]) = {}

\* A page of new values is laid so.
LEMMA SpotsNew ==
    ASSUME Phases, NEW wp, NEW b \in Sblks, wp[b] \in 0 .. PPS - 1,
           NEW page, page = FillPage({[id |-> k, len |-> LenOf[wb[k]]] : k \in todo}),
           NEW new, new = [k \in DOMAIN page.at |->
                              <<b, wp[b] * GRAIN_PER_PAGE + page.at[k]>>]
    PROVE  SpotsIn(new, <<b, wp[b]>>)
<1> PICK I : I = {[id |-> k, len |-> LenOf[wb[k]]] : k \in todo}
  OBVIOUS
<1>1. /\ todo \subseteq DOMAIN wb /\ IsFiniteSet(todo) /\ todo \subseteq Nat
      /\ \A k \in todo : LenOf[wb[k]] \in 1 .. GRAIN_PER_PAGE
  <2>1. todo \subseteq DOMAIN wb /\ IsFiniteSet(DOMAIN wb)
    BY DEF Phases
  <2>2. IsFiniteSet(todo)
    BY <2>1, FS_Subset
  <2>. QED
    BY <2>1, <2>2, FlushAssumption DEF Phases
<1>2. ItemSet(I)
  <2>1. I \subseteq [id : Nat, len : 1 .. GRAIN_PER_PAGE]
    BY <1>1
  <2>2. IsFiniteSet(I)
    <3> DEFINE f == [k \in todo |-> [id |-> k, len |-> LenOf[wb[k]]]]
    <3>1. DOMAIN f = todo /\ I = {f[k] : k \in todo}
      OBVIOUS
    <3>. HIDE DEF f
    <3>2. IsFiniteSet({f[k] : k \in todo})
      BY <1>1, <3>1, FiniteImage
    <3>. QED
      BY <3>1, <3>2
  <2>3. \A x, y \in I : x.id = y.id => x = y
    OBVIOUS
  <2>. QED
    BY <2>1, <2>2, <2>3 DEF ItemSet
<1>3. page \in PagesWith(I)
  BY <1>2, FillPageFacts
<1> DEFINE P == I \ page.left
<1>4. Places(P, page.at, page.used) /\ page.used \in 0 .. GRAIN_PER_PAGE
  BY <1>3 DEF PagesWith, PageStates
<1>5. /\ DOMAIN page.at = {x.id : x \in P} /\ P \subseteq I
      /\ \A x \in P : page.at[x.id] \in Nat /\ page.at[x.id] + x.len <= page.used
      /\ \A x, y \in P : x # y => \/ page.at[x.id] + x.len <= page.at[y.id]
                                  \/ page.at[y.id] + y.len <= page.at[x.id]
  BY <1>4 DEF Places
<1>6. DOMAIN new = DOMAIN page.at
  OBVIOUS
<1>7. ASSUME NEW k \in DOMAIN new
      PROVE  k \in todo /\ [id |-> k, len |-> LenOf[wb[k]]] \in P
  <2>1. PICK x \in P : k = x.id
    BY <1>5, <1>6
  <2>2. PICK j \in todo : x = [id |-> j, len |-> LenOf[wb[j]]]
    BY <1>5, <2>1
  <2>. QED
    BY <2>1, <2>2
<1>. HIDE DEF P
<1>8. ASSUME NEW k \in DOMAIN new
      PROVE  /\ page.at[k] \in Nat /\ LenOf[wb[k]] \in 1 .. GRAIN_PER_PAGE
             /\ page.at[k] + LenOf[wb[k]] <= GRAIN_PER_PAGE
             /\ page.at[k] \in 0 .. GRAIN_PER_PAGE - 1
  <2> PICK x : x = [id |-> k, len |-> LenOf[wb[k]]]
    OBVIOUS
  <2>1. x \in P /\ x.id = k /\ x.len = LenOf[wb[k]] /\ k \in todo
    BY <1>7
  <2>2. page.at[k] \in Nat /\ page.at[k] + LenOf[wb[k]] <= page.used
    BY <1>5, <2>1
  <2>3. LenOf[wb[k]] \in 1 .. GRAIN_PER_PAGE
    BY <1>1, <2>1
  <2>4. page.at[k] + LenOf[wb[k]] <= GRAIN_PER_PAGE
    BY <1>4, <2>2, <2>3, Geometry
  <2>5. page.at[k] \in 0 .. GRAIN_PER_PAGE - 1
    BY <2>2, <2>3, <2>4, Geometry
  <2>. QED
    BY <2>2, <2>3, <2>4, <2>5
<1>9. ASSUME NEW j \in DOMAIN new, NEW k \in DOMAIN new, j # k
      PROVE  \/ page.at[j] + LenOf[wb[j]] <= page.at[k]
             \/ page.at[k] + LenOf[wb[k]] <= page.at[j]
  <2> PICK x, y : /\ x = [id |-> j, len |-> LenOf[wb[j]]]
                  /\ y = [id |-> k, len |-> LenOf[wb[k]]]
    OBVIOUS
  <2>1. x \in P /\ y \in P /\ x # y
    BY <1>7, <1>9
  <2>2. x.id = j /\ y.id = k /\ x.len = LenOf[wb[j]] /\ y.len = LenOf[wb[k]]
    OBVIOUS
  <2>. QED
    BY <1>5, <2>1, <2>2
<1> PICK p : p = <<b, wp[b]>>
  OBVIOUS
<1>10. p \in Pages
  BY DEF Pages
<1>11. ASSUME NEW k \in DOMAIN new
       PROVE  new[k] \in Grains /\ PageOf(new[k]) = p /\ Pos(new[k]) = page.at[k]
  <2>1. new[k] = <<p[1], p[2] * GRAIN_PER_PAGE + page.at[k]>>
    BY <1>6
  <2>. QED
    BY <1>8, <1>10, <2>1, GrainAt
<1>12. ASSUME NEW k \in DOMAIN new PROVE InPage(new[k], LenOf[wb[k]])
  BY <1>8, <1>11 DEF InPage
<1>13. ASSUME NEW j \in DOMAIN new, NEW k \in DOMAIN new, j # k
       PROVE  /\ new[j] # new[k]
              /\ Span(new[j], LenOf[wb[j]]) \cap Span(new[k], LenOf[wb[k]]) = {}
  <2> PICK x, y, m, n : /\ x = page.at[j] /\ y = page.at[k]
                        /\ m = LenOf[wb[j]] /\ n = LenOf[wb[k]]
    OBVIOUS
  <2>1. /\ x \in Nat /\ y \in Nat /\ m \in Nat /\ n \in Nat /\ m >= 1 /\ n >= 1
        /\ x + m <= y \/ y + n <= x
    BY <1>8, <1>9, <1>13, Geometry
  <2>2. x # y
    BY <2>1
  <2>3. new[j] # new[k]
    <3>1. Pos(new[j]) = x /\ Pos(new[k]) = y
      BY <1>11
    <3>. QED
      BY <2>2, <3>1, Zenon
  <2> PICK base : base = wp[b] * GRAIN_PER_PAGE
    OBVIOUS
  <2>4. base \in Nat
    <3>1. wp[b] \in Nat /\ GRAIN_PER_PAGE \in Nat
      BY Geometry
    <3>. QED
      BY <3>1
  <2>5. new[j] = <<b, base + x>> /\ new[k] = <<b, base + y>>
    BY <1>6
  <2>6. /\ base + x \in Nat /\ base + y \in Nat
        /\ (base + x) + m <= base + y \/ (base + y) + n <= base + x
    BY <2>1, <2>4
  <2>7. /\ new[j][2] = base + x /\ new[k][2] = base + y
        /\ new[j][2] \in Nat /\ new[k][2] \in Nat
    BY <2>5, <2>6
  <2>8. ASSUME NEW g, NEW h, g[2] \in Nat, h[2] \in Nat,
               g[2] + m <= h[2] \/ h[2] + n <= g[2]
        PROVE  Span(g, m) \cap Span(h, n) = {}
    <3>1. CASE g[2] + m <= h[2]
      BY <2>1, <2>8, <3>1, SpansApart
    <3>2. CASE h[2] + n <= g[2]
      <4>1. Span(h, n) \cap Span(g, m) = {}
        BY <2>1, <2>8, <3>2, SpansApart
      <4>. QED
        BY <4>1
    <3>. QED
      BY <2>8, <3>1, <3>2
  <2>9. Span(new[j], m) \cap Span(new[k], n) = {}
    BY <2>6, <2>7, <2>8
  <2>. QED
    BY <2>3, <2>9
<1>14. DOMAIN new \subseteq todo
  BY <1>7
<1>. QED
  BY <1>11, <1>12, <1>13, <1>14 DEF SpotsIn

\* A page of new values has been placed in superblock b; before, the write
\* pointers were wp and the mapping is tp.
Placed(b, wp, tp, cells) ==
    /\ Flash(wp_offt', valid', valid_cnt', oob', cell', tp, ent_ppa',
             DOMAIN ent_ppa', real_keys, wb)
    /\ gc_bucket' \in {"null", "freed", "freed twice"} /\ failed' = failed
           => Phases'
    /\ Pending' = DOMAIN ent_ppa' /\ UNCHANGED <<wb, real_keys>>
    /\ wp_offt' = [wp EXCEPT ![b] = @ + 1]
    /\ fl' = Append(fl, <<b, wp[b]>>)
    /\ \A k \in DOMAIN ent_ppa' :
          \/ k \in DOMAIN ent_ppa /\ ent_ppa'[k] = ent_ppa[k]
          \/ PageOf(ent_ppa'[k]) = <<b, wp[b]>>
    /\ \A l \in Mapping(tp) : cell'[tp[l]] = cells[tp[l]]
    /\ UNCHANGED <<pte_fp, max_try, hash_table>>
    /\ pc' = "map" => todo' = DOMAIN wb

\* A step of the placing leaves the mapped entries mapped, with their values.
Stays ==
    /\ Mapping(pte_ppa') = Mapping(pte_ppa)
    /\ \A l \in Mapping(pte_ppa) : cell'[pte_ppa'[l]] = cell[pte_ppa[l]]
    /\ UNCHANGED <<wb, real_keys, pte_fp, max_try, hash_table>>
    /\ pc = "assign"
    /\ pc' = "map" => todo' = DOMAIN wb

\* Placing a page of new values keeps what holds of the flash: its entries
\* join those not mapped yet.
LEMMA PlaceKeeps ==
    ASSUME Phases, pc = "assign",
           NEW wp, NEW V, NEW cnt, NEW oobs, NEW cells, NEW tp,
           Flash(wp, V, cnt, oobs, cells, tp, ent_ppa, DOMAIN ent_ppa, real_keys, wb),
           NEW b \in Sblks, wp[b] < PPS,
           AssignPage(b, wp, V, cnt, oobs, cells)
    PROVE  Placed(b, wp, tp, cells)
<1> DEFINE I == {[id |-> k, len |-> LenOf[wb[k]]] : k \in todo}
           Laid(page) ==
             LET new  == [k \in DOMAIN page.at |->
                             <<b, wp[b] * GRAIN_PER_PAGE + page.at[k]>>]
                 key  == AntiFunction(new)
                 rest == todo \ DOMAIN new
             IN  /\ wp_offt' = [wp EXCEPT ![b] = @ + 1]
                 /\ validate(UNION {Span(new[k], LenOf[wb[k]]) : k \in DOMAIN new}, V, cnt)
                 /\ oob' = Over([g \in DOMAIN key |->
                                     [lpa |-> 0, length |-> LenOf[wb[key[g]]]]], oobs)
                 /\ cell' = Over([g \in DOMAIN key |-> <<key[g], wb[key[g]]>>], cells)
                 /\ ent_ppa' = Over(new, ent_ppa)
                 /\ fl' = Append(fl, <<b, wp[b]>>)
                 /\ todo' = IF rest = {} THEN DOMAIN wb ELSE rest
                 /\ pc' = IF rest = {} THEN "map" ELSE "assign"
                 /\ UNCHANGED <<wb, pte_fp, real_keys, max_try, hash_table>>
<1>y. \E page \in {FillPage(I)} : Laid(page)
  BY Zenon DEF AssignPage
<1>z. PICK page : page \in {FillPage(I)} /\ Laid(page)
  <2>. HIDE DEF I, Laid
  <2>. QED
    BY <1>y
<1>0. Laid(page)
  BY <1>z
<1>a. page = FillPage({[id |-> k, len |-> LenOf[wb[k]]] : k \in todo})
  BY <1>z
<1>b. PICK new : new = [k \in DOMAIN page.at |->
                         <<b, wp[b] * GRAIN_PER_PAGE + page.at[k]>>]
  OBVIOUS
<1>c. PICK key, D : key = AntiFunction(new) /\ D = DOMAIN new
  OBVIOUS
<1>d. PICK N : N = {new[k] : k \in D}
  OBVIOUS
<1>e. PICK W : W = UNION {Span(new[k], LenOf[wb[k]]) : k \in D}
  OBVIOUS
<1>1. /\ wp_offt' = [wp EXCEPT ![b] = @ + 1]
      /\ valid' = V \union W
      /\ valid_cnt' = CountedOn(W, cnt)
      /\ oob' = Over([g \in DOMAIN key |->
                         [lpa |-> 0, length |-> LenOf[wb[key[g]]]]], oobs)
      /\ cell' = Over([g \in DOMAIN key |-> <<key[g], wb[key[g]]>>], cells)
      /\ ent_ppa' = Over(new, ent_ppa)
      /\ fl' = Append(fl, <<b, wp[b]>>)
      /\ todo' = IF todo \ D = {} THEN DOMAIN wb ELSE todo \ D
      /\ pc' = IF todo \ D = {} THEN "map" ELSE "assign"
      /\ UNCHANGED <<wb, pte_fp, real_keys, max_try, hash_table>>
  <2>1. /\ wp_offt' = [wp EXCEPT ![b] = @ + 1]
        /\ ent_ppa' = Over(new, ent_ppa)
        /\ fl' = Append(fl, <<b, wp[b]>>)
    BY <1>0, <1>b, Zenon
  <2>2. /\ valid' = V \union W
        /\ valid_cnt' = CountedOn(W, cnt)
    <3>1. validate(W, V, cnt)
      BY <1>0, <1>b, <1>c, <1>e, Zenon
    <3>. QED
      BY <3>1 DEF validate, CountedOn
  <2>3. /\ oob' = Over([g \in DOMAIN key |->
                           [lpa |-> 0, length |-> LenOf[wb[key[g]]]]], oobs)
        /\ cell' = Over([g \in DOMAIN key |-> <<key[g], wb[key[g]]>>], cells)
    BY <1>0, <1>b, <1>c, Zenon
  <2>4. /\ todo' = IF todo \ D = {} THEN DOMAIN wb ELSE todo \ D
        /\ pc' = IF todo \ D = {} THEN "map" ELSE "assign"
        /\ UNCHANGED <<wb, pte_fp, real_keys, max_try, hash_table>>
    BY <1>0, <1>b, <1>c, Zenon
  <2>. QED
    BY <2>1, <2>2, <2>3, <2>4
<1>2. /\ wp \in [Sblks -> 0 .. PPS]
      /\ oobs \in [Grains -> Oobs] /\ cells \in [Grains -> Cells]
      /\ tp \in [Lpas -> Grains \union {NoGrain}]
  BY DEF Flash, FlashTypes
<1>3. wp[b] \in 0 .. PPS - 1
  BY <1>2, Geometry
<1>4. /\ D \subseteq todo
      /\ \A k \in D : /\ new[k] \in Grains /\ PageOf(new[k]) = <<b, wp[b]>>
                      /\ InPage(new[k], LenOf[wb[k]])
      /\ \A j, k \in D :
            j # k => /\ new[j] # new[k]
                     /\ Span(new[j], LenOf[wb[j]]) \cap Span(new[k], LenOf[wb[k]]) = {}
  <2>1. SpotsIn(new, <<b, wp[b]>>)
    BY <1>3, <1>a, <1>b, SpotsNew, Zenon
  <2>. QED
    BY <1>c, <2>1 DEF SpotsIn
<1>5. /\ DOMAIN key = N
      /\ \A k \in D : key[new[k]] = k
  BY <1>4, <1>c, <1>d, AntiFacts
<1>6. /\ DOMAIN oob' = Grains /\ DOMAIN cell' = Grains
      /\ \A k \in D : oob'[new[k]] = [lpa |-> 0, length |-> LenOf[wb[k]]]
      /\ \A g \in Grains \ N : oob'[g] = oobs[g]
      /\ \A k \in D : cell'[new[k]] = <<k, wb[k]>>
      /\ \A g \in Grains \ N : cell'[g] = cells[g]
  <2>1. N \subseteq Grains /\ \A k \in D : new[k] \in N
    BY <1>4, <1>d
  <2> DEFINE f == [g \in DOMAIN key |-> [lpa |-> 0, length |-> LenOf[wb[key[g]]]]]
             h == [g \in DOMAIN key |-> <<key[g], wb[key[g]]>>]
  <2>2. /\ DOMAIN f = N /\ DOMAIN h = N
        /\ \A k \in D : f[new[k]] = [lpa |-> 0, length |-> LenOf[wb[k]]]
        /\ \A k \in D : h[new[k]] = <<k, wb[k]>>
    BY <1>5, <2>1
  <2>3. oob' = Over(f, oobs) /\ cell' = Over(h, cells)
    BY <1>1
  <2>4. DOMAIN oobs = Grains /\ DOMAIN cells = Grains
    BY <1>2
  <2>. HIDE DEF f, h
  <2>5. /\ DOMAIN Over(f, oobs) = N \union Grains
        /\ \A x \in N : Over(f, oobs)[x] = f[x]
        /\ \A x \in Grains \ N : Over(f, oobs)[x] = oobs[x]
    <3>1. /\ DOMAIN Over(f, oobs) = DOMAIN f \union DOMAIN oobs
          /\ \A x \in DOMAIN f : Over(f, oobs)[x] = f[x]
          /\ \A x \in DOMAIN oobs \ DOMAIN f : Over(f, oobs)[x] = oobs[x]
      BY OverFacts, Zenon
    <3>. QED
      BY <2>2, <2>4, <3>1
  <2>6. /\ DOMAIN Over(h, cells) = N \union Grains
        /\ \A x \in N : Over(h, cells)[x] = h[x]
        /\ \A x \in Grains \ N : Over(h, cells)[x] = cells[x]
    <3>1. /\ DOMAIN Over(h, cells) = DOMAIN h \union DOMAIN cells
          /\ \A x \in DOMAIN h : Over(h, cells)[x] = h[x]
          /\ \A x \in DOMAIN cells \ DOMAIN h : Over(h, cells)[x] = cells[x]
      BY OverFacts, Zenon
    <3>. QED
      BY <2>2, <2>4, <3>1
  <2>. QED
    BY <2>1, <2>2, <2>3, <2>5, <2>6
<1>7. /\ DOMAIN ent_ppa' = D \union DOMAIN ent_ppa
      /\ D \cap DOMAIN ent_ppa = {}
      /\ \A k \in D : ent_ppa'[k] = new[k]
      /\ \A k \in DOMAIN ent_ppa : ent_ppa'[k] = ent_ppa[k]
  <2>1. DOMAIN ent_ppa = DOMAIN wb \ todo
    BY DEF Phases
  <2>2. /\ DOMAIN ent_ppa' = D \union DOMAIN ent_ppa
        /\ \A k \in D : ent_ppa'[k] = new[k]
        /\ \A k \in DOMAIN ent_ppa \ D : ent_ppa'[k] = ent_ppa[k]
    <3>1. /\ DOMAIN Over(new, ent_ppa) = DOMAIN new \union DOMAIN ent_ppa
          /\ \A x \in DOMAIN new : Over(new, ent_ppa)[x] = new[x]
          /\ \A x \in DOMAIN ent_ppa \ DOMAIN new : Over(new, ent_ppa)[x] = ent_ppa[x]
      BY OverFacts, Zenon
    <3>. QED
      BY <1>1, <1>c, <3>1
  <2>. QED
    BY <1>4, <2>1, <2>2
<1>8. ASSUME NEW k \in D
      PROVE  /\ k \in Keys /\ wb[k] \in Vals
             /\ LenOf[wb[k]] \in 0 .. GRAIN_PER_PAGE /\ LenOf[wb[k]] \in 1 .. GRAIN_PER_PAGE
  <2>1. k \in DOMAIN wb
    BY <1>4 DEF Phases
  <2>2. k \in Keys /\ wb[k] \in Vals
    BY <2>1 DEF Phases
  <2>3. LenOf \in [Vals -> 1 .. GRAIN_PER_PAGE] /\ GRAIN_PER_PAGE \in Nat
    BY FlushAssumption
  <2>4. LenOf[wb[k]] \in 1 .. GRAIN_PER_PAGE
    BY <2>2, <2>3
  <2>. QED
    BY <2>2, <2>3, <2>4
<1>9. oob' \in [Grains -> Oobs] /\ cell' \in [Grains -> Cells]
  <2>1. 0 \in Lpas
    BY FlushAssumption DEF Lpas
  <2>2. ASSUME NEW g \in Grains PROVE oob'[g] \in Oobs /\ cell'[g] \in Cells
    <3>1. CASE g \in N
      <4>1. PICK k \in D : g = new[k]
        BY <3>1, <1>d
      <4>. QED
        <5>1. oob'[g] = [lpa |-> 0, length |-> LenOf[wb[k]]] /\ cell'[g] = <<k, wb[k]>>
          BY <1>6, <4>1
        <5>2. [lpa |-> 0, length |-> LenOf[wb[k]]] \in Oobs
          BY <1>8, <2>1 DEF Oobs
        <5>3. <<k, wb[k]>> \in Cells
          BY <1>8 DEF Cells
        <5>. QED
          BY <5>1, <5>2, <5>3
    <3>2. CASE g \notin N
      BY <1>2, <1>6, <3>2
    <3>. QED
      BY <3>1, <3>2
  <2>3. /\ oob' = [g \in Grains |-> oob'[g]]
        /\ cell' = [g \in Grains |-> cell'[g]]
    <3>1. /\ oob' = [x \in DOMAIN oob' |-> oob'[x]]
          /\ cell' = [x \in DOMAIN cell' |-> cell'[x]]
      BY <1>1 DEF Over
    <3>. QED
      BY <1>6, <3>1
  <2>. QED
    BY <2>2, <2>3
<1>f. PICK A : A = Firsts(tp, ent_ppa, DOMAIN ent_ppa)
  OBVIOUS
<1>10. /\ Tiled(V, A, oobs) /\ HeldOnce(tp, ent_ppa, DOMAIN ent_ppa)
       /\ \A g \in V : Programmed(wp, PageOf(g))
       /\ Exact(V, cnt) /\ Named(oobs, cells, tp, real_keys)
       /\ Written(cells, ent_ppa, DOMAIN ent_ppa, wb)
  BY <1>f DEF Flash
<1>11. V \subseteq Grains /\ A \subseteq V /\ A \subseteq Grains
  <2>1. /\ A \subseteq Grains /\ \A g \in A : InPage(g, oobs[g].length)
        /\ V = UNION {Span(g, oobs[g].length) : g \in A}
    BY <1>10 DEF Tiled
  <2>2. \A g \in A : g \in Span(g, oobs[g].length)
    BY <2>1, FirstInSpan
  <2>3. \A g \in A : Span(g, oobs[g].length) \subseteq Grains
    BY <2>1, SpanFacts
  <2>. QED
    BY <2>1, <2>2, <2>3
<1>12. ASSUME NEW k \in D, NEW x \in Span(new[k], LenOf[wb[k]])
       PROVE  x \in Grains /\ PageOf(x) = <<b, wp[b]>> /\ x \notin V
  <2>1. x \in Grains /\ PageOf(x) = <<b, wp[b]>>
    BY <1>4, SpanFacts
  <2>2. ASSUME x \in V PROVE FALSE
    <3>1. wp[b] < wp[b]
      BY <1>10, <2>1, <2>2 DEF Programmed
    <3>. QED
      BY <1>3, <3>1, Geometry
  <2>. QED
    BY <2>1, <2>2
<1>13. /\ W \subseteq Grains /\ V \cap W = {}
       /\ N \subseteq W /\ N \subseteq Grains /\ A \cap N = {}
  <2>1. \A k \in D : new[k] \in Span(new[k], LenOf[wb[k]])
    BY <1>4, FirstInSpan
  <2>2. W \subseteq Grains /\ V \cap W = {} /\ N \subseteq W
    BY <1>12, <1>d, <1>e, <2>1
  <2>3. N \subseteq Grains /\ A \cap N = {}
    BY <1>11, <2>2
  <2>. QED
    BY <2>2, <2>3
<1>14. Exact(V \union W, valid_cnt')
  <2>1. V \subseteq Grains /\ W \subseteq Grains /\ V \cap W = {} /\ Exact(V, cnt)
    BY <1>10, <1>11, <1>13
  <2>2. valid_cnt' = CountedOn(W, cnt)
    BY <1>1
  <2>3. Exact(V \union W, CountedOn(W, cnt))
    BY <2>1, ExactAdd
  <2>. QED
    BY <2>2, <2>3, Zenon
<1>15. \A k \in D : oob'[new[k]].length = LenOf[wb[k]]
  <2>1. ASSUME NEW k \in D PROVE oob'[new[k]].length = LenOf[wb[k]]
    <3>1. oob'[new[k]] = [lpa |-> 0, length |-> LenOf[wb[k]]]
      BY <1>6
    <3>2. [lpa |-> 0, length |-> LenOf[wb[k]]].length = LenOf[wb[k]]
      OBVIOUS
    <3>. QED
      BY <3>1, <3>2, Zenon
  <2>. QED
    BY <2>1
<1>16. Tiled(V \union W, A \union N, oob')
  <2>1. \A g \in A : oob'[g].length = oobs[g].length
    BY <1>6, <1>11, <1>13
  <2>2. \A g \in N : /\ InPage(g, oob'[g].length)
                     /\ Span(g, oob'[g].length) \cap V = {}
    BY <1>4, <1>12, <1>15, <1>d
  <2>3. \A g, h \in N :
           g # h => Span(g, oob'[g].length) \cap Span(h, oob'[h].length) = {}
    <3>1. ASSUME NEW g \in N, NEW h \in N, g # h
          PROVE  Span(g, oob'[g].length) \cap Span(h, oob'[h].length) = {}
      <4>1. PICK j \in D : g = new[j]
        BY <1>d
      <4>2. PICK k \in D : h = new[k]
        BY <1>d
      <4>3. j # k
        BY <3>1, <4>1, <4>2
      <4>. QED
        BY <1>4, <1>15, <4>1, <4>2, <4>3
    <3>. QED
      BY <3>1
  <2>4. W = UNION {Span(g, oob'[g].length) : g \in N}
    <3>1. \A k \in D : Span(new[k], oob'[new[k]].length) = Span(new[k], LenOf[wb[k]])
      BY <1>15
    <3>. QED
      BY <1>d, <1>e, <3>1
  <2>. QED
    BY <1>10, <1>13, <2>1, <2>2, <2>3, <2>4, TiledAdd
<1>17. Firsts(tp, ent_ppa', DOMAIN ent_ppa') = A \union N
  BY <1>7, <1>d, <1>f DEF Firsts
<1>18. /\ \A l \in Mapping(tp) : tp[l] \in A
       /\ \A k \in DOMAIN ent_ppa : ent_ppa[k] \in A
  BY <1>f DEF Firsts
<1>19. HeldOnce(tp, ent_ppa', DOMAIN ent_ppa')
  <2>1. ASSUME NEW j \in DOMAIN ent_ppa', NEW k \in DOMAIN ent_ppa', ent_ppa'[j] = ent_ppa'[k]
        PROVE  j = k
    <3>1. CASE j \in D /\ k \in D
      BY <1>4, <1>7, <2>1, <3>1
    <3>2. CASE j \in DOMAIN ent_ppa /\ k \in DOMAIN ent_ppa
      BY <1>7, <1>10, <2>1, <3>2 DEF HeldOnce
    <3>3. CASE j \in D /\ k \in DOMAIN ent_ppa
      BY <1>7, <1>13, <1>18, <1>d, <2>1, <3>3
    <3>4. CASE j \in DOMAIN ent_ppa /\ k \in D
      BY <1>7, <1>13, <1>18, <1>d, <2>1, <3>4
    <3>. QED
      BY <1>7, <3>1, <3>2, <3>3, <3>4
  <2>2. ASSUME NEW l \in Mapping(tp), NEW k \in DOMAIN ent_ppa' PROVE tp[l] # ent_ppa'[k]
    <3>1. CASE k \in D
      BY <1>7, <1>13, <1>18, <1>d, <3>1
    <3>2. CASE k \in DOMAIN ent_ppa
      BY <1>7, <1>10, <3>2 DEF HeldOnce
    <3>. QED
      BY <1>7, <3>1, <3>2
  <2>. QED
    BY <1>10, <2>1, <2>2 DEF HeldOnce
<1>20. \A g \in valid' : Programmed(wp_offt', PageOf(g))
  <2>1. ASSUME NEW g \in V PROVE PageOf(g)[2] < wp_offt'[PageOf(g)[1]]
    <3>1. /\ PageOf(g) \in Pages /\ PageOf(g)[2] < wp[PageOf(g)[1]]
      BY <1>10, <1>11, GrainFacts DEF Programmed
    <3> PICK c, o : c = PageOf(g)[1] /\ o = PageOf(g)[2]
      OBVIOUS
    <3>2. c \in Sblks /\ o \in Nat /\ o < wp[c] /\ wp[c] \in Nat
      BY <1>2, <3>1, Geometry DEF Pages
    <3>3. wp_offt'[c] = wp[c] \/ wp_offt'[c] = wp[c] + 1
      BY <1>1, <1>2, <3>2
    <3>4. o < wp_offt'[c]
      BY <3>2, <3>3
    <3>. QED
      BY <3>4
  <2>2. ASSUME NEW g \in W PROVE PageOf(g)[2] < wp_offt'[PageOf(g)[1]]
    <3>1. PageOf(g) = <<b, wp[b]>>
      BY <1>12, <1>e
    <3>2. wp_offt'[b] = wp[b] + 1
      BY <1>1, <1>2
    <3>. QED
      BY <1>3, <3>1, <3>2
  <2>. QED
    BY <1>1, <2>1, <2>2 DEF Programmed
<1>21. Named(oob', cell', tp, real_keys)
  <2>1. \A l \in Mapping(tp) : tp[l] \in Grains \ N
    BY <1>11, <1>13, <1>18
  <2>. QED
    BY <1>6, <1>10, <2>1 DEF Named
<1>22. Written(cell', ent_ppa', DOMAIN ent_ppa', wb)
  <2>1. \A k \in DOMAIN ent_ppa : ent_ppa[k] \in Grains \ N
    BY <1>11, <1>13, <1>18
  <2>. QED
    BY <1>6, <1>7, <1>10, <2>1 DEF Written
<1>23. wp_offt' \in [Sblks -> 0 .. PPS]
  <2>1. wp[b] + 1 \in 0 .. PPS
    BY <1>3, Geometry
  <2>. QED
    BY <1>1, <1>2, <2>1
<1>24. Flash(wp_offt', valid', valid_cnt', oob', cell', tp, ent_ppa',
             DOMAIN ent_ppa', real_keys, wb)
  <2>1. FlashTypes(wp_offt', oob', cell', tp)
    BY <1>2, <1>9, <1>14, <1>23 DEF FlashTypes
  <2>2. /\ Tiled(valid', Firsts(tp, ent_ppa', DOMAIN ent_ppa'), oob')
        /\ Exact(valid', valid_cnt')
    BY <1>1, <1>14, <1>16, <1>17
  <2>. QED
    BY <1>19, <1>20, <1>21, <1>22, <2>1, <2>2 DEF Flash
<1>25. /\ todo' \subseteq DOMAIN wb /\ pc' \in {"assign", "map"}
       /\ pc' = "assign" => DOMAIN ent_ppa' = DOMAIN wb \ todo'
       /\ pc' = "map" => DOMAIN ent_ppa' = DOMAIN wb /\ todo' = DOMAIN wb
       /\ Pending' = DOMAIN ent_ppa'
  <2>1. todo \subseteq DOMAIN wb /\ DOMAIN ent_ppa = DOMAIN wb \ todo
    BY DEF Phases
  <2>2. DOMAIN ent_ppa' = DOMAIN wb \ (todo \ D)
    BY <1>4, <1>7, <2>1
  <2>3. CASE todo \ D = {}
    BY <1>1, <2>2, <2>3 DEF Pending
  <2>4. CASE todo \ D # {}
    BY <1>1, <2>1, <2>2, <2>4 DEF Pending
  <2>. QED
    BY <2>3, <2>4
<1>26. ASSUME NEW k \in DOMAIN ent_ppa'
       PROVE  \/ k \in DOMAIN ent_ppa /\ ent_ppa'[k] = ent_ppa[k]
              \/ PageOf(ent_ppa'[k]) = <<b, wp[b]>>
  <2>1. CASE k \in D
    BY <1>4, <1>7, <2>1
  <2>2. CASE k \notin D
    BY <1>7, <2>2
  <2>. QED
    BY <2>1, <2>2
<1>27. \A k \in DOMAIN ent_ppa' : ent_ppa'[k] \in Grains
  <2>1. \A k \in DOMAIN ent_ppa : ent_ppa[k] \in Grains
    BY DEF Phases
  <2>. QED
    BY <1>4, <1>7, <2>1
<1>28. ASSUME gc_bucket' \in {"null", "freed", "freed twice"}, failed' = failed
       PROVE  Phases'
  <2>1. UNCHANGED <<wb, pte_fp, real_keys, max_try, hash_table>>
    BY <1>1
  <2>2. /\ DOMAIN wb' \subseteq Keys /\ IsFiniteSet(DOMAIN wb')
        /\ \A k \in DOMAIN wb' : wb'[k] \in Vals
        /\ hash_table' = {} /\ pte_fp' \in [Lpas -> Nat]
        /\ real_keys' \in [Lpas -> Keys \union {NoKey}] /\ max_try' \in Tries
        /\ failed' \in {"none", "no superblock to reclaim", "get_page_num"}
    BY <1>28, <2>1 DEF Phases
  <2>. QED
    BY <1>25, <1>27, <1>28, <2>1, <2>2 DEF Phases
<1>29. \A l \in Mapping(tp) : cell'[tp[l]] = cells[tp[l]]
  <2>1. \A l \in Mapping(tp) : tp[l] \in Grains \ N
    BY <1>11, <1>13, <1>18
  <2>. QED
    BY <1>6, <2>1
<1>. QED
  BY <1>1, <1>24, <1>25, <1>26, <1>28, <1>29 DEF Placed

-----------------------------------------------------------------------------
(* The choice of a superblock. *)

\* When GC is due, every superblock but the reserve is full.
LEMMA VictimFacts ==
    ASSUME IInv, NeedSblk, GcNeeded(free_sblk_cnt),
           NEW v, v = GcTarget(wp_offt, sblk_rsv, valid_cnt)
    PROVE  /\ v \in Sblks /\ v # sblk_rsv /\ wp_offt[v] = PPS
           /\ \A b \in Sblks \ {sblk_rsv} : wp_offt[b] = PPS
           /\ {b \in Sblks : wp_offt[b] = 0} = {sblk_rsv}
           /\ free_sblk_cnt = 1
           /\ d_active \in Sblks /\ d_active # sblk_rsv
<1> DEFINE Empty == {b \in Sblks : wp_offt[b] = 0}
<1>1. /\ sblk_rsv \in Sblks /\ wp_offt \in [Sblks -> 0 .. PPS]
      /\ valid_cnt \in [Sblks -> Nat] /\ wp_offt[sblk_rsv] = 0
      /\ free_sblk_cnt = Cardinality(Empty)
      /\ d_active \in Sblks \union {NoSblk} /\ d_active # sblk_rsv
  <2>1. valid_cnt \in [Sblks -> Nat]
    BY Geometry DEF IInv, FlashOK, Flash, Exact
  <2>. QED
    BY <2>1 DEF IInv, Roles, FlashOK, Flash, FlashTypes
<1>a. IsFiniteSet(Empty)
  BY SblksFacts, FS_Subset
<1>2. free_sblk_cnt = 1
  <2>1. sblk_rsv \in Empty
    BY <1>1
  <2>. HIDE DEF Empty
  <2>2. Cardinality(Empty) \in Nat /\ Cardinality(Empty) # 0
    BY <1>a, <2>1, FS_CardinalityType, FS_EmptySet
  <2>. QED
    BY <1>1, <2>2 DEF GcNeeded
<1>4. Empty = {sblk_rsv}
  <2>1. PICK x : Empty = {x}
    BY <1>1, <1>2, <1>a, FS_Singleton
  <2>2. sblk_rsv \in Empty
    BY <1>1
  <2>. QED
    BY <2>1, <2>2
<1>5. \E b \in Sblks : b # sblk_rsv
  <2>1. s_sblk \in Sblks /\ e_sblk \in Sblks /\ s_sblk # e_sblk
    BY PartitionAssumption DEF Sblks
  <2>. QED
    BY <2>1
<1>6. d_active # NoSblk
  BY <1>4, <1>5 DEF IInv, Roles
<1>7. Full(wp_offt, d_active)
  BY <1>6 DEF NeedSblk
<1>8. ASSUME NEW b \in Sblks \ {sblk_rsv} PROVE wp_offt[b] = PPS
  <2>1. wp_offt[b] # 0
    BY <1>4
  <2>2. CASE b = d_active
    <3>1. wp_offt[b] >= PPS /\ wp_offt[b] \in 0 .. PPS
      BY <1>1, <1>7, <2>2 DEF Full
    <3>. QED
      BY <3>1, PartitionAssumption
  <2>3. CASE b # d_active
    BY <2>1, <2>3 DEF IInv, Roles
  <2>. QED
    BY <2>2, <2>3
<1>9. Candidates(wp_offt, sblk_rsv) = Sblks \ {sblk_rsv}
  <2>1. ASSUME NEW b \in Sblks \ {sblk_rsv} PROVE Full(wp_offt, b)
    BY <1>8, PartitionAssumption DEF Full
  <2>. QED
    BY <2>1 DEF Candidates
<1>10. /\ v \in Candidates(wp_offt, sblk_rsv)
       /\ \A c \in Candidates(wp_offt, sblk_rsv) : valid_cnt[v] <= valid_cnt[c]
  <2>1. valid_cnt \in [Sblks -> Nat]
    BY <1>1
  <2>2. Candidates(wp_offt, sblk_rsv) # {}
    BY <1>5, <1>9
  <2>. QED
    BY <2>1, <2>2, GcTargetLeast
<1>. QED
  BY <1>1, <1>2, <1>4, <1>6, <1>8, <1>9, <1>10

\* A superblock is found, and an empty one, whenever the counter says so.
LEMMA NextFacts ==
    ASSUME IInv, NeedSblk, ~GcNeeded(free_sblk_cnt),
           NEW b, b = NextActive(wp_offt, sblk_rsv, active_sblk)
    PROVE  b \in Sblks /\ b # sblk_rsv /\ b # d_active /\ wp_offt[b] = 0
<1> DEFINE Empty == {c \in Sblks : wp_offt[c] = 0}
<1>1. /\ sblk_rsv \in Sblks /\ wp_offt \in [Sblks -> 0 .. PPS]
      /\ wp_offt[sblk_rsv] = 0
      /\ free_sblk_cnt = Cardinality(Empty) /\ free_sblk_cnt > 1
      /\ active_sblk = d_active
      /\ d_active \in Sblks \union {NoSblk} /\ d_active # sblk_rsv
  <2>1. IsFiniteSet(Empty)
    BY SblksFacts, FS_Subset
  <2>2. Cardinality(Empty) \in Nat
    BY <2>1, FS_CardinalityType
  <2>. QED
    BY <2>2 DEF IInv, Roles, FlashOK, Flash, FlashTypes, GcNeeded
<1>2. ASSUME NEW c \in Sblks, c # sblk_rsv
      PROVE  Usable(wp_offt, sblk_rsv, c) <=> wp_offt[c] < PPS
  BY <1>1, <1>2, PartitionAssumption DEF Usable, Full
<1>3. PICK c \in Sblks : c # sblk_rsv /\ wp_offt[c] = 0
  <2>1. Empty # {sblk_rsv}
    <3>1. Cardinality({sblk_rsv}) = 1
      BY FS_Singleton
    <3>2. Cardinality(Empty) # 1
      BY <1>1
    <3>. QED
      BY <3>1, <3>2
  <2>2. sblk_rsv \in Empty
    BY <1>1
  <2>. QED
    BY <2>1, <2>2
<1>4. Usable(wp_offt, sblk_rsv, c)
  BY <1>2, <1>3, PartitionAssumption
<1>5. c # d_active
  <2>1. d_active # NoSblk => wp_offt[d_active] > 0
    BY DEF IInv, Roles
  <2>. QED
    BY <1>3, <2>1, SblksFacts
<1>6. ASSUME active_sblk = NoSblk
      PROVE  \E x \in Sblks : x # c /\ Usable(wp_offt, sblk_rsv, x)
  <2>1. \A x \in Sblks : wp_offt[x] = 0
    BY <1>1, <1>6 DEF IInv, Roles
  <2>2. PICK x \in Sblks : x # c /\ x # sblk_rsv
    <3>1. /\ s_sblk \in Sblks /\ s_sblk + 1 \in Sblks /\ e_sblk \in Sblks
          /\ s_sblk # s_sblk + 1 /\ s_sblk + 1 # e_sblk /\ s_sblk # e_sblk
      BY PartitionAssumption DEF Sblks
    <3>. QED
      BY <3>1
  <2>. QED
    BY <1>2, <2>1, <2>2, PartitionAssumption
<1>7. b \in Sblks /\ Usable(wp_offt, sblk_rsv, b)
  <2>1. active_sblk \in Sblks \union {NoSblk}
    BY <1>1
  <2>2. c # active_sblk
    BY <1>1, <1>5
  <2>. QED
    BY <1>3, <1>4, <1>6, <2>1, <2>2, NextActiveUsable
<1>8. b # sblk_rsv /\ wp_offt[b] < PPS
  <2>1. b # sblk_rsv
    BY <1>7 DEF Usable
  <2>. QED
    BY <1>2, <1>7, <2>1
<1>9. b # d_active
  <2>1. CASE d_active = NoSblk
    BY <1>7, <2>1, SblksFacts
  <2>2. CASE d_active # NoSblk
    <3>1. wp_offt[d_active] >= PPS
      BY <2>2 DEF NeedSblk, Full
    <3>2. d_active \in Sblks /\ wp_offt[d_active] \in Int /\ wp_offt[b] \in Int
      BY <1>1, <1>7, <2>2, PartitionAssumption
    <3>. QED
      BY <1>8, <3>1, <3>2, PartitionAssumption
  <2>. QED
    BY <2>1, <2>2
<1>10. wp_offt[b] \in {0, PPS}
  BY <1>7, <1>9 DEF IInv, Roles
<1>. QED
  BY <1>7, <1>8, <1>9, <1>10, PartitionAssumption

-----------------------------------------------------------------------------
(* The steps of a flush. *)

\* What a page adds to the flush list keeps what it says of the entries.
LEMMA ListKeeps ==
    ASSUME NEW wp \in [Sblks -> 0 .. PPS], NEW lw, Listed(wp, lw, fl),
           \A k \in DOMAIN ent_ppa : \E i \in DOMAIN fl : fl[i] = PageOf(ent_ppa[k]),
           NEW b \in Sblks, wp[b] < PPS,
           wp_offt' = [wp EXCEPT ![b] = @ + 1],
           line_wp' = lw, nand_err' = FALSE,
           fl' = Append(fl, <<b, wp[b]>>),
           \A k \in DOMAIN ent_ppa' :
              \/ k \in DOMAIN ent_ppa /\ ent_ppa'[k] = ent_ppa[k]
              \/ PageOf(ent_ppa'[k]) = <<b, wp[b]>>
    PROVE  ListOK'
<1>a. PICK up : up = [wp EXCEPT ![b] = @ + 1]
  OBVIOUS
<1>b. PICK longer : longer = Append(fl, <<b, wp[b]>>)
  OBVIOUS
<1>1. /\ Listed(up, lw, longer)
      /\ \A i \in DOMAIN fl : i \in DOMAIN longer /\ longer[i] = fl[i]
      /\ Len(longer) \in DOMAIN longer /\ longer[Len(longer)] = <<b, wp[b]>>
  <2>1. Listed([wp EXCEPT ![b] = @ + 1], lw, Append(fl, <<b, wp[b]>>))
    BY ListAppend
  <2>2. fl \in Seq(Pages)
    BY DEF Listed
  <2> PICK p : p = <<b, wp[b]>>
    OBVIOUS
  <2>3. p \in Pages
    BY Geometry DEF Pages
  <2>4. /\ \A i \in DOMAIN fl : i \in DOMAIN Append(fl, p) /\ Append(fl, p)[i] = fl[i]
        /\ Len(Append(fl, p)) \in DOMAIN Append(fl, p)
        /\ Append(fl, p)[Len(Append(fl, p))] = p
    BY <2>2, <2>3
  <2>. QED
    BY <1>a, <1>b, <2>1, <2>4, Zenon
<1>2. up = wp_offt' /\ longer = fl' /\ lw = line_wp'
  BY <1>a, <1>b
<1>3. Listed(wp_offt', line_wp', fl')
  BY <1>1, <1>2, Zenon
<1>4. ASSUME NEW k \in DOMAIN ent_ppa'
      PROVE  \E i \in DOMAIN fl' : fl'[i] = PageOf(ent_ppa'[k])
  <2>1. CASE k \in DOMAIN ent_ppa /\ ent_ppa'[k] = ent_ppa[k]
    <3>1. PICK i \in DOMAIN fl : fl[i] = PageOf(ent_ppa[k])
      BY <2>1
    <3>2. i \in DOMAIN longer /\ longer[i] = PageOf(ent_ppa[k])
      BY <1>1, <3>1
    <3>. QED
      BY <1>2, <2>1, <3>2, Zenon
  <2>2. CASE PageOf(ent_ppa'[k]) = <<b, wp[b]>>
    <3>1. Len(longer) \in DOMAIN longer /\ longer[Len(longer)] = PageOf(ent_ppa'[k])
      BY <1>1, <2>2
    <3>. QED
      BY <1>2, <3>1, Zenon
  <2>. QED
    BY <2>1, <2>2
<1>. QED
  BY <1>3, <1>4 DEF ListOK

\* A page in the superblock being filled keeps everything.
LEMMA InActiveKeeps ==
    ASSUME IInv, AssignInActive
    PROVE  IInv' /\ Stays
<1>b. PICK b : b = d_active
  OBVIOUS
<1>1. /\ Phases /\ Roles /\ ListOK /\ pc = "assign" /\ ~NeedSblk
      /\ wp_offt \in [Sblks -> 0 .. PPS]
      /\ Flash(wp_offt, valid, valid_cnt, oob, cell, pte_ppa, ent_ppa,
               DOMAIN ent_ppa, real_keys, wb)
      /\ UNCHANGED <<sblk_rsv, line_wp, pte_ppa, gc_bucket, nand_err, failed>>
      /\ UNCHANGED <<active_sblk, free_sblk_cnt, d_active>>
  <2>1. pc = "assign" /\ Pending = DOMAIN ent_ppa
    BY DEF AssignInActive, Pending
  <2>2. Flash(wp_offt, valid, valid_cnt, oob, cell, pte_ppa, ent_ppa,
               DOMAIN ent_ppa, real_keys, wb)
    BY <2>1, Zenon DEF IInv, FlashOK
  <2>3. wp_offt \in [Sblks -> 0 .. PPS]
    BY <2>2 DEF Flash, FlashTypes
  <2>. QED
    BY <2>1, <2>2, <2>3 DEF IInv, AssignInActive, pt_vars
<1>2. b \in Sblks /\ wp_offt[b] < PPS
  <2>1. d_active # NoSblk /\ ~Full(wp_offt, d_active)
    BY <1>1 DEF NeedSblk
  <2>2. d_active \in Sblks /\ wp_offt[d_active] \in 0 .. PPS
    BY <1>1, <2>1 DEF Roles
  <2>. QED
    BY <1>b, <2>1, <2>2, Geometry DEF Full
<1>3. AssignPage(b, wp_offt, valid, valid_cnt, oob, cell)
  BY <1>b, Zenon DEF AssignInActive
<1>4. /\ Flash(wp_offt', valid', valid_cnt', oob', cell', pte_ppa, ent_ppa',
               DOMAIN ent_ppa', real_keys, wb)
      /\ gc_bucket' \in {"null", "freed", "freed twice"} /\ failed' = failed
            => Phases'
      /\ Pending' = DOMAIN ent_ppa' /\ UNCHANGED <<wb, real_keys>>
      /\ wp_offt' = [wp_offt EXCEPT ![b] = @ + 1]
      /\ fl' = Append(fl, <<b, wp_offt[b]>>)
      /\ \A k \in DOMAIN ent_ppa' :
            \/ k \in DOMAIN ent_ppa /\ ent_ppa'[k] = ent_ppa[k]
            \/ PageOf(ent_ppa'[k]) = <<b, wp_offt[b]>>
      /\ \A l \in Mapping(pte_ppa) : cell'[pte_ppa[l]] = cell[pte_ppa[l]]
      /\ UNCHANGED <<pte_fp, max_try, hash_table>>
      /\ pc' = "map" => todo' = DOMAIN wb
  <2>1. Placed(b, wp_offt, pte_ppa, cell)
    BY <1>1, <1>2, <1>3, PlaceKeeps
  <2>. QED
    BY <2>1 DEF Placed
<1>5. FlashOK'
  <2>1. Flash(wp_offt', valid', valid_cnt', oob', cell', pte_ppa', ent_ppa',
              Pending', real_keys', wb')
    BY <1>1, <1>4, Zenon
  <2>. QED
    BY <2>1 DEF FlashOK
<1>6. Phases'
  BY <1>1, <1>4 DEF Phases
<1>7. ListOK'
  <2>1. /\ Listed(wp_offt, line_wp, fl) /\ nand_err = FALSE
        /\ \A k \in DOMAIN ent_ppa : \E i \in DOMAIN fl : fl[i] = PageOf(ent_ppa[k])
    BY <1>1 DEF ListOK
  <2>2. line_wp' = line_wp /\ nand_err' = FALSE
    BY <1>1, <2>1
  <2>. QED
    BY <1>1, <1>2, <1>4, <2>1, <2>2, ListKeeps
<1>8. Roles'
  <2>1. /\ \A c \in Sblks : c # b => wp_offt'[c] = wp_offt[c]
        /\ wp_offt[b] > 0 /\ wp_offt'[b] > 0 /\ b # sblk_rsv /\ b # NoSblk
    <3>1. wp_offt' = [wp_offt EXCEPT ![b] = @ + 1] /\ wp_offt \in [Sblks -> 0 .. PPS]
      BY <1>1, <1>4
    <3>2. wp_offt[b] > 0 /\ b # sblk_rsv /\ b # NoSblk
      BY <1>1, <1>2, <1>b, SblksFacts DEF Roles
    <3>3. wp_offt'[b] = wp_offt[b] + 1 /\ wp_offt[b] \in Nat
      BY <1>2, <3>1, Geometry
    <3>. QED
      BY <3>1, <3>2, <3>3
  <2>2. {c \in Sblks : wp_offt'[c] = 0} = {c \in Sblks : wp_offt[c] = 0}
    BY <2>1
  <2>. QED
    BY <1>1, <1>2, <1>b, <2>1, <2>2 DEF Roles
<1>9. Stays
  BY <1>1, <1>3, <1>4 DEF Stays
<1>. QED
  BY <1>5, <1>6, <1>7, <1>8, <1>9 DEF IInv

\* A page that opens the next free superblock keeps everything.
LEMMA InNextKeeps ==
    ASSUME IInv, AssignInNext
    PROVE  IInv' /\ Stays
<1>b. PICK b : b = NextActive(wp_offt, sblk_rsv, active_sblk)
  OBVIOUS
<1>1. /\ Phases /\ Roles /\ ListOK /\ pc = "assign" /\ NeedSblk
      /\ ~GcNeeded(free_sblk_cnt)
      /\ wp_offt \in [Sblks -> 0 .. PPS]
      /\ Flash(wp_offt, valid, valid_cnt, oob, cell, pte_ppa, ent_ppa,
               DOMAIN ent_ppa, real_keys, wb)
  <2>1. pc = "assign" /\ Pending = DOMAIN ent_ppa
    BY DEF AssignInNext, Pending
  <2>2. Flash(wp_offt, valid, valid_cnt, oob, cell, pte_ppa, ent_ppa,
               DOMAIN ent_ppa, real_keys, wb)
    BY <2>1, Zenon DEF IInv, FlashOK
  <2>3. wp_offt \in [Sblks -> 0 .. PPS]
    BY <2>2 DEF Flash, FlashTypes
  <2>. QED
    BY <2>1, <2>2, <2>3 DEF IInv, AssignInNext
<1>2. /\ b \in Sblks /\ b # sblk_rsv /\ b # d_active /\ wp_offt[b] = 0
      /\ wp_offt[b] < PPS
  BY <1>1, <1>b, NextFacts, Geometry
<1>3. /\ AssignPage(b, wp_offt, valid, valid_cnt, oob, cell)
      /\ active_sblk' = b /\ d_active' = b
      /\ free_sblk_cnt' = IF wp_offt[b] = 0 THEN free_sblk_cnt - 1
                                            ELSE free_sblk_cnt
      /\ UNCHANGED <<sblk_rsv, line_wp, pte_ppa, gc_bucket, nand_err, failed>>
  BY <1>b, Zenon DEF AssignInNext
<1>4. /\ Flash(wp_offt', valid', valid_cnt', oob', cell', pte_ppa, ent_ppa',
               DOMAIN ent_ppa', real_keys, wb)
      /\ gc_bucket' \in {"null", "freed", "freed twice"} /\ failed' = failed
            => Phases'
      /\ Pending' = DOMAIN ent_ppa' /\ UNCHANGED <<wb, real_keys>>
      /\ wp_offt' = [wp_offt EXCEPT ![b] = @ + 1]
      /\ fl' = Append(fl, <<b, wp_offt[b]>>)
      /\ \A k \in DOMAIN ent_ppa' :
            \/ k \in DOMAIN ent_ppa /\ ent_ppa'[k] = ent_ppa[k]
            \/ PageOf(ent_ppa'[k]) = <<b, wp_offt[b]>>
      /\ \A l \in Mapping(pte_ppa) : cell'[pte_ppa[l]] = cell[pte_ppa[l]]
      /\ UNCHANGED <<pte_fp, max_try, hash_table>>
      /\ pc' = "map" => todo' = DOMAIN wb
  <2>1. Placed(b, wp_offt, pte_ppa, cell)
    BY <1>1, <1>2, <1>3, PlaceKeeps
  <2>. QED
    BY <2>1 DEF Placed
<1>5. FlashOK'
  <2>1. Flash(wp_offt', valid', valid_cnt', oob', cell', pte_ppa', ent_ppa',
              Pending', real_keys', wb')
    BY <1>3, <1>4, Zenon
  <2>. QED
    BY <2>1 DEF FlashOK
<1>6. Phases'
  BY <1>1, <1>3, <1>4 DEF Phases
<1>7. ListOK'
  <2>1. /\ Listed(wp_offt, line_wp, fl) /\ nand_err = FALSE
        /\ \A k \in DOMAIN ent_ppa : \E i \in DOMAIN fl : fl[i] = PageOf(ent_ppa[k])
    BY <1>1 DEF ListOK
  <2>2. line_wp' = line_wp /\ nand_err' = FALSE
    BY <1>3, <2>1
  <2>. QED
    BY <1>1, <1>2, <1>4, <2>1, <2>2, ListKeeps
<1>8. Roles'
  <2> DEFINE Empty == {c \in Sblks : wp_offt[c] = 0}
  <2>1. /\ \A c \in Sblks : c # b => wp_offt'[c] = wp_offt[c]
        /\ wp_offt'[b] = 1
    <3>1. wp_offt' = [wp_offt EXCEPT ![b] = @ + 1] /\ wp_offt \in [Sblks -> 0 .. PPS]
      BY <1>1, <1>4
    <3>2. wp_offt'[b] = wp_offt[b] + 1
      BY <1>2, <3>1
    <3>. QED
      BY <1>2, <3>1, <3>2
  <2>2. {c \in Sblks : wp_offt'[c] = 0} = Empty \ {b}
    BY <1>2, <2>1
  <2>3. IsFiniteSet(Empty) /\ b \in Empty
    BY <1>2, SblksFacts, FS_Subset
  <2>4. Cardinality(Empty \ {b}) = Cardinality(Empty) - 1
    BY <2>3, FS_RemoveElement
  <2>5. free_sblk_cnt = Cardinality(Empty)
    BY <1>1 DEF Roles
  <2>6. free_sblk_cnt' = Cardinality({c \in Sblks : wp_offt'[c] = 0})
    BY <1>2, <1>3, <2>2, <2>4, <2>5
  <2>7. ASSUME NEW c \in Sblks, c # b PROVE wp_offt[c] \in {0, PPS}
    <3>1. CASE c = d_active
      <4>1. wp_offt[c] >= PPS /\ wp_offt[c] \in 0 .. PPS
        BY <1>1, <3>1, SblksFacts DEF NeedSblk, Full
      <4>. QED
        BY <4>1, Geometry
    <3>2. CASE c # d_active
      BY <1>1, <3>2 DEF Roles
    <3>. QED
      BY <3>1, <3>2
  <2>8. /\ sblk_rsv' \in Sblks /\ d_active' \in Sblks /\ active_sblk' = d_active'
        /\ wp_offt'[sblk_rsv'] = 0 /\ d_active' # sblk_rsv' /\ d_active' # NoSblk
        /\ wp_offt'[d_active'] > 0
    BY <1>1, <1>2, <1>3, <2>1, SblksFacts DEF Roles
  <2>9. \A c \in Sblks : c # d_active' => wp_offt'[c] \in {0, PPS}
    BY <1>3, <2>1, <2>7
  <2>. QED
    BY <2>6, <2>8, <2>9 DEF Roles
<1>9. Stays
  BY <1>1, <1>3, <1>4 DEF Stays
<1>. QED
  BY <1>5, <1>6, <1>7, <1>8, <1>9 DEF IInv

-----------------------------------------------------------------------------
(* GC within a flush. *)

\* Before any page: the flash as it stands, when entries are being placed.
LEMMA FlashAssign ==
    ASSUME IInv, pc = "assign"
    PROVE  Flash(wp_offt, valid, valid_cnt, oob, cell, pte_ppa, ent_ppa,
                 DOMAIN ent_ppa, real_keys, wb)
<1>1. Pending = DOMAIN ent_ppa
  BY DEF Pending
<1>. QED
  BY <1>1, Zenon DEF IInv, FlashOK

\* First grains are valid, and valid grains are grains.
LEMMA FirstsValid ==
    ASSUME NEW V, NEW A, NEW oobs, Tiled(V, A, oobs)
    PROVE  V \subseteq Grains /\ A \subseteq V
<1>1. /\ A \subseteq Grains /\ \A g \in A : InPage(g, oobs[g].length)
      /\ V = UNION {Span(g, oobs[g].length) : g \in A}
  BY DEF Tiled
<1>2. \A g \in A : g \in Span(g, oobs[g].length)
  BY <1>1, FirstInSpan
<1>3. \A g \in A : Span(g, oobs[g].length) \subseteq Grains
  BY <1>1, SpanFacts
<1>. QED
  BY <1>1, <1>2, <1>3

\* A superblock that the flush has not written is on the NAND to its end, and
\* has no value of the flush.
LEMMA VictimClear ==
    ASSUME IInv, pc = "assign", NeedSblk, GcNeeded(free_sblk_cnt), Settled,
           NEW v, v = GcTarget(wp_offt, sblk_rsv, valid_cnt)
    PROVE  /\ line_wp[v] = PPS
           /\ \A i \in DOMAIN fl : fl[i][1] # v
           /\ \A k \in DOMAIN ent_ppa : ent_ppa[k][1] # v
<1>1. v \in Sblks /\ wp_offt[v] = PPS
  BY VictimFacts
<1>2. \A i \in DOMAIN fl : fl[i][1] # v
  BY DEF Settled
<1>3. /\ Listed(wp_offt, line_wp, fl)
      /\ \A k \in DOMAIN ent_ppa : \E i \in DOMAIN fl : fl[i] = PageOf(ent_ppa[k])
  BY DEF IInv, ListOK
<1>4. line_wp[v] = PPS
  <2>1. line_wp[v] \in 0 .. PPS
    BY <1>1, <1>3 DEF Listed
  <2>2. ASSUME line_wp[v] < PPS PROVE FALSE
    <3> PICK p : p = <<v, line_wp[v]>>
      OBVIOUS
    <3>1. p \in Pages /\ p[1] = v /\ p[2] = line_wp[v]
      BY <1>1, <2>1, <2>2, Geometry DEF Pages
    <3>2. line_wp[p[1]] <= p[2] /\ p[2] < wp_offt[p[1]]
      BY <1>1, <2>1, <2>2, <3>1
    <3>3. \E i \in DOMAIN fl : fl[i] = p
      BY <1>3, <3>1, <3>2 DEF Listed
    <3>. QED
      BY <1>2, <3>1, <3>3
  <2>. QED
    BY <2>1, <2>2, Geometry
<1>5. ASSUME NEW k \in DOMAIN ent_ppa PROVE ent_ppa[k][1] # v
  <2>1. PICK i \in DOMAIN fl : fl[i] = PageOf(ent_ppa[k])
    BY <1>3
  <2>2. PageOf(ent_ppa[k])[1] = ent_ppa[k][1]
    BY DEF PageOf
  <2>. QED
    BY <1>2, <2>1, <2>2
<1>. QED
  BY <1>2, <1>4, <1>5

\* GC finds exactly the mapped values of the victim, and their grains are all the
\* valid grains in it.
LEMMA VictimValues ==
    ASSUME IInv, pc = "assign", NeedSblk, GcNeeded(free_sblk_cnt), Settled,
           NEW v, v = GcTarget(wp_offt, sblk_rsv, valid_cnt),
           NEW A, A = Firsts(pte_ppa, ent_ppa, DOMAIN ent_ppa)
    PROVE  /\ Tiled(valid, A, oob) /\ oob \in [Grains -> Oobs]
           /\ ValuesIn(v) = {g \in A : g[1] = v}
           /\ \A g \in ValuesIn(v) : oob[g].length \in 1 .. GRAIN_PER_PAGE
           /\ UNION {Span(g, oob[g].length) : g \in ValuesIn(v)}
                 = {g \in valid : g[1] = v}
           /\ \A g \in ValuesIn(v) : \E l \in Mapping(pte_ppa) : pte_ppa[l] = g
<1>1. v \in Sblks
  BY VictimFacts
<1>2. Tiled(valid, A, oob) /\ oob \in [Grains -> Oobs]
  BY FlashAssign DEF Flash, FlashTypes
<1>3. PICK M : M = ValuesIn(v)
  OBVIOUS
<1>4. M = {g \in A : g[1] = v}
  BY <1>1, <1>2, <1>3, ValuesInFacts, Zenon
<1>5. /\ A \subseteq Grains
      /\ \A g \in A : InPage(g, oob[g].length)
      /\ valid = UNION {Span(g, oob[g].length) : g \in A}
  BY <1>2 DEF Tiled
<1>6. \A g \in A : oob[g].length \in 1 .. GRAIN_PER_PAGE
  BY <1>5 DEF InPage
<1>7. \A g \in A : \A x \in Span(g, oob[g].length) : x[1] = g[1]
  BY DEF Span
<1>8. UNION {Span(g, oob[g].length) : g \in M} = {g \in valid : g[1] = v}
  <2>1. ASSUME NEW x \in valid, x[1] = v PROVE \E g \in M : x \in Span(g, oob[g].length)
    BY <1>4, <1>5, <1>7, <2>1
  <2>2. ASSUME NEW g \in M, NEW x \in Span(g, oob[g].length)
        PROVE  x \in valid /\ x[1] = v
    BY <1>4, <1>5, <1>7
  <2>. QED
    BY <2>1, <2>2
<1>9. ASSUME NEW g \in M PROVE \E l \in Mapping(pte_ppa) : pte_ppa[l] = g
  <2>1. \A k \in DOMAIN ent_ppa : ent_ppa[k][1] # v
    BY VictimClear
  <2>. QED
    BY <1>4, <2>1 DEF Firsts
<1>. QED
  BY <1>2, <1>3, <1>4, <1>6, <1>8, <1>9

\* GC fails only when the copies leave no page of the reserve.
LEMMA GcVerdict ==
    ASSUME IInv, pc = "assign", NeedSblk, GcNeeded(free_sblk_cnt), Settled,
           NEW v, v = GcTarget(wp_offt, sblk_rsv, valid_cnt), NEW copied
    PROVE  GcOutcome(v, ValuesIn(v), copied) =
              IF copied >= PPS THEN "get_page_num" ELSE "none"
<1>1. PICK M : M = ValuesIn(v)
  OBVIOUS
<1>2. /\ \A g \in M : oob[g].length \in 1 .. GRAIN_PER_PAGE
      /\ UNION {Span(g, oob[g].length) : g \in M} = {g \in valid : g[1] = v}
  BY <1>1, VictimValues
<1>3. ~ \E g \in M : oob[g].length = 0
  BY <1>2, Geometry
<1>4. GcOutcome(v, M, copied) = IF copied >= PPS THEN "get_page_num" ELSE "none"
  BY <1>2, <1>3 DEF GcOutcome
<1>. QED
  BY <1>1, <1>4

\* The values M of one superblock are copied to the first pages of superblock r,
\* each to grains of its own.
CopiesFit(M, to, r, pages) ==
    /\ DOMAIN to = {g[2] : g \in M}
    /\ \A g \in M : /\ to[g[2]] \in Grains /\ InPage(to[g[2]], oob[g].length)
                    /\ PageOf(to[g[2]])[1] = r /\ PageOf(to[g[2]])[2] < pages
    /\ \A g, h \in M :
          g # h => /\ to[g[2]] # to[h[2]]
                   /\ Span(to[g[2]], oob[g].length)
                         \cap Span(to[h[2]], oob[h].length) = {}

\* The layout of GC does that.
LEMMA GcSpots ==
    ASSUME NEW v \in Sblks, NEW M, M \subseteq Grains,
           \A g \in M : g[1] = v /\ oob[g].length \in 1 .. GRAIN_PER_PAGE,
           NEW r \in Sblks, wp_offt[r] = 0,
           NEW lay, lay = Layout(M), ~(lay.pages >= PPS),
           NEW to, to = [n \in DOMAIN lay.at |->
                           <<r, wp_offt[r] * GRAIN_PER_PAGE + lay.at[n]>>]
    PROVE  lay.pages \in 0 .. PPS - 1 /\ CopiesFit(M, to, r, lay.pages)
<1>1. PICK I : I = {[id |-> g[2], len |-> oob[g].length] : g \in M}
  OBVIOUS
<1>2. \A g \in M : g[2] \in Nat /\ g = <<v, g[2]>>
  BY GrainFacts
<1>3. ItemSet(I)
  <2>1. I \subseteq [id : Nat, len : 1 .. GRAIN_PER_PAGE]
    BY <1>1, <1>2
  <2>2. IsFiniteSet(M)
    <3>1. IsFiniteSet({g \in M : g[1] = v})
      BY InSblk
    <3>2. M = {g \in M : g[1] = v}
      OBVIOUS
    <3>. QED
      BY <3>1, <3>2
  <2>3. IsFiniteSet(I)
    <3> DEFINE f == [g \in M |-> [id |-> g[2], len |-> oob[g].length]]
    <3>1. DOMAIN f = M /\ I = {f[g] : g \in M}
      BY <1>1
    <3>. HIDE DEF f
    <3>2. IsFiniteSet({f[g] : g \in M})
      BY <2>2, <3>1, FiniteImage
    <3>. QED
      BY <3>1, <3>2
  <2>4. \A x, y \in I : x.id = y.id => x = y
    <3>1. ASSUME NEW x \in I, NEW y \in I, x.id = y.id PROVE x = y
      <4>1. PICK g \in M : x = [id |-> g[2], len |-> oob[g].length]
        BY <1>1
      <4>2. PICK h \in M : y = [id |-> h[2], len |-> oob[h].length]
        BY <1>1
      <4>3. g = h
        BY <1>2, <3>1, <4>1, <4>2
      <4>. QED
        BY <4>1, <4>2, <4>3
    <3>. QED
      BY <3>1
  <2>. QED
    BY <2>1, <2>3, <2>4 DEF ItemSet
<1>4. lay \in LayoutsOf(I) /\ lay.left = {}
  <2>1. Layout(M) \in LayoutsOf(I)
    BY <1>1, <1>3, LayoutFacts, Zenon
  <2>2. Layout(M).pages <= PPS => Layout(M).left = {}
    BY <1>1, <1>3, LayoutFacts, Zenon
  <2>3. lay \in LayoutsOf(I)
    BY <2>1, Zenon
  <2>4. lay.pages \in Nat
    BY <2>3 DEF LayoutsOf, LayoutStates
  <2>5. lay.pages <= PPS
    BY <2>4, Geometry
  <2>. QED
    BY <2>2, <2>3, <2>5, Zenon
<1>5. PICK at, m : at = lay.at /\ m = lay.pages
  OBVIOUS
<1>b. to = [n \in DOMAIN at |-> <<r, wp_offt[r] * GRAIN_PER_PAGE + at[n]>>]
  BY <1>5
<1>6. m \in 0 .. PPS /\ Places(I, at, m * GRAIN_PER_PAGE) /\ Whole(I, at)
  <2>1. /\ lay.pages \in Nat
        /\ Places(I \ lay.left, lay.at, lay.pages * GRAIN_PER_PAGE)
        /\ Whole(I \ lay.left, lay.at)
    BY <1>4 DEF LayoutsOf, LayoutStates
  <2>2. I \ lay.left = I
    BY <1>4
  <2>3. Places(I, at, m * GRAIN_PER_PAGE) /\ Whole(I, at)
    BY <1>5, <2>1, <2>2, Zenon
  <2>4. m \in 0 .. PPS
    BY <1>5, <2>1, Geometry
  <2>. QED
    BY <2>3, <2>4
<1>a. PICK limit : limit = m * GRAIN_PER_PAGE
  OBVIOUS
<1>7. /\ DOMAIN at = {x.id : x \in I}
      /\ \A x \in I : at[x.id] \in Nat /\ at[x.id] + x.len <= limit
                      /\ (at[x.id] % GRAIN_PER_PAGE) + x.len <= GRAIN_PER_PAGE
      /\ \A x, y \in I : x # y => \/ at[x.id] + x.len <= at[y.id]
                                  \/ at[y.id] + y.len <= at[x.id]
  <2>1. Places(I, at, limit) /\ Whole(I, at)
    BY <1>6, <1>a, Zenon
  <2>. QED
    BY <2>1, Zenon DEF Places, Whole
<1>8. DOMAIN at = {g[2] : g \in M}
  <2>1. DOMAIN at = {x.id : x \in I}
    BY <1>7
  <2>2. ASSUME NEW g \in M PROVE g[2] \in {x.id : x \in I}
    <3>1. [id |-> g[2], len |-> oob[g].length] \in I
      BY <1>1
    <3>2. [id |-> g[2], len |-> oob[g].length].id = g[2]
      OBVIOUS
    <3>. QED
      BY <3>1, <3>2
  <2>3. ASSUME NEW x \in I PROVE x.id \in {g[2] : g \in M}
    <3>1. PICK g \in M : x = [id |-> g[2], len |-> oob[g].length]
      BY <1>1
    <3>. QED
      BY <3>1
  <2>. QED
    BY <2>1, <2>2, <2>3
<1>9. to = [n \in DOMAIN at |-> <<r, at[n]>>] /\ \A n \in DOMAIN at : at[n] \in Nat
  <2>1. \A n \in DOMAIN at : at[n] \in Nat
    BY <1>7
  <2>2. ASSUME NEW n \in DOMAIN at
        PROVE  <<r, wp_offt[r] * GRAIN_PER_PAGE + at[n]>> = <<r, at[n]>>
    <3>1. 0 * GRAIN_PER_PAGE = 0 /\ at[n] \in Nat
      BY <2>1, Geometry
    <3>. QED
      BY <3>1
  <2>. QED
    BY <1>b, <2>1, <2>2
<1>10. ASSUME NEW g \in M
       PROVE  /\ g[2] \in DOMAIN at /\ to[g[2]] = <<r, at[g[2]]>>
              /\ at[g[2]] \in Nat /\ oob[g].length \in 1 .. GRAIN_PER_PAGE
              /\ at[g[2]] + oob[g].length <= limit
              /\ (at[g[2]] % GRAIN_PER_PAGE) + oob[g].length <= GRAIN_PER_PAGE
  <2> PICK x : x = [id |-> g[2], len |-> oob[g].length]
    OBVIOUS
  <2>1. x \in I /\ x.id = g[2] /\ x.len = oob[g].length
    BY <1>1
  <2>2. g[2] \in DOMAIN at
    BY <1>8
  <2>. QED
    BY <1>7, <1>9, <2>1, <2>2
<1>11. ASSUME NEW g \in M
       PROVE  /\ to[g[2]] \in Grains /\ InPage(to[g[2]], oob[g].length)
              /\ PageOf(to[g[2]])[1] = r /\ PageOf(to[g[2]])[2] < m
  <2> PICK a, len, t : a = at[g[2]] /\ len = oob[g].length /\ t = <<r, at[g[2]]>>
    OBVIOUS
  <2>1. /\ a \in Nat /\ len \in 1 .. GRAIN_PER_PAGE /\ a + len <= limit
        /\ (a % GRAIN_PER_PAGE) + len <= GRAIN_PER_PAGE /\ t = <<r, a>>
    BY <1>10
  <2>a. a + len <= m * GRAIN_PER_PAGE
    BY <1>a, <2>1, Zenon
  <2>2. t \in Grains /\ InPage(t, len) /\ PageOf(t)[1] = r /\ PageOf(t)[2] < m
    BY <1>6, <2>1, <2>a, SpotFacts
  <2>3. to[g[2]] = t
    BY <1>10
  <2>. QED
    BY <2>2, <2>3
<1>12. ASSUME NEW g \in M, NEW h \in M, g # h
       PROVE  /\ to[g[2]] # to[h[2]]
              /\ Span(to[g[2]], oob[g].length) \cap Span(to[h[2]], oob[h].length) = {}
  <2>1. PICK x, y : /\ x = [id |-> g[2], len |-> oob[g].length]
                    /\ y = [id |-> h[2], len |-> oob[h].length]
    OBVIOUS
  <2>2. /\ x \in I /\ y \in I /\ x.id = g[2] /\ y.id = h[2]
        /\ x.len = oob[g].length /\ y.len = oob[h].length
    BY <1>1, <2>1
  <2>3. x # y
    <3>1. g[2] # h[2]
      BY <1>2, <1>12
    <3>. QED
      BY <2>2, <3>1
  <2>4. PICK a, b, n, k : /\ a = at[g[2]] /\ b = at[h[2]]
                          /\ n = oob[g].length /\ k = oob[h].length
    OBVIOUS
  <2>5. /\ a \in Nat /\ b \in Nat /\ n \in 1 .. GRAIN_PER_PAGE
        /\ k \in 1 .. GRAIN_PER_PAGE /\ to[g[2]] = <<r, a>> /\ to[h[2]] = <<r, b>>
    BY <1>10, <2>4
  <2>6. a + n <= b \/ b + k <= a
    BY <1>7, <2>2, <2>3, <2>4
  <2>7. n \in Nat /\ k \in Nat /\ n >= 1 /\ k >= 1
    BY <2>5, Geometry
  <2>8. a # b
    BY <2>5, <2>6, <2>7
  <2>9. ASSUME NEW s, NEW t, s[2] \in Nat, t[2] \in Nat,
               s[2] + n <= t[2] \/ t[2] + k <= s[2]
        PROVE  Span(s, n) \cap Span(t, k) = {}
    <3>1. CASE s[2] + n <= t[2]
      BY <2>7, <2>9, <3>1, SpansApart
    <3>2. CASE t[2] + k <= s[2]
      <4>1. Span(t, k) \cap Span(s, n) = {}
        BY <2>7, <2>9, <3>2, SpansApart
      <4>. QED
        BY <4>1
    <3>. QED
      BY <2>9, <3>1, <3>2
  <2>10. Span(<<r, a>>, n) \cap Span(<<r, b>>, k) = {}
    BY <2>5, <2>6, <2>9
  <2>11. <<r, a>> # <<r, b>>
    BY <2>8
  <2>. QED
    BY <2>4, <2>5, <2>10, <2>11, Zenon
<1>13. DOMAIN to = {g[2] : g \in M}
  BY <1>8, <1>9
<1>14. CopiesFit(M, to, r, m)
  BY <1>11, <1>12, <1>13 DEF CopiesFit
<1>15. m \in 0 .. PPS - 1
  <2>1. ~(m >= PPS)
    BY <1>5, Zenon
  <2>. QED
    BY <1>6, <2>1, Geometry
<1>. QED
  BY <1>5, <1>14, <1>15, Zenon

\* What the copies make of what the grains hold: y is x after them.
MovedIs(y, x, v, M, to, r, none) ==
    /\ y = [g \in Grains |-> y[g]]
    /\ \A g \in M : y[to[g[2]]] = x[g]
    /\ \A g \in Grains : g[1] # v /\ g[1] # r => y[g] = x[g]
    /\ \A g \in Grains : y[g] = none \/ \E h \in Grains : y[g] = x[h]

LEMMA MovedFacts ==
    ASSUME NEW v, NEW r, NEW M, M \subseteq Grains, \A g \in M : g[1] = v,
           NEW to, NEW pages, CopiesFit(M, to, r, pages),
           NEW x, NEW none, NEW zeroed
    PROVE  MovedIs(MovedTo(x, v, to, none, zeroed), x, v, M, to, r, none)
<1> DEFINE from == AntiFunction(to)
           copied == [g \in DOMAIN from |-> x[<<v, from[g]>>]]
           rest == [g \in Grains |-> IF g[1] = v /\ g[2] < zeroed THEN none ELSE x[g]]
           y == Over(copied, rest)
<1>1. \A g \in M : g[2] \in DOMAIN to /\ g = <<v, g[2]>>
  BY GrainFacts DEF CopiesFit
<1>2. /\ \A n \in DOMAIN to : \E g \in M : n = g[2]
      /\ \A g, h \in M : g # h => to[g[2]] # to[h[2]]
      /\ \A g \in M : to[g[2]] \in Grains /\ PageOf(to[g[2]])[1] = r
  BY DEF CopiesFit
<1>3. \A m, n \in DOMAIN to : to[m] = to[n] => m = n
  <2>1. ASSUME NEW m \in DOMAIN to, NEW n \in DOMAIN to, to[m] = to[n] PROVE m = n
    <3>1. PICK g \in M : m = g[2]
      BY <1>2
    <3>2. PICK h \in M : n = h[2]
      BY <1>2
    <3>3. g = h
      BY <1>2, <2>1, <3>1, <3>2
    <3>. QED
      BY <3>1, <3>2, <3>3
  <2>. QED
    BY <2>1
<1>4. /\ DOMAIN from = {to[n] : n \in DOMAIN to}
      /\ \A n \in DOMAIN to : from[to[n]] = n
  BY <1>3, AntiFacts
<1>. HIDE DEF from
<1>5. /\ \A g \in M : /\ to[g[2]] \in DOMAIN from
                      /\ copied[to[g[2]]] = x[g]
      /\ \A h \in DOMAIN from : /\ h \in Grains /\ h[1] = r
                                /\ \E g \in Grains : copied[h] = x[g]
  <2>1. ASSUME NEW g \in M
        PROVE  to[g[2]] \in DOMAIN from /\ copied[to[g[2]]] = x[g]
    BY <1>1, <1>4
  <2>2. ASSUME NEW h \in DOMAIN from
        PROVE  h \in Grains /\ h[1] = r /\ \E g \in Grains : copied[h] = x[g]
    <3>1. PICK n \in DOMAIN to : h = to[n]
      BY <1>4
    <3>2. PICK g \in M : n = g[2]
      BY <1>2
    <3>3. h \in Grains /\ PageOf(h)[1] = r /\ copied[h] = x[g]
      BY <1>2, <2>1, <3>1, <3>2
    <3>4. PageOf(h)[1] = h[1]
      BY <3>3, GrainFacts
    <3>. QED
      BY <3>3, <3>4
  <2>. QED
    BY <2>1, <2>2
<1>6. /\ DOMAIN rest = Grains
      /\ \A g \in Grains : rest[g] = none \/ rest[g] = x[g]
      /\ \A g \in Grains : g[1] # v => rest[g] = x[g]
  OBVIOUS
<1>7. /\ y = [g \in DOMAIN copied \union DOMAIN rest |-> y[g]]
      /\ DOMAIN copied = DOMAIN from
  BY DEF Over
<1>. HIDE DEF copied, rest
<1>8. /\ \A g \in DOMAIN copied : y[g] = copied[g]
      /\ \A g \in DOMAIN rest \ DOMAIN copied : y[g] = rest[g]
  BY OverFacts
<1>. HIDE DEF y
<1>9. DOMAIN copied \union DOMAIN rest = Grains
  BY <1>5, <1>6, <1>7
<1>10. \A g \in M : y[to[g[2]]] = x[g]
  BY <1>5, <1>7, <1>8
<1>11. \A g \in Grains : g[1] # v /\ g[1] # r => y[g] = x[g]
  BY <1>5, <1>6, <1>7, <1>8
<1>12. ASSUME NEW g \in Grains
       PROVE  y[g] = none \/ \E h \in Grains : y[g] = x[h]
  BY <1>5, <1>6, <1>7, <1>8
<1>13. MovedIs(y, x, v, M, to, r, none)
  BY <1>7, <1>9, <1>10, <1>11, <1>12 DEF MovedIs
<1>14. MovedTo(x, v, to, none, zeroed) = y
  BY DEF MovedTo, y, copied, rest, from
<1>. QED
  BY <1>13, <1>14, Zenon

LEMMA MovedTyped ==
    ASSUME NEW y, NEW x, NEW v, NEW M, NEW to, NEW r, NEW none, NEW T,
           MovedIs(y, x, v, M, to, r, none), none \in T, x \in [Grains -> T]
    PROVE  y \in [Grains -> T]
<1>1. \A g \in Grains : y[g] \in T
  BY DEF MovedIs
<1>2. y = [g \in Grains |-> y[g]]
  BY DEF MovedIs
<1>. QED
  BY <1>1, <1>2

\* The mapping after the copies.
PointedTo(tp, M, to) ==
    /\ tp \in [Lpas -> Grains \union {NoGrain}]
    /\ Mapping(tp) = Mapping(pte_ppa)
    /\ \A l \in Mapping(pte_ppa) :
          tp[l] = IF pte_ppa[l] \in M THEN to[pte_ppa[l][2]] ELSE pte_ppa[l]

\* The OOBs of the values lead GC to their entries.
LEMMA PpaFacts ==
    ASSUME NEW M, M \subseteq Grains, \A g \in M : \E l \in Mapping(pte_ppa) : pte_ppa[l] = g,
           pte_ppa \in [Lpas -> Grains \union {NoGrain}],
           Named(oob, cell, pte_ppa, real_keys),
           NEW to, NEW r, NEW pages, CopiesFit(M, to, r, pages)
    PROVE  PointedTo(PpaAfterGc(M, to), M, to)
<1> DEFINE Q(l) == {g \in M : oob[g].lpa = l}
           Latest(S) == CHOOSE g \in S : \A h \in S : h[2] <= g[2]
<1>1. PICK tp : tp = PpaAfterGc(M, to)
  OBVIOUS
<1>2. tp = [l \in Lpas |-> IF Q(l) = {} THEN pte_ppa[l] ELSE to[Latest(Q(l))[2]]]
  BY <1>1 DEF PpaAfterGc
<1>3. \A l \in Mapping(pte_ppa) : oob[pte_ppa[l]].lpa = l
  BY DEF Named
<1>4. ASSUME NEW l \in Lpas, NEW g \in Q(l) PROVE l \in Mapping(pte_ppa) /\ pte_ppa[l] = g
  BY <1>3, <1>4
<1>5. ASSUME NEW l \in Lpas, Q(l) = {} PROVE tp[l] = pte_ppa[l] /\ pte_ppa[l] \notin M
  <2>1. tp[l] = pte_ppa[l]
    BY <1>2, <1>5
  <2>2. ASSUME pte_ppa[l] \in M PROVE FALSE
    <3>1. l \in Mapping(pte_ppa)
      BY <2>2, NoGrainFacts DEF Mapping
    <3>. QED
      BY <1>3, <1>5, <2>2, <3>1
  <2>. QED
    BY <2>1, <2>2
<1>6. ASSUME NEW l \in Lpas, Q(l) # {}
      PROVE  /\ l \in Mapping(pte_ppa) /\ pte_ppa[l] \in M
             /\ tp[l] = to[pte_ppa[l][2]]
  <2>1. PICK q \in Q(l) : TRUE
    BY <1>6
  <2>2. l \in Mapping(pte_ppa) /\ pte_ppa[l] = q
    BY <1>4
  <2>3. Q(l) = {q}
    BY <1>4, <2>2
  <2>4. q \in M /\ q[2] \in Nat
    BY GrainFacts
  <2>5. Latest({q}) = q
    BY <2>4
  <2>6. tp[l] = to[Latest(Q(l))[2]]
    BY <1>2, <1>6
  <2>. HIDE DEF Latest, Q
  <2>7. tp[l] = to[q[2]]
    BY <2>3, <2>5, <2>6, Zenon
  <2>. QED
    BY <2>2, <2>4, <2>7, Zenon
<1>. HIDE DEF Q
<1>7. \A g \in M : to[g[2]] \in Grains
  BY DEF CopiesFit
<1>8. ASSUME NEW l \in Lpas
      PROVE  /\ tp[l] \in Grains \union {NoGrain}
             /\ l \in Mapping(tp) <=> l \in Mapping(pte_ppa)
             /\ tp[l] = IF pte_ppa[l] \in M THEN to[pte_ppa[l][2]] ELSE pte_ppa[l]
  <2>1. CASE Q(l) = {}
    BY <1>5, <2>1 DEF Mapping
  <2>2. CASE Q(l) # {}
    BY <1>6, <1>7, <2>2, NoGrainFacts DEF Mapping
  <2>. QED
    BY <2>1, <2>2
<1>9. tp \in [Lpas -> Grains \union {NoGrain}]
  <2>1. tp = [l \in Lpas |-> tp[l]]
    BY <1>2
  <2>. QED
    BY <1>8, <2>1
<1>10. Mapping(tp) = Mapping(pte_ppa)
  BY <1>8 DEF Mapping
<1>11. PointedTo(tp, M, to)
  BY <1>8, <1>9, <1>10 DEF PointedTo, Mapping
<1>. QED
  BY <1>1, <1>11, Zenon

\* The valid grains GC leaves alone, and those it moves.
Elsewhere(v) == {g \in valid : g[1] # v}
Here(v) == {g \in valid : g[1] = v}

LEMMA CopiedFacts ==
    ASSUME NEW M, NEW to, NEW r, NEW pages, CopiesFit(M, to, r, pages)
    PROVE  /\ Copied(M, to) \subseteq Grains
           /\ \A g \in Copied(M, to) : g[1] = r /\ PageOf(g)[2] < pages
           /\ \A g \in M : to[g[2]] \in Copied(M, to)
<1>1. ASSUME NEW g \in M, NEW x \in Span(to[g[2]], oob[g].length)
      PROVE  x \in Grains /\ x[1] = r /\ PageOf(x)[2] < pages
  <2>1. /\ to[g[2]] \in Grains /\ InPage(to[g[2]], oob[g].length)
        /\ PageOf(to[g[2]])[1] = r /\ PageOf(to[g[2]])[2] < pages
    BY DEF CopiesFit
  <2>2. x \in Grains /\ PageOf(x) = PageOf(to[g[2]])
    BY <2>1, SpanFacts
  <2>3. PageOf(x)[1] = x[1]
    BY <2>2, GrainFacts
  <2>. QED
    BY <2>1, <2>2, <2>3
<1>2. ASSUME NEW g \in M PROVE to[g[2]] \in Span(to[g[2]], oob[g].length)
  BY FirstInSpan DEF CopiesFit
<1>. QED
  BY <1>1, <1>2 DEF Copied

\* The values and the copies share no grain.
LEMMA GcTiled ==
    ASSUME NEW v, NEW r, NEW A, Tiled(valid, A, oob), \A g \in valid : g[1] # r,
           NEW M, M \subseteq A, Owned(M, oob) = Here(v),
           NEW to, NEW pages, CopiesFit(M, to, r, pages),
           NEW oobs, \A g \in M : oobs[to[g[2]]].length = oob[g].length,
           \A g \in A \ M : oobs[g].length = oob[g].length
    PROVE  Tiled(Elsewhere(v) \union Copied(M, to), (A \ M) \union {to[g[2]] : g \in M},
                 oobs)
<1>a. PICK N : N = {to[g[2]] : g \in M}
  OBVIOUS
<1>b. PICK W : W = Here(v)
  OBVIOUS
<1>1. Tiled(valid \ W, A \ M, oobs)
  <2>1. W = Owned(M, oob)
    BY <1>b
  <2>2. Tiled(valid \ Owned(M, oob), A \ M, oobs)
    BY TiledRemove
  <2>. QED
    BY <2>1, <2>2, Zenon
<1>2. valid \ W = Elsewhere(v)
  BY <1>b DEF Elsewhere, Here
<1>3. /\ N \subseteq Grains
      /\ \A h \in N : InPage(h, oobs[h].length) /\ PageOf(h)[1] = r
  BY <1>a DEF CopiesFit
<1>4. ASSUME NEW g \in N, NEW h \in N, g # h
      PROVE  Span(g, oobs[g].length) \cap Span(h, oobs[h].length) = {}
  <2>1. PICK x \in M : g = to[x[2]]
    BY <1>a
  <2>2. PICK y \in M : h = to[y[2]]
    BY <1>a
  <2>3. x # y
    BY <1>4, <2>1, <2>2
  <2>4. Span(to[x[2]], oob[x].length) \cap Span(to[y[2]], oob[y].length) = {}
    BY <2>3 DEF CopiesFit
  <2>5. oobs[g].length = oob[x].length /\ oobs[h].length = oob[y].length
    BY <2>1, <2>2
  <2>. QED
    BY <2>1, <2>2, <2>4, <2>5, Zenon
<1>5. Copied(M, to) = UNION {Span(h, oobs[h].length) : h \in N}
  <2>1. \A g \in M : Span(to[g[2]], oobs[to[g[2]]].length) = Span(to[g[2]], oob[g].length)
    OBVIOUS
  <2>. QED
    BY <1>a, <2>1 DEF Copied
<1>6. ASSUME NEW h \in N PROVE Span(h, oobs[h].length) \cap (valid \ W) = {}
  <2>1. Span(h, oobs[h].length) \subseteq Copied(M, to)
    BY <1>5
  <2>2. \A g \in Copied(M, to) : g[1] = r
    BY CopiedFacts
  <2>. QED
    BY <2>1, <2>2
<1>7. Tiled((valid \ W) \union Copied(M, to), (A \ M) \union N, oobs)
  BY <1>1, <1>3, <1>4, <1>5, <1>6, TiledAdd
<1>. QED
  BY <1>2, <1>7, <1>a, Zenon

\* The counts after GC.
LEMMA GcExact ==
    ASSUME Exact(valid, valid_cnt), valid \subseteq Grains,
           NEW v \in Sblks, NEW r \in Sblks, v # r, \A g \in valid : g[1] # r,
           NEW moved, moved \subseteq Grains, \A g \in moved : g[1] = r
    PROVE  Exact(Elsewhere(v) \union moved,
                 [valid_cnt EXCEPT ![r] = @ + Cardinality(moved), ![v] = 0])
<1>a. PICK V : V = Elsewhere(v) \union moved
  OBVIOUS
<1>b. PICK c : c = [valid_cnt EXCEPT ![r] = @ + Cardinality(moved), ![v] = 0]
  OBVIOUS
<1>1. /\ valid_cnt \in [Sblks -> 0 .. GrainsPerSblk]
      /\ \A b \in Sblks : valid_cnt[b] = Cardinality({g \in valid : g[1] = b})
  BY DEF Exact
<1>2. Cardinality(moved) \in 0 .. GrainsPerSblk
  <2>1. moved = {g \in moved : g[1] = r}
    OBVIOUS
  <2>2. Cardinality({g \in moved : g[1] = r}) \in 0 .. GrainsPerSblk
    BY InSblk
  <2>. QED
    BY <2>1, <2>2
<1>3. Cardinality({}) = 0
  BY FS_EmptySet
<1>4. valid_cnt[r] = 0
  <2>1. {g \in valid : g[1] = r} = {}
    OBVIOUS
  <2>. QED
    BY <1>1, <1>3, <2>1
<1>5. /\ c[v] = 0 /\ c[r] = valid_cnt[r] + Cardinality(moved)
      /\ \A b \in Sblks : b # v /\ b # r => c[b] = valid_cnt[b]
      /\ c = [b \in Sblks |-> c[b]]
  BY <1>1, <1>b
<1>6. c[r] = Cardinality(moved)
  <2>1. Cardinality(moved) \in Int
    BY <1>2, Geometry
  <2>. QED
    BY <1>4, <1>5, <2>1
<1>7. ASSUME NEW b \in Sblks
      PROVE  c[b] = Cardinality({g \in V : g[1] = b}) /\ c[b] \in 0 .. GrainsPerSblk
  <2>1. CASE b = v
    <3>1. {g \in V : g[1] = b} = {}
      BY <1>a, <2>1 DEF Elsewhere
    <3>2. Cardinality({g \in V : g[1] = b}) = 0
      BY <1>3, <3>1, Zenon
    <3>3. c[b] = 0
      BY <1>5, <2>1
    <3>4. 0 \in 0 .. GrainsPerSblk
      BY Geometry
    <3>. QED
      BY <3>2, <3>3, <3>4, Zenon
  <2>2. CASE b = r
    <3>1. {g \in V : g[1] = b} = moved
      BY <1>a, <2>2 DEF Elsewhere
    <3>. QED
      BY <1>2, <1>6, <2>2, <3>1
  <2>3. CASE b # v /\ b # r
    <3>1. {g \in V : g[1] = b} = {g \in valid : g[1] = b}
      BY <1>a, <2>3 DEF Elsewhere
    <3>. QED
      BY <1>1, <1>5, <2>3, <3>1
  <2>. QED
    BY <2>1, <2>2, <2>3
<1>8. Exact(V, c)
  <2>1. c \in [Sblks -> 0 .. GrainsPerSblk]
    BY <1>5, <1>7
  <2>. QED
    BY <1>7, <2>1 DEF Exact
<1>. QED
  BY <1>a, <1>b, <1>8, Zenon

\* The OOBs after GC.
OobsFollow(oobs, v, M, to, r) ==
    /\ oobs \in [Grains -> Oobs]
    /\ \A g \in M : oobs[to[g[2]]] = oob[g]
    /\ \A g \in valid : g \in Grains /\ g[1] # v /\ g[1] # r => oobs[g] = oob[g]

LEMMA GcOobs ==
    ASSUME oob \in [Grains -> Oobs],
           NEW v, NEW r, NEW M, NEW to, NEW pages, CopiesFit(M, to, r, pages),
           NEW out, MovedIs(out, oob, v, M, to, r, NoOob), NEW S
    PROVE  OobsFollow(Kept(out, valid \union Copied(M, to) \union S), v, M, to, r)
<1>a. PICK gs : gs = valid \union Copied(M, to) \union S
  OBVIOUS
<1>b. PICK oobs : oobs = Kept(out, gs)
  OBVIOUS
<1>1. NoOob \in Oobs
  BY FlushAssumption DEF NoOob, Oobs, Lpas
<1>2. out \in [Grains -> Oobs]
  BY <1>1, MovedTyped
<1>3. oobs \in [Grains -> Oobs]
  BY <1>b, <1>1, <1>2 DEF Kept
<1>4. \A g \in Grains : g \in gs => oobs[g] = out[g]
  BY <1>b DEF Kept
<1>5. \A g \in M : to[g[2]] \in Grains /\ to[g[2]] \in gs
  BY <1>a, CopiedFacts
<1>6. \A g \in M : oobs[to[g[2]]] = oob[g]
  BY <1>4, <1>5 DEF MovedIs
<1>7. \A g \in valid : g \in Grains /\ g[1] # v /\ g[1] # r => oobs[g] = oob[g]
  BY <1>4, <1>a DEF MovedIs
<1>8. OobsFollow(oobs, v, M, to, r)
  BY <1>3, <1>6, <1>7 DEF OobsFollow
<1>. QED
  BY <1>a, <1>b, <1>8, Zenon

\* What GC makes of the flash.
FlashMoved(v, r, M, to, pages, oobs, cells, tp) ==
    /\ Flash([wp_offt EXCEPT ![r] = @ + pages, ![v] = 0],
             Elsewhere(v) \union Copied(M, to),
             [valid_cnt EXCEPT ![r] = @ + Cardinality(Copied(M, to)), ![v] = 0],
             oobs, cells, tp, ent_ppa, DOMAIN ent_ppa, real_keys, wb)
    /\ \A l \in Mapping(pte_ppa) : cells[tp[l]] = cell[pte_ppa[l]]

\* GC keeps what the flash has.
LEMMA GcFlash ==
    ASSUME IInv, pc = "assign", NeedSblk, GcNeeded(free_sblk_cnt), Settled,
           NEW v, v = GcTarget(wp_offt, sblk_rsv, valid_cnt),
           NEW r, r = sblk_rsv, NEW M, M = ValuesIn(v),
           NEW to, NEW pages \in 0 .. PPS - 1, CopiesFit(M, to, r, pages),
           NEW tp, PointedTo(tp, M, to),
           NEW oobs, OobsFollow(oobs, v, M, to, r),
           NEW cells, MovedIs(cells, cell, v, M, to, r, NoCell)
    PROVE  FlashMoved(v, r, M, to, pages, oobs, cells, tp)
<1>a. PICK P : P = DOMAIN ent_ppa
  OBVIOUS
<1>b. PICK A : A = Firsts(pte_ppa, ent_ppa, P)
  OBVIOUS
<1>c. PICK wp : wp = [wp_offt EXCEPT ![r] = @ + pages, ![v] = 0]
  OBVIOUS
<1>d. PICK N : N = {to[g[2]] : g \in M}
  OBVIOUS
<1>1. v \in Sblks /\ v # r /\ wp_offt[v] = PPS
  BY VictimFacts
<1>2. r \in Sblks /\ wp_offt[r] = 0
  BY DEF IInv, Roles
<1>3. /\ wp_offt \in [Sblks -> 0 .. PPS]
      /\ cell \in [Grains -> Cells]
      /\ pte_ppa \in [Lpas -> Grains \union {NoGrain}]
      /\ HeldOnce(pte_ppa, ent_ppa, P)
      /\ \A g \in valid : Programmed(wp_offt, PageOf(g))
      /\ Exact(valid, valid_cnt)
      /\ Named(oob, cell, pte_ppa, real_keys)
      /\ Written(cell, ent_ppa, P, wb)
  BY <1>a, FlashAssign DEF Flash, FlashTypes
<1>4. Tiled(valid, A, oob) /\ oob \in [Grains -> Oobs]
  <2>1. A = Firsts(pte_ppa, ent_ppa, DOMAIN ent_ppa)
    BY <1>a, <1>b, Zenon
  <2>. QED
    BY <2>1, VictimValues
<1>5. /\ M = {g \in A : g[1] = v}
      /\ UNION {Span(g, oob[g].length) : g \in M} = {g \in valid : g[1] = v}
      /\ \A g \in M : \E l \in Mapping(pte_ppa) : pte_ppa[l] = g
  <2>1. A = Firsts(pte_ppa, ent_ppa, DOMAIN ent_ppa)
    BY <1>a, <1>b, Zenon
  <2>. QED
    BY <2>1, VictimValues
<1>6. valid \subseteq Grains /\ A \subseteq valid
  BY <1>4, FirstsValid
<1>7. \A g \in valid : g[1] # r
  <2>1. ASSUME NEW g \in valid, g[1] = r PROVE FALSE
    <3>1. PageOf(g) \in Pages /\ PageOf(g)[1] = r
      BY <1>6, <2>1, GrainFacts
    <3>2. PageOf(g)[2] < 0 /\ PageOf(g)[2] \in Nat
      BY <1>2, <1>3, <3>1 DEF Programmed, Pages
    <3>. QED
      BY <3>2
  <2>. QED
    BY <2>1
<1>8. M \subseteq A /\ \A g \in A \ M : g[1] # v /\ g[1] # r /\ g \in Grains /\ g \in valid
  BY <1>5, <1>6, <1>7
<1>9. Tiled(Elsewhere(v) \union Copied(M, to), (A \ M) \union N, oobs)
  <2>1. \A g \in M : oobs[to[g[2]]].length = oob[g].length
    BY DEF OobsFollow
  <2>2. \A g \in A \ M : oobs[g].length = oob[g].length
    BY <1>8 DEF OobsFollow
  <2>3. Tiled(Elsewhere(v) \union Copied(M, to),
              (A \ M) \union {to[g[2]] : g \in M}, oobs)
    <3>1. Owned(M, oob) = Here(v)
      BY <1>5 DEF Owned, Here
    <3>2. M \subseteq A /\ Tiled(valid, A, oob)
      BY <1>4, <1>8
    <3>. QED
      BY <1>7, <2>1, <2>2, <3>1, <3>2, GcTiled
  <2>. QED
    BY <1>d, <2>3, Zenon
<1>10. /\ Mapping(tp) = Mapping(pte_ppa)
       /\ \A l \in Mapping(pte_ppa) :
             tp[l] = IF pte_ppa[l] \in M THEN to[pte_ppa[l][2]] ELSE pte_ppa[l]
       /\ tp \in [Lpas -> Grains \union {NoGrain}]
  BY DEF PointedTo
<1>11. /\ \A l \in Mapping(pte_ppa) : pte_ppa[l] \in A
       /\ \A k \in P : ent_ppa[k] \in A \ M
  <2>1. \A k \in P : ent_ppa[k][1] # v
    BY <1>a, VictimClear, v = GcTarget(wp_offt, sblk_rsv, valid_cnt)
  <2>. QED
    BY <1>5, <1>b, <2>1 DEF Firsts
<1>12. Firsts(tp, ent_ppa, P) = (A \ M) \union N
  <2>1. ASSUME NEW g \in Firsts(tp, ent_ppa, P) PROVE g \in (A \ M) \union N
    <3>1. CASE \E k \in P : g = ent_ppa[k]
      BY <1>11, <3>1
    <3>2. CASE \E l \in Mapping(tp) : g = tp[l]
      BY <1>10, <1>11, <1>d, <3>2
    <3>. QED
      BY <3>1, <3>2 DEF Firsts
  <2>2. ASSUME NEW g \in A \ M PROVE g \in Firsts(tp, ent_ppa, P)
    <3>1. CASE \E k \in P : g = ent_ppa[k]
      BY <3>1 DEF Firsts
    <3>2. CASE \E l \in Mapping(pte_ppa) : g = pte_ppa[l]
      BY <1>10, <3>2 DEF Firsts
    <3>. QED
      BY <1>b, <3>1, <3>2 DEF Firsts
  <2>3. ASSUME NEW g \in M PROVE to[g[2]] \in Firsts(tp, ent_ppa, P)
    <3>1. PICK l \in Mapping(pte_ppa) : pte_ppa[l] = g
      BY <1>5
    <3>2. tp[l] = to[g[2]]
      BY <1>10, <3>1
    <3>. QED
      BY <1>10, <3>1, <3>2 DEF Firsts
  <2>. QED
    BY <1>d, <2>1, <2>2, <2>3
<1>13. \A h \in N : h[1] = r /\ h \notin A
  <2>1. \A g \in M : to[g[2]] \in Copied(M, to) /\ to[g[2]][1] = r
    BY CopiedFacts
  <2>. QED
    BY <1>6, <1>7, <1>d, <2>1
<1>14. HeldOnce(tp, ent_ppa, P)
  <2>1. ASSUME NEW l \in Mapping(tp), NEW m \in Mapping(tp), tp[l] = tp[m] PROVE l = m
    <3>1. l \in Mapping(pte_ppa) /\ m \in Mapping(pte_ppa)
      BY <1>10
    <3>2. pte_ppa[l] = pte_ppa[m]
      <4>1. CASE pte_ppa[l] \in M /\ pte_ppa[m] \in M
        BY <1>10, <2>1, <3>1, <4>1 DEF CopiesFit
      <4>2. CASE pte_ppa[l] \notin M /\ pte_ppa[m] \notin M
        BY <1>10, <2>1, <3>1, <4>2
      <4>3. CASE pte_ppa[l] \in M /\ pte_ppa[m] \notin M
        BY <1>10, <1>11, <1>13, <1>d, <2>1, <3>1, <4>3
      <4>4. CASE pte_ppa[l] \notin M /\ pte_ppa[m] \in M
        BY <1>10, <1>11, <1>13, <1>d, <2>1, <3>1, <4>4
      <4>. QED
        BY <4>1, <4>2, <4>3, <4>4
    <3>. QED
      BY <1>3, <3>1, <3>2 DEF HeldOnce
  <2>2. ASSUME NEW l \in Mapping(tp), NEW k \in P PROVE tp[l] # ent_ppa[k]
    <3>1. l \in Mapping(pte_ppa) /\ pte_ppa[l] # ent_ppa[k]
      BY <1>3, <1>10 DEF HeldOnce
    <3>2. CASE pte_ppa[l] \in M
      BY <1>10, <1>11, <1>13, <1>d, <3>1, <3>2
    <3>3. CASE pte_ppa[l] \notin M
      BY <1>10, <3>1, <3>3
    <3>. QED
      BY <3>2, <3>3
  <2>3. \A j, k \in P : ent_ppa[j] = ent_ppa[k] => j = k
    BY <1>3 DEF HeldOnce
  <2>. QED
    BY <2>1, <2>2, <2>3 DEF HeldOnce
<1>15. /\ wp \in [Sblks -> 0 .. PPS] /\ wp[r] = pages
       /\ \A b \in Sblks : b # r /\ b # v => wp[b] = wp_offt[b]
  <2>1. 0 + pages = pages /\ pages \in 0 .. PPS /\ 0 \in 0 .. PPS
    BY Geometry
  <2>. QED
    BY <1>1, <1>2, <1>3, <1>c, <2>1
<1>16. ASSUME NEW g \in Elsewhere(v) \union Copied(M, to)
       PROVE  Programmed(wp, PageOf(g))
  <2>1. CASE g \in Copied(M, to)
    <3>1. g \in Grains /\ g[1] = r /\ PageOf(g)[2] < pages
      BY <2>1, CopiedFacts
    <3>2. PageOf(g)[1] = r
      BY <3>1, GrainFacts
    <3>. QED
      BY <1>15, <3>1, <3>2 DEF Programmed
  <2>2. CASE g \in Elsewhere(v)
    <3>1. g \in valid /\ g[1] # v /\ g[1] # r /\ g \in Grains
      BY <1>6, <1>7, <2>2 DEF Elsewhere
    <3>2. PageOf(g)[1] = g[1] /\ g[1] \in Sblks
      BY <3>1, GrainFacts
    <3>. QED
      BY <1>3, <1>15, <3>1, <3>2 DEF Programmed
  <2>. QED
    BY <2>1, <2>2
<1>17. Exact(Elsewhere(v) \union Copied(M, to),
             [valid_cnt EXCEPT ![r] = @ + Cardinality(Copied(M, to)), ![v] = 0])
  <2>1. Copied(M, to) \subseteq Grains /\ \A g \in Copied(M, to) : g[1] = r
    BY CopiedFacts
  <2>. QED
    BY <1>1, <1>2, <1>3, <1>6, <1>7, <2>1, GcExact
<1>18. Named(oobs, cells, tp, real_keys)
  <2>1. ASSUME NEW l \in Mapping(tp)
        PROVE  oobs[tp[l]].lpa = l /\ cells[tp[l]][1] = real_keys[l]
    <3>1. /\ l \in Mapping(pte_ppa) /\ oob[pte_ppa[l]].lpa = l
          /\ cell[pte_ppa[l]][1] = real_keys[l]
      BY <1>3, <1>10 DEF Named
    <3>2. oobs[tp[l]] = oob[pte_ppa[l]]
      BY <1>8, <1>10, <1>11, <3>1 DEF OobsFollow
    <3>3. cells[tp[l]] = cell[pte_ppa[l]]
      BY <1>8, <1>10, <1>11, <3>1 DEF MovedIs
    <3>. QED
      BY <3>1, <3>2, <3>3
  <2>. QED
    BY <2>1 DEF Named
<1>19. Written(cells, ent_ppa, P, wb)
  BY <1>3, <1>8, <1>11 DEF Written, MovedIs
<1>20. cells \in [Grains -> Cells]
  BY <1>3, MovedTyped DEF Cells
<1>21. FlashTypes(wp, oobs, cells, tp)
  BY <1>10, <1>15, <1>20 DEF FlashTypes, OobsFollow
<1>22. Tiled(Elsewhere(v) \union Copied(M, to), Firsts(tp, ent_ppa, P), oobs)
  BY <1>9, <1>12, Zenon
<1>23. Flash(wp, Elsewhere(v) \union Copied(M, to),
             [valid_cnt EXCEPT ![r] = @ + Cardinality(Copied(M, to)), ![v] = 0],
             oobs, cells, tp, ent_ppa, P, real_keys, wb)
  BY <1>14, <1>16, <1>17, <1>18, <1>19, <1>21, <1>22, Zenon DEF Flash
<1>24. \A l \in Mapping(pte_ppa) : cells[tp[l]] = cell[pte_ppa[l]]
  BY <1>8, <1>10, <1>11 DEF MovedIs
<1>. QED
  BY <1>23, <1>24, <1>a, <1>c, Zenon DEF FlashMoved

\* The NAND follows GC, and refuses nothing.
LEMMA GcList ==
    ASSUME IInv, pc = "assign", NeedSblk, GcNeeded(free_sblk_cnt), Settled,
           NEW v, v = GcTarget(wp_offt, sblk_rsv, valid_cnt),
           NEW r, r = sblk_rsv, NEW pages \in 0 .. PPS - 1
    PROVE  /\ Listed([wp_offt EXCEPT ![r] = @ + pages, ![v] = 0],
                     Trim(Write(line_wp, r, wp_offt[r], pages), v), fl)
           /\ ~WriteFails(line_wp, r, wp_offt[r], pages)
           /\ \A g \in valid : g[1] = v => Programmed(line_wp, PageOf(g))
<1>a. PICK wp : wp = [wp_offt EXCEPT ![r] = @ + pages, ![v] = 0]
  OBVIOUS
<1>b. PICK lw : lw = Trim(Write(line_wp, r, wp_offt[r], pages), v)
  OBVIOUS
<1>1. v \in Sblks /\ v # r /\ wp_offt[v] = PPS
  BY VictimFacts
<1>2. /\ r \in Sblks /\ wp_offt[r] = 0 /\ wp_offt \in [Sblks -> 0 .. PPS]
      /\ valid \subseteq Grains
  <2>1. Tiled(valid, Firsts(pte_ppa, ent_ppa, Pending), oob)
    BY DEF IInv, FlashOK, Flash
  <2>2. valid \subseteq Grains
    BY <2>1, FirstsValid
  <2>. QED
    BY <2>2 DEF IInv, Roles, FlashOK, Flash, FlashTypes
<1>3. Listed(wp_offt, line_wp, fl)
  BY DEF IInv, ListOK
<1>4. /\ line_wp[v] = PPS /\ \A i \in DOMAIN fl : fl[i][1] # v
  BY VictimClear
<1>5. line_wp \in [Sblks -> 0 .. PPS] /\ line_wp[r] = 0
  <2>1. line_wp \in [Sblks -> 0 .. PPS] /\ line_wp[r] <= 0
    BY <1>2, <1>3 DEF Listed
  <2>2. line_wp[r] \in Nat
    BY <1>2, <2>1, Geometry
  <2>. QED
    BY <2>1, <2>2
<1>6. ~WriteFails(line_wp, r, wp_offt[r], pages)
  BY <1>2, <1>5 DEF WriteFails
<1>7. /\ lw \in [Sblks -> 0 .. PPS] /\ lw[r] = pages /\ lw[v] = 0
      /\ \A b \in Sblks : b # r /\ b # v => lw[b] = line_wp[b]
  <2>1. lw = [[line_wp EXCEPT ![r] = @ + pages] EXCEPT ![v] = 0]
    BY <1>6, <1>b DEF Trim, Write
  <2>2. 0 + pages = pages /\ pages \in 0 .. PPS /\ 0 \in 0 .. PPS
    BY Geometry
  <2>. QED
    BY <1>1, <1>2, <1>5, <2>1, <2>2
<1>8. /\ wp \in [Sblks -> 0 .. PPS] /\ wp[r] = pages /\ wp[v] = 0
      /\ \A b \in Sblks : b # r /\ b # v => wp[b] = wp_offt[b]
  <2>1. 0 + pages = pages /\ pages \in 0 .. PPS /\ 0 \in 0 .. PPS
    BY Geometry
  <2>. QED
    BY <1>1, <1>2, <1>a, <2>1
<1>9. \A i \in DOMAIN fl : fl[i] \in Pages /\ fl[i][1] # r
  <2>1. ASSUME NEW i \in DOMAIN fl PROVE fl[i] \in Pages /\ fl[i][1] # r
    <3>1. fl[i] \in Pages
      BY <1>3 DEF Listed
    <3>2. fl[i][2] < wp_offt[fl[i][1]]
      BY <1>3, <3>1 DEF Listed
    <3>3. fl[i][2] \in Nat
      BY <3>1 DEF Pages
    <3>. QED
      BY <1>2, <3>1, <3>2, <3>3
  <2>. QED
    BY <2>1
<1>10. ASSUME NEW b \in Sblks PROVE lw[b] <= wp[b]
  <2>1. line_wp[b] <= wp_offt[b]
    BY <1>3 DEF Listed
  <2>. QED
    BY <1>7, <1>8, <2>1, Geometry
<1>11. ASSUME NEW p \in Pages
       PROVE  (lw[p[1]] <= p[2] /\ p[2] < wp[p[1]]) <=> \E i \in DOMAIN fl : fl[i] = p
  <2>1. p[1] \in Sblks /\ p[2] \in Nat
    BY DEF Pages
  <2>2. CASE p[1] = r
    <3>1. ~(lw[p[1]] <= p[2] /\ p[2] < wp[p[1]])
      BY <1>7, <1>8, <2>1, <2>2, Geometry
    <3>. QED
      BY <1>9, <2>2, <3>1
  <2>3. CASE p[1] = v
    <3>1. ~(lw[p[1]] <= p[2] /\ p[2] < wp[p[1]])
      BY <1>7, <1>8, <2>1, <2>3, Geometry
    <3>. QED
      BY <1>4, <2>3, <3>1
  <2>4. CASE p[1] # r /\ p[1] # v
    BY <1>3, <1>7, <1>8, <2>1, <2>4 DEF Listed
  <2>. QED
    BY <2>2, <2>3, <2>4
<1>12. Listed(wp, lw, fl)
  BY <1>3, <1>7, <1>10, <1>11 DEF Listed
<1>13. ASSUME NEW g \in valid, g[1] = v PROVE Programmed(line_wp, PageOf(g))
  <2>1. PageOf(g) \in Pages /\ PageOf(g)[1] = v
    BY <1>2, <1>13, GrainFacts
  <2>2. PageOf(g)[2] < PPS
    BY <2>1, Geometry DEF Pages
  <2>. QED
    BY <1>4, <2>1, <2>2 DEF Programmed
<1>14. Listed([wp_offt EXCEPT ![r] = @ + pages, ![v] = 0],
              Trim(Write(line_wp, r, wp_offt[r], pages), v), fl)
  BY <1>12, <1>a, <1>b, Zenon
<1>. QED
  BY <1>6, <1>13, <1>14

LEMMA AfterGcKeeps ==
    ASSUME IInv, Settled, AssignAfterGc
    PROVE  IInv' /\ Stays
<1>a. PICK v : v = GcTarget(wp_offt, sblk_rsv, valid_cnt)
  OBVIOUS
<1>b. PICK M : M = ValuesIn(v)
  OBVIOUS
<1>c. PICK lay : lay = Layout(M)
  OBVIOUS
<1>d. PICK to : to = CopiesAt(lay)
  OBVIOUS
<1>e. PICK pages : pages = lay.pages
  OBVIOUS
<1>f. PICK r : r = sblk_rsv
  OBVIOUS
<1>1. /\ pc = "assign" /\ NeedSblk /\ GcNeeded(free_sblk_cnt)
      /\ GcThenPlace(v, M, to, pages)
      /\ UNCHANGED <<active_sblk, free_sblk_cnt, failed>>
  <2>1. /\ pc = "assign" /\ NeedSblk /\ GcNeeded(free_sblk_cnt)
        /\ \E M0 \in {ValuesIn(v)} : \E lay0 \in {Layout(M0)} :
              GcThenPlace(v, M0, CopiesAt(lay0), lay0.pages)
        /\ UNCHANGED <<active_sblk, free_sblk_cnt, failed>>
    BY <1>a DEF AssignAfterGc
  <2>2. GcThenPlace(v, M, CopiesAt(lay), lay.pages)
    BY <1>b, <1>c, <2>1
  <2>. QED
    BY <1>d, <1>e, <2>1, <2>2, Zenon
<1>g. PICK tp : tp = PpaAfterGc(M, to)
  OBVIOUS
<1>h. PICK out : out = MovedTo(oob, v, to, NoOob, OobZeroed)
  OBVIOUS
<1>i. PICK cells : cells = MovedTo(cell, v, to, NoCell, GrainsPerSblk)
  OBVIOUS
<1>j. PICK V : V = Elsewhere(v) \union Copied(M, to)
  OBVIOUS
<1>k. PICK wp : wp = [wp_offt EXCEPT ![r] = @ + pages, ![v] = 0]
  OBVIOUS
<1>l. PICK lw : lw = Trim(Write(line_wp, r, wp_offt[r], pages), v)
  OBVIOUS
<1>m. PICK cnt : cnt = [valid_cnt EXCEPT ![r] = @ + Cardinality(Copied(M, to)), ![v] = 0]
  OBVIOUS
<1>n. PICK oobs : oobs = Kept(out, valid \union Copied(M, to)
                                     \union (Range(ent_ppa) \union Range(tp)))
  OBVIOUS
<1>2. /\ GcOutcome(v, M, pages) = "none"
      /\ nand_err' = \/ nand_err
                     \/ \E p \in {PageOf(g) : g \in {h \in valid : h[1] = v}} :
                           ~Programmed(line_wp, p)
                     \/ WriteFails(line_wp, r, wp_offt[r], pages)
      /\ AssignPage(r, wp, V, cnt, oobs, cells)
      /\ pte_ppa' = tp /\ line_wp' = lw /\ d_active' = r /\ sblk_rsv' = v
      /\ gc_bucket' \in {gc_bucket, "null", "freed", "freed twice"}
  <2>1. valid \union Copied(M, to) \union (Range(ent_ppa) \union Range(tp))
          = valid \union Copied(M, to) \union Range(ent_ppa) \union Range(tp)
    OBVIOUS
  <2>2. oobs = Kept(out, valid \union Copied(M, to) \union Range(ent_ppa)
                               \union Range(tp))
    BY <1>n, <2>1, Zenon
  <2>3. AssignPage(r, [wp_offt EXCEPT ![r] = @ + pages, ![v] = 0],
              {g \in valid : g[1] # v} \union Copied(M, to),
              [valid_cnt EXCEPT ![r] = @ + Cardinality(Copied(M, to)), ![v] = 0],
              Kept(MovedTo(oob, v, to, NoOob, OobZeroed),
                   valid \union Copied(M, to) \union Range(ent_ppa)
                         \union Range(PpaAfterGc(M, to))),
              MovedTo(cell, v, to, NoCell, GrainsPerSblk))
    BY <1>1, <1>f, Zenon DEF GcThenPlace
  <2>4. V = {g \in valid : g[1] # v} \union Copied(M, to)
    BY <1>j DEF Elsewhere
  <2>5. AssignPage(r, wp, V, cnt, oobs, cells)
    BY <1>g, <1>h, <1>i, <1>k, <1>m, <2>2, <2>3, <2>4, Zenon
  <2>6. /\ GcOutcome(v, M, pages) = "none"
        /\ nand_err' = \/ nand_err
                       \/ \E p \in {PageOf(g) : g \in {h \in valid : h[1] = v}} :
                             ~Programmed(line_wp, p)
                       \/ WriteFails(line_wp, r, wp_offt[r], pages)
        /\ pte_ppa' = PpaAfterGc(M, to)
        /\ line_wp' = Trim(Write(line_wp, r, wp_offt[r], pages), v)
        /\ d_active' = r /\ sblk_rsv' = v
    BY <1>1, <1>f, Zenon DEF GcThenPlace
  <2>7. gc_bucket' \in {gc_bucket, "null", "freed", "freed twice"}
    BY <1>1 DEF GcThenPlace
  <2>. QED
    BY <1>g, <1>l, <2>5, <2>6, <2>7, Zenon
<1>3. /\ v \in Sblks /\ v # r /\ wp_offt[v] = PPS
      /\ \A b \in Sblks \ {r} : wp_offt[b] = PPS
      /\ free_sblk_cnt = 1 /\ r \in Sblks /\ wp_offt[r] = 0
      /\ wp_offt \in [Sblks -> 0 .. PPS]
  <2>1. r \in Sblks /\ wp_offt[r] = 0 /\ wp_offt \in [Sblks -> 0 .. PPS]
    BY <1>f DEF IInv, Roles, FlashOK, Flash, FlashTypes
  <2>. QED
    BY <1>1, <1>a, <1>f, <2>1, VictimFacts
<1>4. /\ M \subseteq Grains
      /\ \A g \in M : g[1] = v /\ oob[g].length \in 1 .. GRAIN_PER_PAGE
      /\ \A g \in M : \E l \in Mapping(pte_ppa) : pte_ppa[l] = g
      /\ oob \in [Grains -> Oobs]
  <2>a. PICK A : A = Firsts(pte_ppa, ent_ppa, DOMAIN ent_ppa)
    OBVIOUS
  <2>1. /\ Tiled(valid, A, oob) /\ oob \in [Grains -> Oobs]
        /\ ValuesIn(v) = {g \in A : g[1] = v}
        /\ \A g \in ValuesIn(v) : oob[g].length \in 1 .. GRAIN_PER_PAGE
        /\ \A g \in ValuesIn(v) : \E l \in Mapping(pte_ppa) : pte_ppa[l] = g
    BY <1>1, <1>a, <2>a, VictimValues
  <2>2. A \subseteq Grains
    BY <2>1 DEF Tiled
  <2>. QED
    BY <1>b, <2>1, <2>2
<1>5. pages \in 0 .. PPS - 1 /\ CopiesFit(M, to, r, pages)
  <2>1. ~(pages >= PPS)
    <3>1. GcOutcome(v, ValuesIn(v), pages)
             = IF pages >= PPS THEN "get_page_num" ELSE "none"
      BY <1>1, <1>a, GcVerdict
    <3>. QED
      BY <1>2, <1>b, <3>1
  <2>2. ~(lay.pages >= PPS)
    BY <1>e, <2>1, Zenon
  <2>4. to = [n \in DOMAIN lay.at |-> <<r, wp_offt[r] * GRAIN_PER_PAGE + lay.at[n]>>]
    BY <1>d, <1>f DEF CopiesAt
  <2>5. lay.pages \in 0 .. PPS - 1 /\ CopiesFit(M, to, r, lay.pages)
    BY <1>3, <1>4, <1>c, <2>2, <2>4, GcSpots
  <2>. QED
    BY <1>e, <2>5, Zenon
<1>6. PointedTo(tp, M, to)
  <2>1. Named(oob, cell, pte_ppa, real_keys) /\ pte_ppa \in [Lpas -> Grains \union {NoGrain}]
    BY <1>1, FlashAssign DEF Flash, FlashTypes
  <2>2. PointedTo(PpaAfterGc(M, to), M, to)
    BY <1>4, <1>5, <2>1, PpaFacts
  <2>. QED
    BY <1>g, <2>2, Zenon
<1>7. /\ MovedIs(out, oob, v, M, to, r, NoOob)
      /\ MovedIs(cells, cell, v, M, to, r, NoCell)
  <2>1. MovedIs(MovedTo(oob, v, to, NoOob, OobZeroed), oob, v, M, to, r, NoOob)
    BY <1>4, <1>5, MovedFacts
  <2>2. MovedIs(MovedTo(cell, v, to, NoCell, GrainsPerSblk), cell, v, M, to, r, NoCell)
    BY <1>4, <1>5, MovedFacts
  <2>. QED
    BY <1>h, <1>i, <2>1, <2>2, Zenon
<1>8. OobsFollow(oobs, v, M, to, r)
  <2>1. OobsFollow(Kept(out, valid \union Copied(M, to)
                             \union (Range(ent_ppa) \union Range(tp))), v, M, to, r)
    BY <1>4, <1>5, <1>7, GcOobs
  <2>. QED
    BY <1>n, <2>1, Zenon
<1>9. /\ Flash(wp, V, cnt, oobs, cells, tp, ent_ppa, DOMAIN ent_ppa, real_keys, wb)
      /\ \A l \in Mapping(pte_ppa) : cells[tp[l]] = cell[pte_ppa[l]]
  <2>1. /\ Flash([wp_offt EXCEPT ![r] = @ + pages, ![v] = 0],
                 Elsewhere(v) \union Copied(M, to),
                 [valid_cnt EXCEPT ![r] = @ + Cardinality(Copied(M, to)), ![v] = 0],
                 oobs, cells, tp, ent_ppa, DOMAIN ent_ppa, real_keys, wb)
        /\ \A l \in Mapping(pte_ppa) : cells[tp[l]] = cell[pte_ppa[l]]
    <3>1. FlashMoved(v, r, M, to, pages, oobs, cells, tp)
      BY <1>1, <1>5, <1>6, <1>7, <1>8, <1>a, <1>b, <1>f, GcFlash
    <3>. QED
      BY <3>1, Zenon DEF FlashMoved
  <2>. QED
    BY <1>j, <1>k, <1>m, <2>1, Zenon
<1>10. /\ Listed(wp, lw, fl) /\ nand_err' = FALSE
  <2>1. /\ Listed([wp_offt EXCEPT ![r] = @ + pages, ![v] = 0],
                  Trim(Write(line_wp, r, wp_offt[r], pages), v), fl)
        /\ ~WriteFails(line_wp, r, wp_offt[r], pages)
        /\ \A g \in valid : g[1] = v => Programmed(line_wp, PageOf(g))
    BY <1>1, <1>5, <1>a, <1>f, GcList
  <2>2. nand_err = FALSE
    BY DEF IInv, ListOK
  <2>3. nand_err' = FALSE
    BY <1>2, <2>1, <2>2
  <2>. QED
    BY <1>k, <1>l, <2>1, <2>3, Zenon
<1>11. /\ wp \in [Sblks -> 0 .. PPS] /\ wp[r] = pages /\ wp[r] < PPS /\ wp[v] = 0
       /\ \A b \in Sblks : b # r /\ b # v => wp[b] = PPS
  <2>1. 0 + pages = pages /\ pages \in 0 .. PPS /\ 0 \in 0 .. PPS /\ pages < PPS
    BY <1>5, Geometry
  <2>. QED
    BY <1>3, <1>k, <2>1
<1>12. /\ Flash(wp_offt', valid', valid_cnt', oob', cell', tp, ent_ppa',
                DOMAIN ent_ppa', real_keys, wb)
       /\ gc_bucket' \in {"null", "freed", "freed twice"} /\ failed' = failed
             => Phases'
       /\ Pending' = DOMAIN ent_ppa' /\ UNCHANGED <<wb, real_keys>>
       /\ wp_offt' = [wp EXCEPT ![r] = @ + 1]
       /\ fl' = Append(fl, <<r, wp[r]>>)
       /\ \A k \in DOMAIN ent_ppa' :
             \/ k \in DOMAIN ent_ppa /\ ent_ppa'[k] = ent_ppa[k]
             \/ PageOf(ent_ppa'[k]) = <<r, wp[r]>>
       /\ \A l \in Mapping(tp) : cell'[tp[l]] = cells[tp[l]]
       /\ UNCHANGED <<pte_fp, max_try, hash_table>>
       /\ pc' = "map" => todo' = DOMAIN wb
  <2>1. Phases /\ pc = "assign" /\ r \in Sblks /\ wp[r] < PPS
    BY <1>1, <1>3, <1>11 DEF IInv
  <2>2. AssignPage(r, wp, V, cnt, oobs, cells)
    BY <1>2
  <2>3. Placed(r, wp, tp, cells)
    BY <1>9, <2>1, <2>2, PlaceKeeps
  <2>. QED
    BY <2>3 DEF Placed
<1>13. FlashOK'
  <2>1. Flash(wp_offt', valid', valid_cnt', oob', cell', pte_ppa', ent_ppa',
              Pending', real_keys', wb')
    BY <1>2, <1>12, Zenon
  <2>. QED
    BY <2>1 DEF FlashOK
<1>14. Phases'
  <2>1. gc_bucket \in {"null", "freed", "freed twice"}
    BY DEF IInv, Phases
  <2>2. gc_bucket' \in {"null", "freed", "freed twice"} /\ failed' = failed
    BY <1>1, <1>2, <2>1
  <2>. QED
    BY <1>12, <2>2
<1>15. ListOK'
  <2>1. \A k \in DOMAIN ent_ppa : \E i \in DOMAIN fl : fl[i] = PageOf(ent_ppa[k])
    BY DEF IInv, ListOK
  <2>. QED
    BY <1>2, <1>3, <1>10, <1>11, <1>12, <2>1, ListKeeps
<1>16. Roles'
  <2>1. /\ wp_offt'[v] = 0 /\ wp_offt'[r] = pages + 1
        /\ \A b \in Sblks : b # r /\ b # v => wp_offt'[b] = PPS
    <3>1. wp_offt' = [wp EXCEPT ![r] = @ + 1] /\ wp \in [Sblks -> 0 .. PPS]
      BY <1>11, <1>12
    <3>2. wp_offt'[r] = wp[r] + 1 /\ \A b \in Sblks : b # r => wp_offt'[b] = wp[b]
      BY <1>3, <3>1
    <3>. QED
      BY <1>3, <1>11, <3>2
  <2>2. wp_offt'[r] > 0 /\ PPS # 0
    BY <1>5, <2>1, Geometry
  <2>3. {b \in Sblks : wp_offt'[b] = 0} = {v}
    <3>1. wp_offt'[r] # 0
      BY <2>2, Geometry
    <3>. QED
      BY <1>3, <2>1, <2>2, <3>1
  <2>4. Cardinality({v}) = 1
    BY FS_Singleton
  <2>5. free_sblk_cnt' = Cardinality({b \in Sblks : wp_offt'[b] = 0})
    BY <1>1, <1>3, <2>3, <2>4
  <2>6. active_sblk' \in Sblks \union {NoSblk} /\ GcNeeded(free_sblk_cnt')
    BY <1>1 DEF IInv, Roles
  <2>7. r # NoSblk
    BY <1>3, SblksFacts
  <2>8. \A b \in Sblks : b # d_active' => wp_offt'[b] \in {0, PPS}
    BY <1>2, <2>1
  <2>. QED
    BY <1>2, <1>3, <2>1, <2>2, <2>5, <2>6, <2>7, <2>8 DEF Roles
<1>17. Stays
  <2>1. Mapping(tp) = Mapping(pte_ppa)
    BY <1>6 DEF PointedTo
  <2>2. \A l \in Mapping(pte_ppa) : cell'[tp[l]] = cell[pte_ppa[l]]
    BY <1>9, <1>12, <2>1
  <2>. QED
    BY <1>1, <1>2, <1>12, <2>1, <2>2 DEF Stays
<1>. QED
  BY <1>13, <1>14, <1>15, <1>16, <1>17 DEF IInv

\* When GC fails, nothing else changes.
LEMMA GcFailKeeps ==
    ASSUME IInv, Settled, GcFails
    PROVE  IInv'
<1>a. PICK v : v = GcTarget(wp_offt, sblk_rsv, valid_cnt)
  OBVIOUS
<1>1. /\ pc = "assign" /\ NeedSblk /\ GcNeeded(free_sblk_cnt)
      /\ failed' = IF ~Reclaimable(wp_offt, valid_cnt, v, GRAIN_PER_PAGE)
                      THEN "no superblock to reclaim"
                      ELSE GcOutcome(v, ValuesIn(v), Layout(ValuesIn(v)).pages)
      /\ failed' # "none"
  BY <1>a DEF GcFails
<1>2. failed' \in {"none", "no superblock to reclaim", "get_page_num"}
  <2>1. GcOutcome(v, ValuesIn(v), Layout(ValuesIn(v)).pages)
           \in {"none", "get_page_num"}
    <3>a. PICK n : n = Layout(ValuesIn(v)).pages
      OBVIOUS
    <3>1. GcOutcome(v, ValuesIn(v), n) = IF n >= PPS THEN "get_page_num" ELSE "none"
      BY <1>1, <1>a, GcVerdict
    <3>. QED
      BY <3>1, <3>a
  <2>. QED
    BY <1>1, <2>1
<1>3. /\ UNCHANGED <<wp_offt, valid_cnt, sblk_rsv, line_wp, valid, oob, wb, pc,
                     todo, ent_ppa, fl, pte_ppa, gc_bucket, cell>>
      /\ UNCHANGED <<active_sblk, free_sblk_cnt, d_active, pte_fp, real_keys,
                     max_try, hash_table, nand_err>>
  BY DEF GcFails, pt_vars, map_vars
<1>4. Phases'
  BY <1>2, <1>3 DEF IInv, Phases
<1>5. Roles' /\ ListOK'
  BY <1>3 DEF IInv, Roles, ListOK
<1>6. FlashOK'
  BY <1>3 DEF IInv, FlashOK, Pending
<1>. QED
  BY <1>4, <1>5, <1>6 DEF IInv

-----------------------------------------------------------------------------
(* The flush of the pages to the NAND. *)

WriteStates == [line : [Sblks -> Nat], ok : BOOLEAN, all : BOOLEAN]

\* The first i pages of the flush list have been programmed.
Reaches(w, i) ==
    /\ w \in WriteStates /\ w.ok = TRUE /\ w.all = TRUE
    /\ \A b \in Sblks : line_wp[b] <= w.line[b] /\ w.line[b] <= wp_offt[b]
    /\ \A j \in DOMAIN fl : fl[j][2] < w.line[fl[j][1]] <=> j <= i

\* The next page of the list is the next one of its superblock.
LEMMA NextPage ==
    ASSUME Listed(wp_offt, line_wp, fl), wp_offt \in [Sblks -> 0 .. PPS],
           NEW i \in Nat, i + 1 \in DOMAIN fl, NEW w, Reaches(w, i)
    PROVE  w.line[fl[i + 1][1]] = fl[i + 1][2]
<1>a. PICK p : p = fl[i + 1]
  OBVIOUS
<1>b. PICK line : line = w.line
  OBVIOUS
<1>1. /\ p \in Pages /\ p[1] \in Sblks /\ p[2] \in Nat /\ p = <<p[1], p[2]>>
      /\ fl \in Seq(Pages) /\ line \in [Sblks -> Nat] /\ line_wp \in [Sblks -> 0 .. PPS]
  BY <1>a, <1>b DEF Listed, Pages, Reaches, WriteStates
<1>c. PICK b, n : b = p[1] /\ n = line[p[1]]
  OBVIOUS
<1>2. /\ b \in Sblks /\ n \in Nat /\ line_wp[b] <= n /\ wp_offt[b] \in Nat
      /\ p[2] < wp_offt[b] /\ wp_offt[b] <= PPS
  <2>1. p[2] < wp_offt[p[1]]
    BY <1>1, <1>a DEF Listed
  <2>2. wp_offt[b] \in 0 .. PPS /\ n \in Nat /\ b \in Sblks
    BY <1>1, <1>c
  <2>. QED
    BY <1>b, <1>c, <2>1, <2>2, Geometry DEF Reaches
<1>3. p[2] >= n
  <2>1. ~(i + 1 <= i)
    OBVIOUS
  <2>2. ~(p[2] < n)
    BY <1>a, <1>b, <1>c, <2>1 DEF Reaches
  <2>. QED
    BY <1>1, <1>2, <2>2
<1>4. ASSUME n < p[2] PROVE FALSE
  <2>1. <<b, n>> \in Pages /\ line_wp[b] <= n /\ n < wp_offt[b]
    <3>a. PICK m, u : m = p[2] /\ u = wp_offt[b]
      OBVIOUS
    <3>b. m \in Nat /\ u \in Nat /\ m < u /\ u <= PPS /\ n \in Nat /\ n < m
      BY <1>1, <1>2, <1>4, <3>a
    <3>1. n < wp_offt[b] /\ n \in 0 .. PPS - 1
      <4>1. n < u /\ n \in 0 .. PPS - 1
        BY ONLY <3>b, Geometry
      <4>. QED
        BY <3>a, <4>1
    <3>. QED
      BY <1>2, <3>1 DEF Pages
  <2>2. PICK j \in DOMAIN fl : fl[j] = <<b, n>>
    <3>a. PICK q : q = <<b, n>>
      OBVIOUS
    <3>1. q \in Pages /\ line_wp[q[1]] <= q[2] /\ q[2] < wp_offt[q[1]]
      BY <2>1, <3>a
    <3>2. \E j \in DOMAIN fl : fl[j] = q
      BY <3>1 DEF Listed
    <3>. QED
      BY <3>2, <3>a
  <2>3. j \in Nat /\ fl[j][1] = b /\ fl[j][2] = n
    BY <1>1, <2>2
  <2>4. ~(fl[j][2] < line[fl[j][1]])
    BY <1>1, <1>2, <1>c, <2>3
  <2>5. ~(j <= i)
    BY <1>b, <2>2, <2>4 DEF Reaches
  <2>6. j # i + 1
    BY <1>1, <1>4, <1>a, <2>2
  <2>7. i + 1 < j
    BY <2>3, <2>5, <2>6
  <2>8. fl[i + 1][2] < fl[j][2]
    BY <1>a, <1>c, <2>2, <2>3, <2>7 DEF Listed
  <2>. QED
    BY <1>1, <1>2, <1>4, <1>a, <2>3, <2>8
<1>5. n = p[2]
  BY <1>1, <1>2, <1>3, <1>4
<1>. QED
  BY <1>5, <1>a, <1>b, <1>c, Zenon

LEMMA ProgramNext ==
    ASSUME Listed(wp_offt, line_wp, fl), wp_offt \in [Sblks -> 0 .. PPS],
           NEW i \in Nat, i + 1 \in DOMAIN fl, NEW w, Reaches(w, i),
           NEW x, x = [line |-> [w.line EXCEPT ![fl[i + 1][1]] = @ + 1],
                       ok |-> TRUE, all |-> TRUE]
    PROVE  Reaches(x, i + 1)
<1>a. PICK p : p = fl[i + 1]
  OBVIOUS
<1>b. PICK line : line = w.line
  OBVIOUS
<1>c. PICK up : up = [w.line EXCEPT ![fl[i + 1][1]] = @ + 1]
  OBVIOUS
<1>0. x.line = up /\ x.ok = TRUE /\ x.all = TRUE /\ x = [line |-> up, ok |-> TRUE, all |-> TRUE]
  BY <1>c
<1>1. /\ p \in Pages /\ p[1] \in Sblks /\ p[2] \in Nat
      /\ fl \in Seq(Pages) /\ line \in [Sblks -> Nat]
  BY <1>a, <1>b DEF Listed, Pages, Reaches, WriteStates
<1>2. line[p[1]] = p[2]
  BY <1>a, <1>b, NextPage, Zenon
<1>3. /\ up \in [Sblks -> Nat] /\ up[p[1]] = p[2] + 1
      /\ \A b \in Sblks : b # p[1] => up[b] = line[b]
  <2>1. up = [line EXCEPT ![p[1]] = @ + 1]
    BY <1>a, <1>b, <1>c, Zenon
  <2>. QED
    BY <1>1, <1>2, <2>1
<1>4. p[2] < wp_offt[p[1]]
  BY <1>1, <1>a DEF Listed
<1>5. ASSUME NEW b \in Sblks PROVE line_wp[b] <= up[b] /\ up[b] <= wp_offt[b]
  <2>1. line_wp[b] <= line[b] /\ line[b] <= wp_offt[b]
    BY <1>b DEF Reaches
  <2>2. line_wp[b] \in Nat /\ wp_offt[b] \in Nat
    BY Geometry DEF Listed
  <2>3. CASE b = p[1]
    BY <1>1, <1>2, <1>3, <1>4, <2>1, <2>2, <2>3
  <2>4. CASE b # p[1]
    BY <1>3, <2>1, <2>4
  <2>. QED
    BY <2>3, <2>4
<1>6. ASSUME NEW j \in DOMAIN fl PROVE fl[j][2] < up[fl[j][1]] <=> j <= i + 1
  <2>1. fl[j] \in Pages /\ fl[j][1] \in Sblks /\ fl[j][2] \in Nat /\ j \in Nat
    <3>1. fl[j] \in Pages /\ j \in Nat
      BY <1>1
    <3>. QED
      BY <3>1 DEF Pages
  <2>2. fl[j][2] < line[fl[j][1]] <=> j <= i
    BY <1>b DEF Reaches
  <2>3. CASE j = i + 1
    BY <1>1, <1>3, <1>a, <2>3
  <2>4. CASE j # i + 1 /\ fl[j][1] # p[1]
    BY <1>3, <2>1, <2>2, <2>4
  <2>5. CASE j # i + 1 /\ fl[j][1] = p[1]
    <3>1. CASE j <= i
      BY <1>1, <1>2, <1>3, <2>1, <2>2, <2>5, <3>1
    <3>2. CASE i + 1 < j
      <4>1. p[2] < fl[j][2]
        BY <1>a, <2>5, <3>2 DEF Listed
      <4>. QED
        BY <1>1, <1>3, <2>1, <2>5, <3>2, <4>1
    <3>. QED
      BY <2>1, <2>5, <3>1, <3>2
  <2>. QED
    BY <2>3, <2>4, <2>5
<1>7. x \in WriteStates
  BY <1>0, <1>3 DEF WriteStates
<1>. QED
  BY <1>0, <1>5, <1>6, <1>7 DEF Reaches

\* After the flush the NAND is where the allocator is; it has refused nothing.
LEMMA FlushLines ==
    ASSUME Listed(wp_offt, line_wp, fl), wp_offt \in [Sblks -> 0 .. PPS],
           nand_err = FALSE, Flush
    PROVE  line_wp' = wp_offt /\ nand_err' = FALSE
<1> DEFINE Program(w, i) ==
               LET p     == fl[i]
                   again == i = 1 \/ ~Adjacent(fl[i - 1], p)
                   ok    == (again \/ w.ok) /\ ~WriteFails(w.line, p[1], p[2], 1)
               IN  [line |-> IF ok THEN Write(w.line, p[1], p[2], 1) ELSE w.line,
                    ok |-> ok, all |-> w.all /\ ok]
           first == [line |-> line_wp, ok |-> TRUE, all |-> TRUE]
           written[i \in 0 .. Len(fl)] ==
               IF i = 0 THEN first ELSE Program(written[i - 1], i)
           T == WriteStates
<1>1. /\ line_wp' = written[Len(fl)].line
      /\ nand_err' = (nand_err \/ ~written[Len(fl)].all)
  BY Zenon DEF Flush
<1>2. /\ fl \in Seq(Pages) /\ DOMAIN fl = 1 .. Len(fl) /\ Len(fl) \in Nat
      /\ line_wp \in [Sblks -> Nat] /\ \A b \in Sblks : line_wp[b] <= wp_offt[b]
  BY Geometry DEF Listed
<1>3. first \in T
  BY <1>2 DEF WriteStates
<1>4. ASSUME NEW i \in 1 .. Len(fl), NEW w \in T PROVE Program(w, i) \in T
  <2>a. PICK p : p = fl[i]
    OBVIOUS
  <2>b. PICK ok : ok = ((i = 1 \/ ~Adjacent(fl[i - 1], p) \/ w.ok)
                          /\ ~WriteFails(w.line, p[1], p[2], 1))
    OBVIOUS
  <2>1. p[1] \in Sblks /\ w.line \in [Sblks -> Nat] /\ ok \in BOOLEAN
    <3>1. p \in Pages /\ w \in WriteStates
      BY <1>2, <2>a
    <3>2. ok \in BOOLEAN
      BY <2>b, Zenon
    <3>. QED
      BY <3>1, <3>2 DEF Pages, WriteStates
  <2>2. Write(w.line, p[1], p[2], 1) \in [Sblks -> Nat]
    BY <2>1 DEF Write
  <2>c. PICK line : line = IF ok THEN Write(w.line, p[1], p[2], 1) ELSE w.line
    OBVIOUS
  <2>3. line \in [Sblks -> Nat]
    BY <2>1, <2>2, <2>c
  <2>4. w.all \in BOOLEAN
    BY DEF WriteStates
  <2>5. [line |-> line, ok |-> ok, all |-> w.all /\ ok] \in T
    BY <2>1, <2>3, <2>4 DEF WriteStates
  <2>6. Program(w, i) = [line |-> line, ok |-> ok, all |-> w.all /\ ok]
    BY <2>a, <2>b, <2>c, Zenon
  <2>. QED
    BY <2>5, <2>6, Zenon
<1>5. ASSUME NEW i \in Nat, i + 1 \in DOMAIN fl, NEW w, Reaches(w, i)
      PROVE  Reaches(Program(w, i + 1), i + 1)
  <2>a. PICK p : p = fl[i + 1]
    OBVIOUS
  <2>1. ~WriteFails(w.line, p[1], p[2], 1)
    <3>1. w.line[p[1]] = p[2]
      BY <1>5, <2>a, NextPage
    <3>. QED
      BY <3>1 DEF WriteFails
  <2>2. Write(w.line, p[1], p[2], 1) = [w.line EXCEPT ![p[1]] = @ + 1]
    BY <2>1 DEF Write
  <2>3. w.ok = TRUE /\ w.all = TRUE
    BY <1>5 DEF Reaches
  <2>4. Program(w, i + 1) = [line |-> Write(w.line, p[1], p[2], 1), ok |-> TRUE,
                             all |-> TRUE]
    BY <2>1, <2>3, <2>a
  <2>5. Program(w, i + 1) = [line |-> [w.line EXCEPT ![fl[i + 1][1]] = @ + 1],
                             ok |-> TRUE, all |-> TRUE]
    BY <2>2, <2>4, <2>a, Zenon
  <2>. HIDE DEF Program
  <2>. QED
    BY <1>5, <2>5, ProgramNext
<1>. HIDE DEF Program, first, T
<1> DEFINE F == [i \in 1 .. Len(fl) |-> [w \in T |-> Program(w, i)]]
<1>6. F \in [1 .. Len(fl) -> [T -> T]]
  BY <1>4
<1>7. \E g : g = [i \in 0 .. Len(fl) |-> IF i = 0 THEN first ELSE Program(g[i - 1], i)]
  <2>. HIDE DEF F, written
  <2>1. PICK g \in [0 .. Len(fl) -> T] :
            g[0] = first /\ \A i \in 1 .. Len(fl) : g[i] = F[i][g[i - 1]]
    <3>a. PICK U, a, H, n : U = T /\ a = first /\ H = F /\ n = Len(fl)
      OBVIOUS
    <3>1. a \in U /\ H \in [1 .. n -> [U -> U]] /\ n \in Nat
      BY <1>2, <1>3, <1>6, <3>a
    <3>2. \E g \in [0 .. n -> U] : g[0] = a /\ \A i \in 1 .. n : g[i] = H[i][g[i - 1]]
      BY <3>1, Iteration, SMTT(60)
    <3>. QED
      BY <3>2, <3>a
  <2>2. ASSUME NEW i \in 0 .. Len(fl)
        PROVE  g[i] = IF i = 0 THEN first ELSE Program(g[i - 1], i)
    <3>1. CASE i = 0
      BY <2>1, <3>1
    <3>2. CASE i # 0
      <4>1. i \in 1 .. Len(fl) /\ i - 1 \in 0 .. Len(fl)
        BY <1>2, <3>2
      <4>2. g[i - 1] \in T /\ g[i] = F[i][g[i - 1]]
        BY <2>1, <4>1
      <4>3. F[i][g[i - 1]] = Program(g[i - 1], i)
        BY <4>1, <4>2 DEF F
      <4>. QED
        BY <3>2, <4>2, <4>3
    <3>. QED
      BY <3>1, <3>2
  <2>. QED
    BY <2>2
<1>8. written = [i \in 0 .. Len(fl) |->
                    IF i = 0 THEN first ELSE Program(written[i - 1], i)]
  BY <1>7
<1>. HIDE DEF written
<1>9. Reaches(first, 0)
  <2>1. first.line = line_wp /\ first.ok = TRUE /\ first.all = TRUE
    BY DEF first
  <2>2. ASSUME NEW b \in Sblks PROVE line_wp[b] <= line_wp[b]
    BY <1>2
  <2>3. ASSUME NEW j \in DOMAIN fl PROVE ~(fl[j][2] < line_wp[fl[j][1]]) /\ ~(j <= 0)
    <3>a. PICK p : p = fl[j]
      OBVIOUS
    <3>1. p \in Pages /\ j \in Nat /\ j >= 1
      BY <1>2, <3>a DEF Listed
    <3>3. p[1] \in Sblks /\ p[2] \in Nat
      BY <3>1 DEF Pages
    <3>4. line_wp[p[1]] <= p[2]
      BY <3>1, <3>a DEF Listed
    <3>2. /\ fl[j][1] \in Sblks /\ fl[j][2] \in Nat /\ line_wp[fl[j][1]] <= fl[j][2]
          /\ j \in Nat /\ j >= 1
      BY <3>1, <3>3, <3>4, <3>a
    <3>. QED
      BY <1>2, <3>2
  <2>. QED
    BY <1>2, <1>3, <2>1, <2>2, <2>3 DEF Reaches, T
<1>10. Reaches(written[Len(fl)], Len(fl))
  <2> DEFINE S == {i \in 0 .. Len(fl) : Reaches(written[i], i)}
  <2>1. 0 \in S
    BY <1>2, <1>8, <1>9
  <2>2. ASSUME NEW i \in 0 .. Len(fl) - 1, i \in S PROVE i + 1 \in S
    <3>1. /\ i + 1 \in 0 .. Len(fl) /\ i + 1 # 0 /\ (i + 1) - 1 = i /\ i \in Nat
          /\ i + 1 \in DOMAIN fl
      BY <1>2
    <3>2. written[i + 1] = Program(written[i], i + 1)
      BY <1>8, <3>1
    <3>3. Reaches(Program(written[i], i + 1), i + 1)
      BY <1>5, <2>2, <3>1
    <3>. QED
      BY <3>1, <3>2, <3>3
  <2>3. 0 .. Len(fl) \subseteq S
    <3>. HIDE DEF S
    <3>. QED
      BY <1>2, <2>1, <2>2, Induction
  <2>4. Len(fl) \in 0 .. Len(fl)
    BY <1>2
  <2>. QED
    BY <2>3, <2>4
<1>a. PICK w : w = written[Len(fl)]
  OBVIOUS
<1>11. /\ w.line \in [Sblks -> Nat] /\ w.all = TRUE
       /\ \A b \in Sblks : line_wp[b] <= w.line[b] /\ w.line[b] <= wp_offt[b]
       /\ \A j \in DOMAIN fl : fl[j][2] < w.line[fl[j][1]]
  <2>1. Reaches(w, Len(fl))
    BY <1>10, <1>a, Zenon
  <2>2. \A j \in DOMAIN fl : j <= Len(fl)
    BY <1>2
  <2>. QED
    BY <2>1, <2>2 DEF Reaches, WriteStates
<1>12. ASSUME NEW b \in Sblks PROVE w.line[b] = wp_offt[b]
  <2>a. PICK n : n = w.line[b]
    OBVIOUS
  <2>1. /\ n \in Nat /\ line_wp[b] <= n /\ n <= wp_offt[b] /\ wp_offt[b] \in Nat
        /\ wp_offt[b] <= PPS
    <3>1. wp_offt[b] \in 0 .. PPS
      OBVIOUS
    <3>. QED
      BY <1>11, <2>a, <3>1, Geometry
  <2>2. ASSUME n < wp_offt[b] PROVE FALSE
    <3>a. PICK q : q = <<b, n>>
      OBVIOUS
    <3>1. q \in Pages /\ line_wp[q[1]] <= q[2] /\ q[2] < wp_offt[q[1]]
      BY <2>1, <2>2, <3>a, Geometry DEF Pages
    <3>2. PICK j \in DOMAIN fl : fl[j] = q
      BY <3>1 DEF Listed
    <3>3. n < w.line[b]
      BY <1>11, <3>2, <3>a
    <3>. QED
      BY <2>1, <2>a, <3>3
  <2>. QED
    BY <2>1, <2>2, <2>a
<1>13. w.line = wp_offt
  BY <1>11, <1>12
<1>. QED
  BY <1>1, <1>11, <1>13, <1>a

\* Without entries to be mapped, the flash does not depend on the write buffer.
LEMMA NoPending ==
    ASSUME NEW wp, NEW V, NEW cnt, NEW oobs, NEW cells, NEW tp, NEW ents, NEW rk, NEW buf,
           Flash(wp, V, cnt, oobs, cells, tp, ents, {}, rk, buf), NEW ents2, NEW buf2
    PROVE  Flash(wp, V, cnt, oobs, cells, tp, ents2, {}, rk, buf2)
<1>1. Firsts(tp, ents, {}) = Firsts(tp, ents2, {})
  BY DEF Firsts
<1>2. HeldOnce(tp, ents2, {}) /\ Written(cells, ents2, {}, buf2)
  BY DEF Flash, HeldOnce, Written
<1>3. Tiled(V, Firsts(tp, ents2, {}), oobs)
  <2>1. Tiled(V, Firsts(tp, ents, {}), oobs)
    BY DEF Flash
  <2>. QED
    BY <1>1, <2>1, Zenon
<1>. QED
  BY <1>2, <1>3 DEF Flash

LEMMA FlushKeeps ==
    ASSUME IInv, Flush
    PROVE  IInv'
<1>1. /\ Phases /\ Roles /\ FlashOK /\ pc = "map" /\ todo = {} /\ Pending = {}
      /\ Listed(wp_offt, line_wp, fl) /\ nand_err = FALSE
      /\ wp_offt \in [Sblks -> 0 .. PPS]
  BY DEF IInv, ListOK, Flush, Pending, FlashOK, Flash, FlashTypes
<1>2. line_wp' = wp_offt /\ nand_err' = FALSE
  BY <1>1, FlushLines
<1>3. /\ wb' = <<>> /\ hash_table' = {} /\ ent_ppa' = <<>> /\ fl' = <<>> /\ pc' = "idle"
      /\ UNCHANGED <<wp_offt, valid_cnt, sblk_rsv, valid, oob, todo, pte_ppa,
                     pte_fp, real_keys, max_try, gc_bucket, failed, cell>>
      /\ UNCHANGED <<active_sblk, free_sblk_cnt, d_active>>
  BY DEF Flush, pt_vars
<1>4. DOMAIN <<>> = {} /\ IsFiniteSet({})
  BY FS_EmptySet
<1>5. Phases'
  <2>1. /\ DOMAIN wb' = {} /\ DOMAIN ent_ppa' = {} /\ todo' = {} /\ pc' = "idle"
        /\ hash_table' = {} /\ fl' = <<>>
    BY <1>1, <1>3, <1>4
  <2>2. /\ pte_fp' \in [Lpas -> Nat] /\ real_keys' \in [Lpas -> Keys \union {NoKey}]
        /\ max_try' \in Tries /\ gc_bucket' \in {"null", "freed", "freed twice"}
        /\ failed' \in {"none", "no superblock to reclaim", "get_page_num"}
    BY <1>1, <1>3 DEF Phases
  <2>. QED
    BY <1>4, <2>1, <2>2 DEF Phases
<1>6. Roles'
  BY <1>1, <1>3 DEF Roles
<1>7. ListOK'
  <2>1. Listed(wp_offt, wp_offt, <<>>)
    <3>1. ASSUME NEW b \in Sblks PROVE wp_offt[b] <= wp_offt[b]
      <4>1. wp_offt[b] \in 0 .. PPS
        BY <1>1
      <4>. QED
        BY <4>1, Geometry
    <3>2. ASSUME NEW p \in Pages PROVE ~(wp_offt[p[1]] <= p[2] /\ p[2] < wp_offt[p[1]])
      <4>1. p[2] \in Nat /\ wp_offt[p[1]] \in 0 .. PPS
        BY <1>1 DEF Pages
      <4>. QED
        BY <4>1, Geometry
    <3>3. <<>> \in Seq(Pages)
      OBVIOUS
    <3>. QED
      BY <1>1, <1>4, <3>1, <3>2, <3>3 DEF Listed
  <2>2. Listed(wp_offt', line_wp', fl')
    BY <1>2, <1>3, <2>1, Zenon
  <2>. QED
    BY <1>2, <1>3, <1>4, <2>2 DEF ListOK
<1>8. FlashOK'
  <2>1. Flash(wp_offt, valid, valid_cnt, oob, cell, pte_ppa, ent_ppa, {}, real_keys, wb)
    BY <1>1, Zenon DEF FlashOK
  <2>2. Flash(wp_offt, valid, valid_cnt, oob, cell, pte_ppa, ent_ppa', {}, real_keys, wb')
    BY <2>1, NoPending
  <2>3. Pending' = {}
    BY <1>3 DEF Pending
  <2>4. Flash(wp_offt', valid', valid_cnt', oob', cell', pte_ppa', ent_ppa', Pending',
              real_keys', wb')
    BY <1>3, <2>2, <2>3, Zenon
  <2>. QED
    BY <2>4, Zenon DEF FlashOK
<1>. QED
  BY <1>5, <1>6, <1>7, <1>8 DEF IInv

LEMMA InsertKeeps ==
    ASSUME IInv, NEW k \in Keys, NEW v \in Vals, Insert(k, v)
    PROVE  IInv'
<1>1. /\ Phases /\ Roles /\ ListOK /\ FlashOK /\ pc = "idle" /\ Pending = {}
  BY DEF IInv, Insert, Pending
<1>2. /\ wb' = Over([j \in {k} |-> v], wb)
      /\ UNCHANGED <<wp_offt, valid_cnt, sblk_rsv, line_wp, valid, oob, pc,
                     todo, ent_ppa, fl, pte_ppa, gc_bucket, cell>>
      /\ UNCHANGED <<active_sblk, free_sblk_cnt, d_active, pte_fp, real_keys,
                     max_try, hash_table, nand_err, failed>>
  BY DEF Insert, pt_vars, map_vars, end_vars
<1>3. /\ DOMAIN wb' = DOMAIN wb \union {k}
      /\ \A j \in DOMAIN wb' : wb'[j] \in Vals
  BY <1>1, <1>2 DEF Over, Phases
<1>4. IsFiniteSet(DOMAIN wb')
  <2>1. IsFiniteSet(DOMAIN wb)
    BY <1>1 DEF Phases
  <2>2. IsFiniteSet(DOMAIN wb \union {k})
    BY <2>1, FS_AddElement
  <2>. QED
    BY <1>3, <2>2
<1>5. Phases'
  BY <1>1, <1>2, <1>3, <1>4 DEF Phases
<1>6. Roles' /\ ListOK'
  BY <1>1, <1>2 DEF Roles, ListOK
<1>7. FlashOK'
  <2>1. Flash(wp_offt, valid, valid_cnt, oob, cell, pte_ppa, ent_ppa, {}, real_keys, wb)
    BY <1>1, Zenon DEF FlashOK
  <2>2. Flash(wp_offt, valid, valid_cnt, oob, cell, pte_ppa, ent_ppa, {}, real_keys, wb')
    BY <2>1, NoPending
  <2>3. Pending' = {}
    BY <1>1, <1>2 DEF Pending
  <2>4. Flash(wp_offt', valid', valid_cnt', oob', cell', pte_ppa', ent_ppa', Pending',
              real_keys', wb')
    BY <1>2, <2>2, <2>3, Zenon
  <2>. QED
    BY <2>4, Zenon DEF FlashOK
<1>. QED
  BY <1>5, <1>6, <1>7 DEF IInv

LEMMA BeginKeeps ==
    ASSUME IInv, BeginFlush
    PROVE  IInv'
<1>1. /\ Phases /\ Roles /\ ListOK /\ FlashOK /\ pc = "idle" /\ Pending = {}
      /\ DOMAIN ent_ppa = {}
  BY DEF IInv, BeginFlush, Pending, Phases
<1>2. /\ pc' = "assign" /\ todo' = DOMAIN wb
      /\ UNCHANGED <<wp_offt, valid_cnt, sblk_rsv, line_wp, valid, oob, wb,
                     ent_ppa, fl, pte_ppa, gc_bucket, cell>>
      /\ UNCHANGED <<active_sblk, free_sblk_cnt, d_active, pte_fp, real_keys,
                     max_try, hash_table, nand_err, failed>>
  BY DEF BeginFlush, pt_vars, map_vars, end_vars
<1>3. Phases'
  BY <1>1, <1>2 DEF Phases
<1>4. Roles' /\ ListOK'
  BY <1>1, <1>2 DEF Roles, ListOK
<1>5. FlashOK'
  <2>1. Pending' = Pending
    BY <1>1, <1>2 DEF Pending
  <2>2. Flash(wp_offt', valid', valid_cnt', oob', cell', pte_ppa', ent_ppa', Pending',
              real_keys', wb')
    BY <1>1, <1>2, <2>1, Zenon DEF FlashOK
  <2>. QED
    BY <2>2, Zenon DEF FlashOK
<1>. QED
  BY <1>3, <1>4, <1>5 DEF IInv

-----------------------------------------------------------------------------
(* The mapping of an entry. *)

LEMMA LpaFacts ==
    ASSUME NEW k \in Keys, NEW c \in Nat
    PROVE  Lpa(k, c) \in Lpas
<1>a. PICK a : a = HashOf[k] + c + c * c
  OBVIOUS
<1>1. a \in Int /\ NrLpas \in Nat \ {0}
  BY <1>a, FlushAssumption
<1>2. a % NrLpas \in 0 .. NrLpas - 1
  BY <1>1, Division
<1>. QED
  BY <1>2, <1>a DEF Lpa, Lpas

\* Entry l is pointed to the value of key k, first grain e, that it had not been
\* pointed to before.
LEMMA MapFlash ==
    ASSUME Flash(wp_offt, valid, valid_cnt, oob, cell, pte_ppa, ent_ppa, todo,
                 real_keys, wb),
           real_keys \in [Lpas -> Keys \union {NoKey}],
           NEW k \in todo, NEW l \in Lpas, k \in DOMAIN ent_ppa,
           NEW tp, tp = [pte_ppa EXCEPT ![l] = ent_ppa[k]],
           NEW oobs, oobs = Kept([oob EXCEPT ![ent_ppa[k]].lpa = l],
                                 (valid \ Overwritten(l)) \union Range(ent_ppa)
                                    \union Range(tp)),
           NEW cells, cells = [g \in Grains |-> IF g \in Overwritten(l) THEN NoCell
                                                ELSE cell[g]]
    PROVE  /\ Overwritten(l) \subseteq valid
           /\ Flash(wp_offt, valid \ Overwritten(l), CountedOff(Overwritten(l), valid_cnt),
                    oobs, cells, tp, ent_ppa, todo \ {k},
                    [real_keys EXCEPT ![l] = k], wb)
<1>a. PICK old : old = Overwritten(l)
  OBVIOUS
<1>b. PICK e : e = ent_ppa[k]
  OBVIOUS
<1>c. PICK A : A = Firsts(pte_ppa, ent_ppa, todo)
  OBVIOUS
<1>d. PICK B : B = IF pte_ppa[l] = NoGrain THEN {} ELSE {pte_ppa[l]}
  OBVIOUS
<1>e. PICK rk : rk = [real_keys EXCEPT ![l] = k]
  OBVIOUS
<1>f. PICK rest : rest = todo \ {k}
  OBVIOUS
<1>1. /\ oob \in [Grains -> Oobs] /\ cell \in [Grains -> Cells]
      /\ pte_ppa \in [Lpas -> Grains \union {NoGrain}]
      /\ wp_offt \in [Sblks -> 0 .. PPS]
      /\ HeldOnce(pte_ppa, ent_ppa, todo)
      /\ \A g \in valid : Programmed(wp_offt, PageOf(g))
      /\ Exact(valid, valid_cnt)
      /\ Named(oob, cell, pte_ppa, real_keys)
      /\ Written(cell, ent_ppa, todo, wb)
  BY DEF Flash, FlashTypes
<1>2. Tiled(valid, A, oob)
  <2>1. Tiled(valid, Firsts(pte_ppa, ent_ppa, todo), oob)
    BY DEF Flash
  <2>. QED
    BY <1>c, <2>1, Zenon
<1>3. valid \subseteq Grains /\ A \subseteq valid
  BY <1>2, FirstsValid
<1>4. /\ \A m \in Mapping(pte_ppa) : pte_ppa[m] \in A
      /\ \A j \in todo : ent_ppa[j] \in A
      /\ e \in A /\ e \in Grains /\ e # NoGrain
      /\ B \subseteq A
  <2>1. \A m \in Mapping(pte_ppa) : pte_ppa[m] \in A
    BY <1>c DEF Firsts
  <2>2. \A j \in todo : ent_ppa[j] \in A
    BY <1>c DEF Firsts
  <2>3. B \subseteq A
    BY <2>1, <1>d DEF Mapping
  <2>. QED
    BY <1>3, <1>b, <2>1, <2>2, <2>3, NoGrainFacts
<1>5. old = Owned(B, oob)
  <2>1. CASE pte_ppa[l] = NoGrain
    BY <1>a, <1>d, <2>1 DEF Overwritten, Owned
  <2>2. CASE pte_ppa[l] # NoGrain
    BY <1>a, <1>d, <2>2 DEF Overwritten, Owned
  <2>. QED
    BY <2>1, <2>2
<1>6. old \subseteq valid /\ A \ B \subseteq valid \ old
  <2>1. Owned(B, oob) \subseteq valid /\ Tiled(valid \ Owned(B, oob), A \ B, oob)
    BY <1>2, <1>4, TiledRemove
  <2>2. A \ B \subseteq valid \ Owned(B, oob)
    BY <2>1, FirstsValid
  <2>. QED
    BY <1>5, <2>1, <2>2
<1>7. /\ \A m \in Mapping(pte_ppa) : m # l => pte_ppa[m] \in A \ B /\ pte_ppa[m] # e
      /\ \A j \in todo : ent_ppa[j] \in A \ B
      /\ e \in A \ B
  <2>1. ASSUME NEW m \in Mapping(pte_ppa), m # l
        PROVE  pte_ppa[m] \in A \ B /\ pte_ppa[m] # e
    <3>1. pte_ppa[m] # e
      BY <1>1, <1>b DEF HeldOnce
    <3>2. pte_ppa[l] # NoGrain => l \in Mapping(pte_ppa)
      BY DEF Mapping
    <3>3. pte_ppa[m] \notin B
      BY <1>1, <1>d, <2>1, <3>2 DEF HeldOnce
    <3>. QED
      BY <1>4, <3>1, <3>3
  <2>2. ASSUME NEW j \in todo PROVE ent_ppa[j] \in A \ B
    <3>1. pte_ppa[l] # NoGrain => l \in Mapping(pte_ppa)
      BY DEF Mapping
    <3>2. ent_ppa[j] \notin B
      BY <1>1, <1>d, <3>1 DEF HeldOnce
    <3>. QED
      BY <1>4, <3>2
  <2>. QED
    BY <1>b, <2>1, <2>2
<1>8. /\ tp \in [Lpas -> Grains \union {NoGrain}] /\ tp[l] = e
      /\ \A m \in Lpas : m # l => tp[m] = pte_ppa[m]
      /\ l \in Mapping(tp)
      /\ \A m \in Lpas : m # l => (m \in Mapping(tp) <=> m \in Mapping(pte_ppa))
  <2>1. tp = [pte_ppa EXCEPT ![l] = e]
    BY <1>b, tp = [pte_ppa EXCEPT ![l] = ent_ppa[k]]
  <2>. QED
    BY <1>1, <1>4, <2>1 DEF Mapping
<1>9. Firsts(tp, ent_ppa, rest) = A \ B
  <2>1. ASSUME NEW g \in Firsts(tp, ent_ppa, rest) PROVE g \in A \ B
    <3>1. CASE \E j \in rest : g = ent_ppa[j]
      BY <1>7, <1>f, <3>1
    <3>2. CASE \E m \in Mapping(tp) : g = tp[m]
      BY <1>7, <1>8, <3>2 DEF Mapping
    <3>. QED
      BY <3>1, <3>2 DEF Firsts
  <2>2. ASSUME NEW g \in A \ B PROVE g \in Firsts(tp, ent_ppa, rest)
    <3>1. CASE g = e
      BY <1>8, <3>1 DEF Firsts
    <3>2. CASE \E j \in todo : g = ent_ppa[j] /\ g # e
      BY <1>b, <1>f, <3>2 DEF Firsts
    <3>3. CASE \E m \in Mapping(pte_ppa) : g = pte_ppa[m]
      <4>1. PICK m \in Mapping(pte_ppa) : g = pte_ppa[m]
        BY <3>3
      <4>2. m \in Lpas /\ pte_ppa[m] # NoGrain
        BY DEF Mapping
      <4>3. m # l
        BY <1>d, <2>2, <4>1, <4>2
      <4>. QED
        BY <1>8, <4>1, <4>2, <4>3 DEF Firsts
    <3>. QED
      BY <1>c, <3>1, <3>2, <3>3 DEF Firsts
  <2>. QED
    BY <2>1, <2>2
<1>10. /\ oobs \in [Grains -> Oobs]
       /\ \A g \in A \ B : g # e => oobs[g] = oob[g]
       /\ oobs[e] = [lpa |-> l, length |-> oob[e].length]
  <2>a. PICK set : set = [oob EXCEPT ![e].lpa = l]
    OBVIOUS
  <2>b. PICK gs : gs = (valid \ old) \union Range(ent_ppa) \union Range(tp)
    OBVIOUS
  <2>1. oobs = Kept(set, gs)
    BY <1>a, <1>b, <2>a, <2>b, Zenon
  <2>2. /\ oob[e] \in Oobs /\ oob[e] = [lpa |-> oob[e].lpa, length |-> oob[e].length]
        /\ [lpa |-> l, length |-> oob[e].length] \in Oobs
    BY <1>1, <1>4 DEF Oobs
  <2>3. /\ set \in [Grains -> Oobs]
        /\ set[e] = [lpa |-> l, length |-> oob[e].length]
        /\ \A g \in Grains : g # e => set[g] = oob[g]
    <3>1. set = [oob EXCEPT ![e] = [lpa |-> l, length |-> oob[e].length]]
      <4>1. [oob[e] EXCEPT !.lpa = l] = [lpa |-> l, length |-> oob[e].length]
        BY <2>2
      <4>2. set = [oob EXCEPT ![e] = [oob[e] EXCEPT !.lpa = l]]
        BY <1>1, <1>4, <2>a
      <4>. QED
        BY <4>1, <4>2, Zenon
    <3>. QED
      BY <1>1, <1>4, <2>2, <3>1
  <2>4. NoOob \in Oobs
    BY FlushAssumption DEF NoOob, Oobs, Lpas
  <2>5. oobs \in [Grains -> Oobs] /\ \A g \in Grains : g \in gs => oobs[g] = set[g]
    BY <2>1, <2>3, <2>4 DEF Kept
  <2>6. \A g \in A \ B : g \in Grains /\ g \in gs
    BY <1>3, <1>6, <2>b
  <2>. QED
    BY <1>7, <2>3, <2>5, <2>6
<1>11. /\ cells \in [Grains -> Cells]
       /\ \A g \in A \ B : cells[g] = cell[g]
  <2>1. cells = [g \in Grains |-> IF g \in old THEN NoCell ELSE cell[g]]
    BY <1>a
  <2>2. \A g \in A \ B : g \in Grains /\ g \notin old
    BY <1>3, <1>6
  <2>. QED
    BY <1>1, <2>1, <2>2 DEF Cells
<1>12. Tiled(valid \ old, Firsts(tp, ent_ppa, rest), oobs)
  <2>1. ASSUME NEW g \in A \ B PROVE oobs[g].length = oob[g].length
    <3>1. CASE g = e
      <4>a. PICK n : n = oob[e].length
        OBVIOUS
      <4>1. [lpa |-> l, length |-> n].length = n
        OBVIOUS
      <4>. QED
        BY <1>10, <3>1, <4>a, <4>1, Zenon
    <3>2. CASE g # e
      BY <1>10, <3>2, Zenon
    <3>. QED
      BY <3>1, <3>2
  <2>2. Tiled(valid \ Owned(B, oob), A \ B, oobs)
    BY <1>2, <1>4, <2>1, TiledRemove
  <2>. QED
    BY <1>5, <1>9, <2>2, Zenon
<1>13. Exact(valid \ old, CountedOff(old, valid_cnt))
  BY <1>1, <1>3, <1>6, ExactRemove
<1>14. HeldOnce(tp, ent_ppa, rest)
  <2>1. ASSUME NEW m \in Mapping(tp), NEW n \in Mapping(tp), tp[m] = tp[n] PROVE m = n
    <3>1. m \in Lpas /\ n \in Lpas
      BY DEF Mapping
    <3>2. CASE m # l /\ n # l
      BY <1>1, <1>8, <2>1, <3>1, <3>2 DEF HeldOnce
    <3>3. CASE m = l /\ n # l
      BY <1>7, <1>8, <2>1, <3>1, <3>3
    <3>4. CASE m # l /\ n = l
      BY <1>7, <1>8, <2>1, <3>1, <3>4
    <3>. QED
      BY <3>2, <3>3, <3>4
  <2>2. ASSUME NEW m \in Mapping(tp), NEW j \in rest PROVE tp[m] # ent_ppa[j]
    <3>1. m \in Lpas /\ j \in todo /\ j # k
      BY <1>f DEF Mapping
    <3>2. CASE m = l
      BY <1>1, <1>8, <1>b, <3>1, <3>2 DEF HeldOnce
    <3>3. CASE m # l
      BY <1>1, <1>8, <3>1, <3>3 DEF HeldOnce
    <3>. QED
      BY <3>2, <3>3
  <2>3. \A i, j \in rest : ent_ppa[i] = ent_ppa[j] => i = j
    BY <1>1, <1>f DEF HeldOnce
  <2>. QED
    BY <2>1, <2>2, <2>3 DEF HeldOnce
<1>15. rk \in [Lpas -> Keys \union {NoKey} \union {k}] /\ rk[l] = k
       /\ \A m \in Lpas : m # l => rk[m] = real_keys[m]
  BY <1>e
<1>16. Named(oobs, cells, tp, rk)
  <2>1. ASSUME NEW m \in Mapping(tp) PROVE oobs[tp[m]].lpa = m /\ cells[tp[m]][1] = rk[m]
    <3>1. m \in Lpas
      BY DEF Mapping
    <3>2. CASE m = l
      <4>1. tp[m] = e /\ oobs[e] = [lpa |-> l, length |-> oob[e].length]
        BY <1>8, <1>10, <3>2
      <4>2. cells[e] = <<k, wb[k]>>
        BY <1>1, <1>7, <1>11, <1>b DEF Written
      <4>3. oobs[e].lpa = l /\ cells[e][1] = k
        BY <4>1, <4>2
      <4>. QED
        BY <1>15, <3>2, <4>1, <4>3
    <3>3. CASE m # l
      <4>1. m \in Mapping(pte_ppa) /\ tp[m] = pte_ppa[m]
        BY <1>8, <3>1, <3>3
      <4>2. oobs[tp[m]] = oob[pte_ppa[m]] /\ cells[tp[m]] = cell[pte_ppa[m]]
        BY <1>7, <1>10, <1>11, <3>3, <4>1
      <4>3. oob[pte_ppa[m]].lpa = m /\ cell[pte_ppa[m]][1] = real_keys[m]
        BY <1>1, <4>1 DEF Named
      <4>. QED
        BY <1>15, <3>1, <3>3, <4>2, <4>3
    <3>. QED
      BY <3>2, <3>3
  <2>. QED
    BY <2>1 DEF Named
<1>17. Written(cells, ent_ppa, rest, wb)
  BY <1>1, <1>7, <1>11, <1>f DEF Written
<1>18. FlashTypes(wp_offt, oobs, cells, tp)
  BY <1>1, <1>8, <1>10, <1>11 DEF FlashTypes
<1>19. Flash(wp_offt, valid \ old, CountedOff(old, valid_cnt), oobs, cells, tp,
             ent_ppa, rest, rk, wb)
  BY <1>1, <1>12, <1>13, <1>14, <1>16, <1>17, <1>18 DEF Flash
<1>20. Flash(wp_offt, valid \ Overwritten(l), CountedOff(Overwritten(l), valid_cnt),
             oobs, cells, tp, ent_ppa, todo \ {k}, [real_keys EXCEPT ![l] = k], wb)
  BY <1>19, <1>a, <1>e, <1>f, Zenon
<1>. QED
  BY <1>6, <1>20, <1>a

LEMMA MapKeeps ==
    ASSUME IInv, MapEntry
    PROVE  IInv'
<1>1. PICK k \in todo, c \in Tries :
        /\ invalidate(Overwritten(Lpa(k, c)))
        /\ pte_ppa' = [pte_ppa EXCEPT ![Lpa(k, c)] = ent_ppa[k]]
        /\ pte_fp' = [pte_fp EXCEPT ![Lpa(k, c)] = FpOf[k]]
        /\ real_keys' = [real_keys EXCEPT ![Lpa(k, c)] = k]
        /\ hash_table' = hash_table \union {<<ent_ppa[k], Lpa(k, c)>>}
        /\ max_try' = IF c > max_try THEN c ELSE max_try
        /\ oob' = Kept([oob EXCEPT ![ent_ppa[k]].lpa = Lpa(k, c)],
                       valid' \union Range(ent_ppa) \union Range(pte_ppa'))
        /\ cell' = [g \in Grains |-> IF g \in Overwritten(Lpa(k, c)) THEN NoCell
                                     ELSE cell[g]]
        /\ todo' = todo \ {k}
  BY DEF MapEntry, d_htable_insert
<1>2. /\ Phases /\ Roles /\ ListOK /\ FlashOK /\ pc = "map" /\ Pending = todo
      /\ failed = "none"
  BY DEF IInv, MapEntry, Pending, Running
<1>3. UNCHANGED <<wp_offt, sblk_rsv, line_wp, wb, pc, ent_ppa, fl, gc_bucket,
                  nand_err, active_sblk, free_sblk_cnt, d_active>>
  BY DEF MapEntry, pt_vars
<1>a. PICK l : l = Lpa(k, c)
  OBVIOUS
<1>4. k \in Keys /\ k \in DOMAIN wb /\ k \in DOMAIN ent_ppa /\ ent_ppa[k] \in Grains
  BY <1>2 DEF Phases
<1>5. l \in Lpas
  <2>1. c \in Nat
    BY FlushAssumption DEF Tries
  <2>. QED
    BY <1>4, <1>a, <2>1, LpaFacts
<1>6. /\ failed' = IF Overwritten(l) \subseteq valid THEN "none" ELSE "invalidate_grain"
      /\ valid' = valid \ Overwritten(l)
      /\ valid_cnt' = CountedOff(Overwritten(l), valid_cnt)
  BY <1>1, <1>a DEF invalidate
<1>7. /\ Overwritten(l) \subseteq valid
      /\ Flash(wp_offt, valid \ Overwritten(l), CountedOff(Overwritten(l), valid_cnt),
               oob', cell', pte_ppa', ent_ppa, todo \ {k},
               [real_keys EXCEPT ![l] = k], wb)
  <2>1. Flash(wp_offt, valid, valid_cnt, oob, cell, pte_ppa, ent_ppa, todo, real_keys, wb)
    BY <1>2, Zenon DEF FlashOK
  <2>2. real_keys \in [Lpas -> Keys \union {NoKey}]
    BY <1>2 DEF Phases
  <2>3. pte_ppa' = [pte_ppa EXCEPT ![l] = ent_ppa[k]]
    BY <1>1, <1>a
  <2>4. oob' = Kept([oob EXCEPT ![ent_ppa[k]].lpa = l],
                    (valid \ Overwritten(l)) \union Range(ent_ppa) \union Range(pte_ppa'))
    BY <1>1, <1>6, <1>a, Zenon
  <2>5. cell' = [g \in Grains |-> IF g \in Overwritten(l) THEN NoCell ELSE cell[g]]
    BY <1>1, <1>a
  <2>. QED
    BY <1>4, <1>5, <2>1, <2>2, <2>3, <2>4, <2>5, MapFlash, Zenon
<1>8. failed' = "none"
  BY <1>6, <1>7
<1>9. Phases'
  <2>1. hash_table' \subseteq Grains \X Lpas
    <3>a. PICK G : G = Grains
      OBVIOUS
    <3>b. PICK e : e = ent_ppa[k]
      OBVIOUS
    <3>1. hash_table' = hash_table \union {<<e, l>>} /\ e \in G /\ hash_table \subseteq G \X Lpas
      BY <1>1, <1>2, <1>4, <1>a, <3>a, <3>b, Zenon DEF Phases
    <3>2. hash_table' \subseteq G \X Lpas
      BY <1>5, <3>1
    <3>. QED
      BY <3>a, <3>2, Zenon
  <2>2. /\ pte_fp' \in [Lpas -> Nat]
        /\ real_keys' \in [Lpas -> Keys \union {NoKey}]
    BY <1>1, <1>2, <1>4, <1>a, FlushAssumption DEF Phases
  <2>3. max_try' \in Tries
    BY <1>1, <1>2 DEF Phases
  <2>4. todo' \subseteq DOMAIN wb
    BY <1>1, <1>2 DEF Phases
  <2>. QED
    BY <1>2, <1>3, <1>8, <2>1, <2>2, <2>3, <2>4 DEF Phases
<1>10. Roles' /\ ListOK'
  BY <1>2, <1>3 DEF Roles, ListOK
<1>11. FlashOK'
  <2>1. Pending' = todo \ {k}
    BY <1>1, <1>2, <1>3 DEF Pending
  <2>2. real_keys' = [real_keys EXCEPT ![l] = k]
    BY <1>1, <1>a
  <2>3. Flash(wp_offt', valid', valid_cnt', oob', cell', pte_ppa', ent_ppa', Pending',
              real_keys', wb')
    BY <1>3, <1>6, <1>7, <2>1, <2>2, Zenon
  <2>. QED
    BY <2>3, Zenon DEF FlashOK
<1>. QED
  BY <1>9, <1>10, <1>11 DEF IInv

-----------------------------------------------------------------------------
(* The invariant. *)

LEMMA InitSound == Init => IInv
<1>. SUFFICES ASSUME Init PROVE IInv
  OBVIOUS
<1>1. /\ wp_offt = [b \in Sblks |-> 0] /\ valid_cnt = [b \in Sblks |-> 0]
      /\ sblk_rsv = s_sblk /\ active_sblk = NoSblk
      /\ free_sblk_cnt = e_sblk - s_sblk + 1 /\ line_wp = [b \in Sblks |-> 0]
      /\ valid = {} /\ oob = [g \in Grains |-> NoOob] /\ d_active = NoSblk
      /\ wb = <<>> /\ pc = "idle" /\ todo = {} /\ ent_ppa = <<>> /\ fl = <<>>
      /\ hash_table = {} /\ pte_ppa = [l \in Lpas |-> NoGrain]
      /\ pte_fp = [l \in Lpas |-> 0] /\ real_keys = [l \in Lpas |-> NoKey]
      /\ max_try = 0 /\ gc_bucket = "null" /\ nand_err = FALSE
      /\ failed = "none" /\ cell = [g \in Grains |-> NoCell]
  BY DEF Init
<1>2. DOMAIN <<>> = {} /\ IsFiniteSet({}) /\ Cardinality({}) = 0
  BY FS_EmptySet
<1>3. Phases
  <2>1. 0 \in Tries
    BY FlushAssumption DEF Tries
  <2>. QED
    BY <1>1, <1>2, <2>1 DEF Phases
<1>4. Roles
  <2>1. sblk_rsv \in Sblks /\ sblk_rsv # NoSblk
    BY <1>1, SblksFacts, PartitionAssumption DEF Sblks
  <2>2. free_sblk_cnt = Cardinality({b \in Sblks : wp_offt[b] = 0})
    <3>1. {b \in Sblks : wp_offt[b] = 0} = Sblks
      BY <1>1
    <3>. QED
      BY <1>1, <3>1, SblksFacts
  <2>3. GcNeeded(free_sblk_cnt) \/ active_sblk = d_active
    BY <1>1
  <2>. QED
    BY <1>1, <2>1, <2>2, <2>3 DEF Roles
<1>5. ListOK
  <2>1. 0 \in 0 .. PPS
    BY Geometry
  <2>2. ASSUME NEW p \in Pages PROVE ~(line_wp[p[1]] <= p[2] /\ p[2] < wp_offt[p[1]])
    BY <1>1 DEF Pages
  <2>3. \A b \in Sblks : line_wp[b] <= wp_offt[b]
    BY <1>1
  <2>4. Listed(wp_offt, line_wp, fl)
    BY <1>1, <1>2, <2>1, <2>2, <2>3 DEF Listed
  <2>. QED
    BY <1>1, <1>2, <2>4 DEF ListOK
<1>6. FlashOK
  <2>1. Mapping(pte_ppa) = {} /\ Pending = {}
    BY <1>1 DEF Mapping, Pending
  <2>2. Firsts(pte_ppa, ent_ppa, Pending) = {}
    BY <2>1 DEF Firsts
  <2>3. HeldOnce(pte_ppa, ent_ppa, Pending)
    BY <2>1 DEF HeldOnce
  <2>4. Tiled(valid, {}, oob)
    BY <1>1 DEF Tiled
  <2>5. Exact(valid, valid_cnt)
    <3>1. 0 \in 0 .. GrainsPerSblk
      BY Geometry
    <3>2. ASSUME NEW b \in Sblks PROVE valid_cnt[b] = Cardinality({g \in valid : g[1] = b})
      <4>1. {g \in valid : g[1] = b} = {}
        BY <1>1
      <4>. QED
        BY <1>1, <1>2, <4>1
    <3>. QED
      BY <1>1, <3>1, <3>2 DEF Exact
  <2>6. Named(oob, cell, pte_ppa, real_keys) /\ Written(cell, ent_ppa, Pending, wb)
    BY <2>1 DEF Named, Written
  <2>7. FlashTypes(wp_offt, oob, cell, pte_ppa)
    <3>1. NoOob \in Oobs
      BY FlushAssumption DEF NoOob, Oobs, Lpas
    <3>2. 0 \in 0 .. PPS
      BY Geometry
    <3>. QED
      BY <1>1, <3>1, <3>2 DEF FlashTypes, Cells
  <2>8. Tiled(valid, Firsts(pte_ppa, ent_ppa, Pending), oob)
    BY <2>2, <2>4, Zenon
  <2>. QED
    BY <1>1, <2>3, <2>5, <2>6, <2>7, <2>8 DEF FlashOK, Flash
<1>. QED
  BY <1>3, <1>4, <1>5, <1>6 DEF IInv

LEMMA StepKeeps == IInv /\ Settled /\ [Next]_vars => IInv'
<1>. SUFFICES ASSUME IInv, Settled, [Next]_vars PROVE IInv'
  OBVIOUS
<1>1. CASE \E k \in Keys, v \in Vals : Insert(k, v)
  BY <1>1, InsertKeeps
<1>2. CASE BeginFlush
  BY <1>2, BeginKeeps
<1>3. CASE AssignInActive
  BY <1>3, InActiveKeeps
<1>4. CASE AssignInNext
  BY <1>4, InNextKeeps
<1>5. CASE AssignAfterGc
  BY <1>5, AfterGcKeeps
<1>6. CASE GcFails
  BY <1>6, GcFailKeeps
<1>7. CASE MapEntry
  BY <1>7, MapKeeps
<1>8. CASE Flush
  BY <1>8, FlushKeeps
<1>9. CASE UNCHANGED vars
  BY <1>9 DEF vars, IInv, Phases, Roles, ListOK, FlashOK, Pending
<1>. QED
  BY <1>1, <1>2, <1>3, <1>4, <1>5, <1>6, <1>7, <1>8, <1>9 DEF Next

\* The inductive invariant holds as long as GC leaves alone the superblocks to
\* which the flush under way has written.
THEOREM Invariance == Spec /\ []Settled => []IInv
<1>1. Init => IInv
  BY InitSound
<1>2. IInv /\ Settled /\ [Next]_vars => IInv'
  BY StepKeeps
<1>. QED
  BY <1>1, <1>2, PTL DEF Spec

-----------------------------------------------------------------------------
(* What the invariant says of the properties that the runs check. *)

LEMMA OwnersKnown ==
    ASSUME IInv
    PROVE  /\ Tiled(valid, Firsts(pte_ppa, ent_ppa, Pending), oob)
           /\ HeldOnce(pte_ppa, ent_ppa, Pending)
           /\ Named(oob, cell, pte_ppa, real_keys)
           /\ Exact(valid, valid_cnt)
           /\ FlashTypes(wp_offt, oob, cell, pte_ppa)
           /\ \A g \in valid : Programmed(wp_offt, PageOf(g))
           /\ Mapping(pte_ppa) = Mapped
BY DEF IInv, FlashOK, Flash, Mapping, Mapped

LEMMA TypesKnown ==
    ASSUME IInv
    PROVE  TypeOK
<1>1. Phases /\ Roles /\ ListOK
  BY DEF IInv
<1>2. free_sblk_cnt \in 1 .. (e_sblk - s_sblk + 1)
  <2>a. PICK F : F = {b \in Sblks : wp_offt[b] = 0}
    OBVIOUS
  <2>1. F \in SUBSET Sblks /\ F # {} /\ free_sblk_cnt = Cardinality(F)
    BY <1>1, <2>a DEF Roles
  <2>2. /\ IsFiniteSet(F) /\ Cardinality(F) <= e_sblk - s_sblk + 1
    BY <2>1, SblksFacts, FS_Subset
  <2>3. Cardinality(F) \in Nat /\ Cardinality(F) # 0
    BY <2>1, <2>2, FS_CardinalityType, FS_EmptySet
  <2>. QED
    BY <2>1, <2>2, <2>3, PartitionAssumption
<1>3. valid \subseteq Grains
  <2>1. Tiled(valid, Firsts(pte_ppa, ent_ppa, Pending), oob)
    BY OwnersKnown
  <2>. QED
    BY <2>1, FirstsValid
<1>4. /\ wp_offt \in [Sblks -> 0 .. PPS]
      /\ valid_cnt \in [Sblks -> 0 .. GrainsPerSblk]
      /\ oob \in [Grains -> [lpa : Lpas, length : 0 .. GRAIN_PER_PAGE]]
      /\ pte_ppa \in [Lpas -> Grains \union {NoGrain}]
      /\ cell \in [Grains -> (Keys \X Vals) \union {NoCell}]
  BY OwnersKnown DEF FlashTypes, Exact, Oobs, Cells
<1>5. /\ line_wp \in [Sblks -> 0 .. PPS] /\ fl \in Seq(Pages) /\ nand_err = FALSE
  BY <1>1 DEF ListOK, Listed
<1>6. /\ sblk_rsv \in Sblks /\ active_sblk \in Sblks \union {NoSblk}
      /\ d_active \in Sblks \union {NoSblk}
  BY <1>1 DEF Roles
<1>7. DOMAIN ent_ppa \subseteq DOMAIN wb
  BY <1>1 DEF Phases
<1>8. failed \in Failures \union {"none"}
  BY <1>1 DEF Phases, Failures
<1>. QED
  BY <1>1, <1>2, <1>3, <1>4, <1>5, <1>6, <1>7, <1>8 DEF TypeOK, Phases

\* The pages of a superblock in the list are those between the two pointers.
LEMMA ListLength ==
    ASSUME NEW wp \in [Sblks -> 0 .. PPS], NEW lw, NEW list, Listed(wp, lw, list),
           NEW b \in Sblks
    PROVE  wp[b] = lw[b] + Cardinality({i \in DOMAIN list : list[i][1] = b})
<1>a. PICK I : I = {i \in DOMAIN list : list[i][1] = b}
  OBVIOUS
<1>b. PICK lo, hi : lo = lw[b] /\ hi = wp[b]
  OBVIOUS
<1>1. lo \in Nat /\ hi \in Nat /\ lo <= hi /\ hi <= PPS
  <2>1. lw[b] \in 0 .. PPS /\ wp[b] \in 0 .. PPS /\ lw[b] <= wp[b]
    BY DEF Listed
  <2>. QED
    BY <1>b, <2>1, Geometry
<1>2. ASSUME NEW i \in I
      PROVE  i \in Nat /\ i \in DOMAIN list /\ list[i] \in Pages /\ list[i] = <<b, list[i][2]>>
  <2>1. i \in DOMAIN list /\ list[i][1] = b /\ list \in Seq(Pages)
    BY <1>a DEF Listed
  <2>2. i \in Nat /\ list[i] \in Pages
    BY <2>1
  <2>. QED
    BY <2>1, <2>2 DEF Pages
<1>3. ASSUME NEW i \in I PROVE list[i][2] \in lo .. hi - 1
  <2>1. lw[list[i][1]] <= list[i][2] /\ list[i][2] < wp[list[i][1]]
    BY <1>2 DEF Listed
  <2>2. list[i][1] = b /\ list[i][2] \in Nat
    BY <1>a, <1>2 DEF Pages
  <2>3. lo <= list[i][2] /\ list[i][2] < hi
    BY <1>b, <2>1, <2>2
  <2>. QED
    BY <1>1, <2>2, <2>3
<1>4. ASSUME NEW n \in lo .. hi - 1 PROVE \E i \in I : list[i][2] = n
  <2>a. PICK p : p = <<b, n>>
    OBVIOUS
  <2>1. p \in Pages
    BY <1>1, <2>a, Geometry DEF Pages
  <2>2. lw[p[1]] <= p[2] /\ p[2] < wp[p[1]]
    BY <1>1, <1>b, <2>a
  <2>3. PICK i \in DOMAIN list : list[i] = p
    BY <2>1, <2>2 DEF Listed
  <2>4. list[i][1] = b /\ list[i][2] = n
    BY <2>a, <2>3
  <2>. QED
    BY <1>a, <2>4
<1>5. ASSUME NEW i \in I, NEW j \in I, list[i][2] = list[j][2] PROVE i = j
  <2>1. list[i][1] = b /\ list[j][1] = b /\ i \in Nat /\ j \in Nat
        /\ i \in DOMAIN list /\ j \in DOMAIN list
    BY <1>2, <1>a
  <2>2. list[i][2] \in Nat /\ list[j][2] \in Nat
    BY <1>1, <1>3
  <2>a. \A x, y \in DOMAIN list :
            x < y /\ list[x][1] = list[y][1] => list[x][2] < list[y][2]
    BY DEF Listed
  <2>b. ~(list[i][2] < list[j][2]) /\ ~(list[j][2] < list[i][2])
    BY ONLY <1>5, <2>2
  <2>3. CASE i < j
    BY <2>a, <2>b, <2>1, <2>3
  <2>4. CASE j < i
    BY <2>a, <2>b, <2>1, <2>4
  <2>. QED
    BY <2>1, <2>3, <2>4
<1> DEFINE R == lo .. hi - 1
           f == [i \in I |-> list[i][2]]
<1>6. ExistsBijection(I, R)
  <2>1. f \in [I -> R] /\ \A n \in R : \E i \in I : f[i] = n
    BY <1>3, <1>4
  <2>2. \A i, j \in I : f[i] = f[j] => i = j
    BY <1>5
  <2>. HIDE DEF f, R
  <2>3. IsInjective(f)
    BY <2>1, <2>2 DEF IsInjective
  <2>4. f \in Bijection(I, R)
    BY <2>1, <2>2 DEF Bijection, Injection, Surjection, IsInjective
  <2>. QED
    BY <2>4 DEF ExistsBijection
<1>7. IsFiniteSet(R) /\ Cardinality(R) = hi - lo
  <2>1. lo \in Int /\ hi - 1 \in Int
    BY <1>1
  <2>2. IsFiniteSet(R) /\ Cardinality(R) = IF lo > hi - 1 THEN 0 ELSE hi - 1 - lo + 1
    BY <2>1, FS_Interval
  <2>. QED
    BY <1>1, <2>2
<1>8. Cardinality(I) = hi - lo
  <2>. HIDE DEF R
  <2>1. ExistsBijection(R, I)
    BY <1>6, Fun_ExistsBijSymmetric
  <2>. QED
    BY <1>7, <2>1, FS_Bijection
<1>. QED
  BY <1>1, <1>8, <1>a, <1>b

LEMMA NandFollows ==
    ASSUME IInv
    PROVE  NandInStep
<1>1. /\ wp_offt \in [Sblks -> 0 .. PPS] /\ Listed(wp_offt, line_wp, fl)
      /\ valid \subseteq Grains
      /\ \A g \in valid : Programmed(wp_offt, PageOf(g))
  BY OwnersKnown, TypesKnown DEF TypeOK, IInv, ListOK
<1>2. ASSUME NEW g \in valid
      PROVE  Programmed(line_wp, PageOf(g)) \/ \E i \in DOMAIN fl : fl[i] = PageOf(g)
  <2>a. PICK p : p = PageOf(g)
    OBVIOUS
  <2>1. p \in Pages /\ p[2] < wp_offt[p[1]]
    BY <1>1, <2>a, GrainFacts DEF Programmed
  <2>2. line_wp[p[1]] \in Nat /\ p[2] \in Nat
    BY <1>1, <2>1, Geometry DEF Listed, Pages
  <2>3. CASE p[2] < line_wp[p[1]]
    BY <2>3, <2>a DEF Programmed
  <2>4. CASE line_wp[p[1]] <= p[2]
    BY <1>1, <2>1, <2>4, <2>a DEF Listed
  <2>. QED
    BY <2>2, <2>3, <2>4
<1>3. \A b \in Sblks :
          wp_offt[b] = line_wp[b] + Cardinality({i \in DOMAIN fl : fl[i][1] = b})
  BY <1>1, ListLength
<1>. QED
  BY <1>2, <1>3 DEF NandInStep

\* The grains of an owner: the value of a mapped entry, or one not mapped yet.
LEMMA GrainsKnown ==
    ASSUME IInv
    PROVE  GrainsOwned
<1> DEFINE Owner == ({"lpa"} \X Mapped) \union ({"entry"} \X Pending)
           At(o) == IF o[1] = "lpa" THEN pte_ppa[o[2]] ELSE ent_ppa[o[2]]
           Own(o) == Span(At(o), oob[At(o)].length)
<1>a. PICK A : A = Firsts(pte_ppa, ent_ppa, Pending)
  OBVIOUS
<1>1. /\ valid = UNION {Span(g, oob[g].length) : g \in A}
      /\ \A g, h \in A : g # h => Span(g, oob[g].length) \cap Span(h, oob[h].length) = {}
  BY <1>a, OwnersKnown DEF Tiled
<1>2. ASSUME NEW o \in Owner
      PROVE  \/ o = <<"lpa", o[2]>> /\ o[2] \in Mapped /\ At(o) = pte_ppa[o[2]]
             \/ o = <<"entry", o[2]>> /\ o[2] \in Pending /\ At(o) = ent_ppa[o[2]]
  OBVIOUS
<1>3. ASSUME NEW l \in Mapped
      PROVE  <<"lpa", l>> \in Owner /\ At(<<"lpa", l>>) = pte_ppa[l]
  OBVIOUS
<1>4. ASSUME NEW k \in Pending
      PROVE  <<"entry", k>> \in Owner /\ At(<<"entry", k>>) = ent_ppa[k]
  OBVIOUS
<1>. HIDE DEF Owner, At
<1>5. \A o \in Owner : At(o) \in A
  BY <1>2, <1>a, OwnersKnown DEF Firsts
<1>6. ASSUME NEW g \in A PROVE \E o \in Owner : At(o) = g
  BY <1>3, <1>4, <1>a, OwnersKnown DEF Firsts
<1>7. ASSUME NEW o \in Owner, NEW q \in Owner, o # q PROVE At(o) # At(q)
  <2>1. CASE o = <<"lpa", o[2]>> /\ q = <<"lpa", q[2]>>
    BY <1>2, <1>7, <2>1, OwnersKnown DEF HeldOnce
  <2>2. CASE o = <<"lpa", o[2]>> /\ q = <<"entry", q[2]>>
    BY <1>2, <1>7, <2>2, OwnersKnown DEF HeldOnce
  <2>3. CASE o = <<"entry", o[2]>> /\ q = <<"lpa", q[2]>>
    BY <1>2, <1>7, <2>3, OwnersKnown DEF HeldOnce
  <2>4. CASE o = <<"entry", o[2]>> /\ q = <<"entry", q[2]>>
    BY <1>2, <1>7, <2>4, OwnersKnown DEF HeldOnce
  <2>. QED
    BY <1>2, <2>1, <2>2, <2>3, <2>4
<1>8. valid = UNION {Own(o) : o \in Owner}
  BY <1>1, <1>5, <1>6
<1>9. \A o, q \in Owner : o # q => Own(o) \cap Own(q) = {}
  BY <1>1, <1>5, <1>7
<1>. QED
  BY <1>8, <1>9 DEF GrainsOwned, Owner, At

-----------------------------------------------------------------------------
(* The probing of the mapping, when no two keys have one fingerprint. *)

\* The set of key k has taken the entry at place c of its path.
TakenAt(k, c) ==
    /\ k \in todo /\ k \in Keys /\ k \in DOMAIN wb
    /\ c \in Tries /\ Lpa(k, c) \in Lpas
    /\ Takes(k, Lpa(k, c)) /\ \A i \in 0 .. c - 1 : ~Takes(k, Lpa(k, i))
    /\ pc = "map" /\ UNCHANGED <<pc, wb>> /\ todo' = todo \ {k}
    /\ pte_ppa' = [pte_ppa EXCEPT ![Lpa(k, c)] = ent_ppa[k]]
    /\ pte_ppa'[Lpa(k, c)] = ent_ppa[k] /\ ent_ppa[k] # NoGrain
    /\ pte_fp' = [pte_fp EXCEPT ![Lpa(k, c)] = FpOf[k]]
    /\ real_keys' = [real_keys EXCEPT ![Lpa(k, c)] = k]
    /\ hash_table' = hash_table \union {<<ent_ppa[k], Lpa(k, c)>>}
    /\ max_try' = IF c > max_try THEN c ELSE max_try
    /\ cell'[ent_ppa[k]] = <<k, wb[k]>>
    /\ \A m \in Mapped : m # Lpa(k, c) => cell'[pte_ppa[m]] = cell[pte_ppa[m]]

LEMMA MapTakes ==
    ASSUME IInv, MapEntry
    PROVE  \E k \in Keys, c \in Tries : TakenAt(k, c)
<1>1. PICK k \in todo, c \in Tries :
        /\ Takes(k, Lpa(k, c)) /\ \A i \in 0 .. c - 1 : ~Takes(k, Lpa(k, i))
        /\ invalidate(Overwritten(Lpa(k, c)))
        /\ pte_ppa' = [pte_ppa EXCEPT ![Lpa(k, c)] = ent_ppa[k]]
        /\ pte_fp' = [pte_fp EXCEPT ![Lpa(k, c)] = FpOf[k]]
        /\ real_keys' = [real_keys EXCEPT ![Lpa(k, c)] = k]
        /\ hash_table' = hash_table \union {<<ent_ppa[k], Lpa(k, c)>>}
        /\ max_try' = IF c > max_try THEN c ELSE max_try
        /\ cell' = [g \in Grains |-> IF g \in Overwritten(Lpa(k, c)) THEN NoCell
                                     ELSE cell[g]]
        /\ todo' = todo \ {k}
  BY DEF MapEntry, d_htable_insert
<1>2. pc = "map" /\ UNCHANGED <<wp_offt, wb, pc, ent_ppa>>
  BY DEF MapEntry
<1>a. PICK l : l = Lpa(k, c)
  OBVIOUS
<1>b. PICK e : e = ent_ppa[k]
  OBVIOUS
<1>3. k \in Keys /\ k \in DOMAIN wb /\ e \in Grains /\ e # NoGrain
  BY <1>2, <1>b, NoGrainFacts DEF IInv, Phases
<1>4. l \in Lpas
  <2>1. c \in Nat
    BY FlushAssumption DEF Tries
  <2>. QED
    BY <1>3, <1>a, <2>1, LpaFacts
<1>5. /\ pte_ppa \in [Lpas -> Grains \union {NoGrain}]
      /\ cell[e] = <<k, wb[k]>>
  <2>1. Written(cell, ent_ppa, Pending, wb) /\ Pending = todo
    BY <1>2 DEF Pending, IInv, FlashOK, Flash
  <2>2. pte_ppa \in [Lpas -> Grains \union {NoGrain}]
    BY OwnersKnown DEF FlashTypes
  <2>. QED
    BY <1>b, <2>1, <2>2 DEF Written
<1>6. /\ valid' = valid \ Overwritten(l) /\ valid' \subseteq Grains
      /\ \A m \in Mapping(pte_ppa') : pte_ppa'[m] \in valid'
  <2>1. (IInv => Tiled(valid, Firsts(pte_ppa, ent_ppa, Pending), oob))'
    BY OwnersKnown, PTL
  <2>2. Tiled(valid', Firsts(pte_ppa', ent_ppa', Pending'), oob')
    BY <2>1, MapKeeps
  <2>3. Firsts(pte_ppa', ent_ppa', Pending') \subseteq valid' /\ valid' \subseteq Grains
    BY <2>2, FirstsValid
  <2>4. valid' = valid \ Overwritten(l)
    BY <1>1, <1>a DEF invalidate
  <2>5. \A m \in Mapping(pte_ppa') : pte_ppa'[m] \in Firsts(pte_ppa', ent_ppa', Pending')
    BY DEF Firsts
  <2>. QED
    BY <2>3, <2>4, <2>5
<1>7. \A g \in valid' : cell'[g] = cell[g]
  <2>1. cell' = [g \in Grains |-> IF g \in Overwritten(l) THEN NoCell ELSE cell[g]]
    BY <1>1, <1>a
  <2>. QED
    BY <1>6, <2>1
<1>8. /\ pte_ppa'[l] = e
      /\ \A m \in Lpas : m # l => pte_ppa'[m] = pte_ppa[m]
  BY <1>1, <1>4, <1>5, <1>a, <1>b
<1>9. cell'[e] = <<k, wb[k]>>
  BY <1>3, <1>4, <1>5, <1>6, <1>7, <1>8 DEF Mapping
<1>10. \A m \in Mapped : m # l => cell'[pte_ppa[m]] = cell[pte_ppa[m]]
  BY <1>6, <1>7, <1>8 DEF Mapping, Mapped
<1>11. TakenAt(k, c)
  BY <1>1, <1>2, <1>3, <1>4, <1>8, <1>9, <1>10, <1>a, <1>b DEF TakenAt
<1>. QED
  BY <1>3, <1>11

\* The entry that is taken is the one that has the key, when one has.
LEMMA TakenOwn ==
    ASSUME FpsDiffer, Phases, ProbeOK, NEW k \in Keys, NEW c \in Tries, TakenAt(k, c)
    PROVE  /\ \A m \in Mapped : real_keys[m] = k <=> m = Lpa(k, c)
           /\ \A i \in 0 .. c - 1 : /\ Lpa(k, i) # Lpa(k, c)
                                    /\ pte_ppa[Lpa(k, i)] # NoGrain
                                    /\ pte_fp[Lpa(k, i)] # FpOf[k]
<1>a. PICK l : l = Lpa(k, c)
  OBVIOUS
<1>1. /\ k \in todo /\ pc = "map" /\ l \in Lpas /\ c \in Nat
      /\ Takes(k, l) /\ \A i \in 0 .. c - 1 : ~Takes(k, Lpa(k, i))
  BY <1>a, FlushAssumption DEF TakenAt, Tries
<1>2. ASSUME NEW m \in Lpas, d_htable_find(pte_ppa[m], m) PROVE real_keys[m] # k
  BY <1>1, <1>2 DEF ProbeOK, Flushed
<1>3. ASSUME NEW m \in Mapped
      PROVE  /\ m \in Lpas /\ pte_ppa[m] # NoGrain
             /\ real_keys[m] \in Keys /\ pte_fp[m] = FpOf[real_keys[m]]
             /\ pte_fp[m] = FpOf[k] => real_keys[m] = k
  BY DEF ProbeOK, Reached, Mapped, FpsDiffer
<1>4. ASSUME NEW m \in Mapped, real_keys[m] = k PROVE m = l
  <2>1. PICK d \in 0 .. max_try : m = Lpa(k, d) /\ Found(pte_ppa, pte_fp, real_keys, k, d)
    BY <1>4 DEF ProbeOK, Reached
  <2>2. max_try \in Nat
    <3>1. max_try \in Tries
      BY DEF Phases
    <3>. QED
      BY <3>1, FlushAssumption DEF Tries
  <2>3. Takes(k, m)
    BY <1>2, <1>3, <1>4 DEF Takes
  <2>4. ~(d < c)
    BY <1>1, <2>1, <2>2, <2>3
  <2>5. CASE c < d
    <3>1. c \in 0 .. d - 1
      BY <1>1, <2>1, <2>2, <2>5
    <3>2. pte_ppa[l] # NoGrain /\ pte_fp[l] # FpOf[k]
      BY <1>a, <2>1, <3>1 DEF Found
    <3>. QED
      BY <1>1, <3>2 DEF Takes
  <2>6. CASE c = d
    BY <1>a, <2>1, <2>6
  <2>. QED
    BY <1>1, <2>1, <2>2, <2>4, <2>5, <2>6
<1>5. ASSUME l \in Mapped PROVE real_keys[l] = k
  <2>1. pte_fp[l] = FpOf[k]
    BY <1>1, <1>3, <1>5 DEF Takes
  <2>. QED
    BY <1>3, <1>5, <2>1
<1>6. ASSUME NEW i \in 0 .. c - 1
      PROVE  /\ Lpa(k, i) # l
             /\ pte_ppa[Lpa(k, i)] # NoGrain /\ pte_fp[Lpa(k, i)] # FpOf[k]
  <2>a. PICK m : m = Lpa(k, i)
    OBVIOUS
  <2>1. m \in Lpas
    BY <1>1, <2>a, LpaFacts
  <2>2. ~Takes(k, m)
    BY <1>1, <2>a
  <2>3. m # l /\ pte_ppa[m] # NoGrain /\ m \in Mapped
    BY <1>1, <2>1, <2>2 DEF Takes, Mapped
  <2>4. ASSUME pte_fp[m] = FpOf[k] PROVE FALSE
    BY <1>2, <1>3, <2>1, <2>2, <2>3, <2>4 DEF Takes
  <2>. QED
    BY <2>a, <2>3, <2>4
<1>. QED
  BY <1>4, <1>5, <1>6, <1>a

LEMMA MapProbes ==
    ASSUME FpsDiffer, IInv, ProbeOK, MapEntry
    PROVE  ProbeOK'
<1>0. Phases
  BY DEF IInv
<1>1. PICK k \in Keys, c \in Tries : TakenAt(k, c)
  BY MapTakes
<1>a. PICK l : l = Lpa(k, c)
  OBVIOUS
<1>2. /\ \A m \in Mapped : real_keys[m] = k <=> m = l
      /\ \A i \in 0 .. c - 1 : /\ Lpa(k, i) # l /\ pte_ppa[Lpa(k, i)] # NoGrain
                               /\ pte_fp[Lpa(k, i)] # FpOf[k]
  BY <1>0, <1>1, <1>a, TakenOwn
<1>3. /\ k \in todo /\ k \in DOMAIN wb /\ l \in Lpas /\ c \in Nat /\ max_try \in Nat
      /\ pc = "map" /\ UNCHANGED <<pc, wb>> /\ todo' = todo \ {k}
      /\ hash_table' = hash_table \union {<<ent_ppa[k], l>>}
      /\ max_try' = IF c > max_try THEN c ELSE max_try
      /\ cell'[ent_ppa[k]] = <<k, wb[k]>> /\ ent_ppa[k] # NoGrain
      /\ \A m \in Mapped : m # l => cell'[pte_ppa[m]] = cell[pte_ppa[m]]
  <2>1. /\ k \in todo /\ k \in DOMAIN wb /\ l \in Lpas
        /\ pc = "map" /\ UNCHANGED <<pc, wb>> /\ todo' = todo \ {k}
        /\ hash_table' = hash_table \union {<<ent_ppa[k], l>>}
        /\ max_try' = IF c > max_try THEN c ELSE max_try
        /\ cell'[ent_ppa[k]] = <<k, wb[k]>> /\ ent_ppa[k] # NoGrain
        /\ \A m \in Mapped : m # l => cell'[pte_ppa[m]] = cell[pte_ppa[m]]
    BY <1>1, <1>a, Zenon DEF TakenAt
  <2>2. max_try \in Tries
    BY <1>0 DEF Phases
  <2>3. c \in Nat /\ max_try \in Nat
    BY <2>2, FlushAssumption DEF Tries
  <2>. QED
    BY <2>1, <2>3
<1>4. /\ pte_ppa'[l] = ent_ppa[k] /\ pte_fp'[l] = FpOf[k] /\ real_keys'[l] = k
      /\ \A m \in Lpas : m # l => /\ pte_ppa'[m] = pte_ppa[m] /\ pte_fp'[m] = pte_fp[m]
                                  /\ real_keys'[m] = real_keys[m]
  <2>1. /\ pte_ppa \in [Lpas -> Grains \union {NoGrain}]
        /\ pte_fp \in [Lpas -> Nat] /\ real_keys \in [Lpas -> Keys \union {NoKey}]
    BY TypesKnown DEF TypeOK
  <2>2. /\ pte_ppa' = [pte_ppa EXCEPT ![l] = ent_ppa[k]]
        /\ pte_fp' = [pte_fp EXCEPT ![l] = FpOf[k]]
        /\ real_keys' = [real_keys EXCEPT ![l] = k]
    BY <1>1, <1>a DEF TakenAt
  <2>. QED
    BY <1>3, <2>1, <2>2
<1>5. /\ l \in Mapped'
      /\ \A m \in Lpas : m # l => (m \in Mapped' <=> m \in Mapped)
  BY <1>3, <1>4 DEF Mapped
<1>6. ASSUME NEW j \in Keys, j # k, NEW d \in Nat, Lpa(j, d) \in Mapped,
             Found(pte_ppa, pte_fp, real_keys, j, d)
      PROVE  Found(pte_ppa', pte_fp', real_keys', j, d)
  <2>1. Lpa(j, d) # l /\ Lpa(j, d) \in Lpas
    <3>1. real_keys[Lpa(j, d)] = j
      BY <1>6 DEF Found
    <3>. QED
      BY <1>2, <1>6, <3>1 DEF Mapped
  <2>2. ASSUME NEW i \in 0 .. d - 1
        PROVE  pte_ppa'[Lpa(j, i)] # NoGrain /\ pte_fp'[Lpa(j, i)] # FpOf[j]
    <3>1. Lpa(j, i) \in Lpas
      BY LpaFacts
    <3>2. pte_ppa[Lpa(j, i)] # NoGrain /\ pte_fp[Lpa(j, i)] # FpOf[j]
      BY <1>6 DEF Found
    <3>3. FpOf[k] # FpOf[j]
      BY <1>6 DEF FpsDiffer
    <3>4. CASE Lpa(j, i) = l
      BY <1>3, <1>4, <3>3, <3>4
    <3>5. CASE Lpa(j, i) # l
      BY <1>4, <3>1, <3>2, <3>5
    <3>. QED
      BY <3>4, <3>5
  <2>3. pte_ppa'[Lpa(j, d)] # NoGrain /\ real_keys'[Lpa(j, d)] = j
    BY <1>4, <1>6, <2>1 DEF Found
  <2>. QED
    BY <2>2, <2>3 DEF Found
<1>7. ASSUME NEW m \in Mapped'
      PROVE  /\ real_keys'[m] \in Keys /\ pte_fp'[m] = FpOf[real_keys'[m]]
             /\ \E d \in 0 .. max_try' :
                   /\ m = Lpa(real_keys'[m], d)
                   /\ Found(pte_ppa', pte_fp', real_keys', real_keys'[m], d)
  <2>0. m \in Lpas /\ c \in 0 .. max_try' /\ 0 .. max_try \subseteq 0 .. max_try'
    BY <1>3 DEF Mapped
  <2>1. CASE m = l
    <3>1. Found(pte_ppa', pte_fp', real_keys', k, c)
      <4>1. \A i \in 0 .. c - 1 : pte_ppa'[Lpa(k, i)] # NoGrain
                                  /\ pte_fp'[Lpa(k, i)] # FpOf[k]
        <5>1. ASSUME NEW i \in 0 .. c - 1
              PROVE  pte_ppa'[Lpa(k, i)] # NoGrain /\ pte_fp'[Lpa(k, i)] # FpOf[k]
          <6>1. Lpa(k, i) \in Lpas
            BY LpaFacts
          <6>. QED
            BY <1>2, <1>4, <6>1
        <5>. QED
          BY <5>1
      <4>. QED
        BY <1>3, <1>4, <1>a, <4>1 DEF Found
    <3>. QED
      BY <1>4, <1>a, <2>0, <2>1, <3>1
  <2>2. CASE m # l
    <3>1. m \in Mapped
      BY <1>5, <2>0, <2>2
    <3>a. PICK j : j = real_keys[m]
      OBVIOUS
    <3>2. j \in Keys /\ j # k /\ pte_fp[m] = FpOf[j]
      BY <1>2, <2>2, <3>1, <3>a DEF ProbeOK, Reached
    <3>3. PICK d \in 0 .. max_try : m = Lpa(j, d) /\ Found(pte_ppa, pte_fp, real_keys, j, d)
      BY <3>1, <3>a DEF ProbeOK, Reached
    <3>4. Found(pte_ppa', pte_fp', real_keys', j, d)
      BY <1>3, <1>6, <3>1, <3>2, <3>3
    <3>5. real_keys'[m] = j /\ pte_fp'[m] = FpOf[j]
      BY <1>4, <2>0, <2>2, <3>2, <3>a
    <3>. QED
      BY <2>0, <3>2, <3>3, <3>4, <3>5
  <2>. QED
    BY <2>1, <2>2
<1>8. ASSUME NEW j \in DOMAIN wb' \ todo'
      PROVE  \E m \in Mapped' : real_keys'[m] = j /\ cell'[pte_ppa'[m]] = <<j, wb'[j]>>
  <2>1. CASE j = k
    BY <1>3, <1>4, <1>5, <2>1
  <2>2. CASE j # k
    <3>1. PICK m \in Mapped : real_keys[m] = j /\ cell[pte_ppa[m]] = <<j, wb[j]>>
      BY <1>3, <2>2 DEF ProbeOK, Flushed
    <3>2. m # l /\ m \in Lpas
      BY <1>2, <2>2, <3>1 DEF Mapped
    <3>. QED
      BY <1>3, <1>4, <1>5, <3>1, <3>2
  <2>. QED
    BY <2>1, <2>2
<1>9. ASSUME NEW m \in Lpas, <<pte_ppa'[m], m>> \in hash_table'
      PROVE  real_keys'[m] \notin todo'
  <2>1. CASE m = l
    BY <1>3, <1>4, <2>1
  <2>2. CASE m # l
    <3>1. <<pte_ppa[m], m>> \in hash_table
      <4>1. \A x : <<x, m>> # <<ent_ppa[k], l>>
        BY <2>2
      <4>. QED
        BY <1>3, <1>4, <1>9, <2>2, <4>1
    <3>2. real_keys[m] \notin todo
      BY <1>3, <3>1 DEF ProbeOK, Flushed, d_htable_find
    <3>. QED
      BY <1>3, <1>4, <2>2, <3>2
  <2>. QED
    BY <2>1, <2>2
<1>10. Reached'
  BY <1>7 DEF Reached
<1>11. Flushed'
  BY <1>8, <1>9 DEF Flushed, d_htable_find
<1>. QED
  BY <1>10, <1>11 DEF ProbeOK

\* A step that leaves the mapping as it was, GC's among them: nothing is probed.
LEMMA StaysProbes ==
    ASSUME ProbeOK, Mapped' = Mapped,
           \A l \in Lpas : pte_ppa'[l] = NoGrain <=> pte_ppa[l] = NoGrain,
           UNCHANGED <<real_keys, pte_fp, max_try>>,
           pc' = "map" => todo' = DOMAIN wb' /\ hash_table' = {}
    PROVE  ProbeOK'
<1>1. ASSUME NEW k \in Keys, NEW c \in Nat, Found(pte_ppa, pte_fp, real_keys, k, c)
      PROVE  Found(pte_ppa', pte_fp', real_keys', k, c)
  <2>1. \A i \in Nat : Lpa(k, i) \in Lpas
    BY LpaFacts
  <2>2. 0 .. c - 1 \subseteq Nat
    OBVIOUS
  <2>. QED
    BY <1>1, <2>1, <2>2 DEF Found
<1>2. ASSUME NEW l \in Mapped'
      PROVE  /\ real_keys'[l] \in Keys /\ pte_fp'[l] = FpOf[real_keys'[l]]
             /\ \E c \in 0 .. max_try' :
                   /\ l = Lpa(real_keys'[l], c)
                   /\ Found(pte_ppa', pte_fp', real_keys', real_keys'[l], c)
  <2>a. PICK k : k = real_keys[l]
    OBVIOUS
  <2>1. k \in Keys /\ pte_fp[l] = FpOf[k]
    BY <2>a DEF ProbeOK, Reached
  <2>2. PICK c \in 0 .. max_try : l = Lpa(k, c) /\ Found(pte_ppa, pte_fp, real_keys, k, c)
    BY <2>a DEF ProbeOK, Reached
  <2>3. Found(pte_ppa', pte_fp', real_keys', k, c)
    BY <1>1, <2>1, <2>2
  <2>. QED
    BY <2>1, <2>2, <2>3, <2>a
<1>3. Reached'
  BY <1>2 DEF Reached
<1>4. Flushed'
  BY DEF Flushed, d_htable_find
<1>. QED
  BY <1>3, <1>4 DEF ProbeOK

LEMMA StepProbes == FpsDiffer /\ IInv /\ ProbeOK /\ Settled /\ [Next]_vars => ProbeOK'
<1>. SUFFICES ASSUME FpsDiffer, IInv, ProbeOK, Settled, [Next]_vars PROVE ProbeOK'
  OBVIOUS
<1>1. ASSUME UNCHANGED <<pte_ppa, real_keys, pte_fp, max_try>>, pc' # "map"
      PROVE  ProbeOK'
  BY <1>1, StaysProbes DEF Mapped
<1>2. CASE \E k \in Keys, v \in Vals : Insert(k, v)
  BY <1>1, <1>2 DEF Insert, map_vars
<1>3. CASE BeginFlush
  BY <1>1, <1>3 DEF BeginFlush, map_vars
<1>4. ASSUME Stays PROVE ProbeOK'
  <2>1. Mapped' = Mapped /\ \A l \in Lpas : pte_ppa'[l] = NoGrain <=> pte_ppa[l] = NoGrain
    BY <1>4 DEF Stays, Mapping, Mapped
  <2>2. hash_table = {}
    BY <1>4 DEF Stays, IInv, Phases
  <2>. QED
    BY <1>4, <2>1, <2>2, StaysProbes DEF Stays
<1>5. CASE AssignInActive
  BY <1>4, <1>5, InActiveKeeps
<1>6. CASE AssignInNext
  BY <1>4, <1>6, InNextKeeps
<1>7. CASE AssignAfterGc
  BY <1>4, <1>7, AfterGcKeeps
<1>8. CASE GcFails
  BY <1>1, <1>8 DEF GcFails, map_vars
<1>9. CASE MapEntry
  BY <1>9, MapProbes
<1>10. CASE Flush
  BY <1>1, <1>10 DEF Flush
<1>11. CASE UNCHANGED vars
  BY <1>11 DEF vars, ProbeOK, Reached, Flushed, Found, Mapped, d_htable_find
<1>. QED
  BY <1>2, <1>3, <1>5, <1>6, <1>7, <1>8, <1>9, <1>10, <1>11 DEF Next

LEMMA InitProbes == Init => ProbeOK
<1>. SUFFICES ASSUME Init PROVE ProbeOK
  OBVIOUS
<1>1. Mapped = {} /\ pc # "map"
  BY DEF Init, Mapped
<1>. QED
  BY <1>1 DEF ProbeOK, Reached, Flushed

-----------------------------------------------------------------------------
(* What a read returns. *)

\* The entries of a key: one at most, and a read of the mapping finds it.
LEMMA EntryOnce ==
    ASSUME Phases, ProbeOK
    PROVE  OneEntryPerKey
<1>1. ASSUME NEW l \in Mapped, NEW m \in Mapped, real_keys[l] = real_keys[m],
             NEW c \in 0 .. max_try, NEW d \in 0 .. max_try,
             l = Lpa(real_keys[l], c), m = Lpa(real_keys[m], d),
             Found(pte_ppa, pte_fp, real_keys, real_keys[m], d), c < d
      PROVE  FALSE
  <2>1. max_try \in Tries
    BY DEF Phases
  <2>2. c \in 0 .. d - 1
    BY <1>1, <2>1, FlushAssumption DEF Tries
  <2>3. pte_fp[l] # FpOf[real_keys[l]]
    BY <1>1, <2>2 DEF Found
  <2>. QED
    BY <2>3 DEF ProbeOK, Reached
<1>2. ASSUME NEW l \in Mapped, NEW m \in Mapped, real_keys[l] = real_keys[m] PROVE l = m
  <2>1. PICK c \in 0 .. max_try : /\ l = Lpa(real_keys[l], c)
                                  /\ Found(pte_ppa, pte_fp, real_keys, real_keys[l], c)
    BY DEF ProbeOK, Reached
  <2>2. PICK d \in 0 .. max_try : /\ m = Lpa(real_keys[m], d)
                                  /\ Found(pte_ppa, pte_fp, real_keys, real_keys[m], d)
    BY DEF ProbeOK, Reached
  <2>3. ~(c < d) /\ ~(d < c)
    BY <1>1, <1>2, <2>1, <2>2
  <2>4. max_try \in Tries
    BY DEF Phases
  <2>5. c = d
    BY <2>3, <2>4, FlushAssumption DEF Tries
  <2>. QED
    BY <1>2, <2>1, <2>2, <2>5
<1>. QED
  BY <1>2 DEF OneEntryPerKey

\* The mapping holds x for key k.
Holds(k, x) ==
    \/ \E l \in Mapped : real_keys[l] = k /\ x = cell[pte_ppa[l]][2]
    \/ x = NotFound /\ \A l \in Mapped : real_keys[l] # k

\* There is a function that stops like the one of Probe.
HasProbe(n, last, P, v, none) ==
    \E g : g = [c \in 0 .. n + 1 |->
                   IF c > last THEN none ELSE IF c \in P THEN v[c] ELSE g[c + 1]]

\* There always is: its value is that of the first stop.
LEMMA ProbeFunction ==
    ASSUME NEW n \in Nat, NEW last \in 0 .. n, NEW P, NEW v, NEW none
    PROVE  HasProbe(n, last, P, v, none)
<1> DEFINE Stops(c) == {i \in c .. last : i \in P}
           IsFirst(i, c) == i \in Stops(c) /\ \A j \in Stops(c) : i <= j
           First(c) == CHOOSE i : IsFirst(i, c)
           g == [c \in 0 .. n + 1 |-> IF Stops(c) = {} THEN none ELSE v[First(c)]]
<1>1. ASSUME NEW c \in Nat, Stops(c) # {} PROVE IsFirst(First(c), c)
  <2>1. Stops(c) \subseteq Nat
    OBVIOUS
  <2>. HIDE DEF Stops
  <2>2. \E i \in Stops(c) : \A j \in Stops(c) : i <= j
    BY <1>1, <2>1, LeastNatural
  <2>. QED
    BY <2>2
<1>2. ASSUME NEW c \in Nat, NEW i, IsFirst(i, c) PROVE First(c) = i
  <2>1. IsFirst(First(c), c)
    <3>1. Stops(c) # {}
      BY <1>2
    <3>. HIDE DEF IsFirst, First, Stops
    <3>. QED
      BY <1>1, <3>1
  <2>2. First(c) \in Nat /\ i \in Nat /\ First(c) <= i /\ i <= First(c)
    <3>. HIDE DEF First
    <3>. QED
      BY <1>2, <2>1
  <2>. QED
    BY ONLY <2>2
<1>3. ASSUME NEW c \in 0 .. n + 1
      PROVE  g[c] = IF c > last THEN none ELSE IF c \in P THEN v[c] ELSE g[c + 1]
  <2>1. CASE c > last
    <3>1. Stops(c) = {}
      BY <2>1
    <3>. QED
      BY <2>1, <3>1
  <2>2. CASE c <= last /\ c \in P
    <3>1. IsFirst(c, c) /\ Stops(c) # {}
      BY <2>2
    <3>2. First(c) = c
      <4>. HIDE DEF IsFirst, First, Stops
      <4>. QED
        BY <1>2, <3>1
    <3>. HIDE DEF First, Stops
    <3>. QED
      BY <2>2, <3>1, <3>2
  <2>3. CASE c <= last /\ c \notin P
    <3>1. Stops(c) = Stops(c + 1) /\ c + 1 \in 0 .. n + 1
      BY <2>3
    <3>2. First(c) = First(c + 1)
      BY <3>1, Zenon
    <3>. HIDE DEF First, Stops
    <3>. QED
      BY <2>3, <3>1, <3>2
  <2>. QED
    BY <2>1, <2>2, <2>3
<1>. HIDE DEF g
<1>4. g = [c \in 0 .. n + 1 |->
              IF c > last THEN none ELSE IF c \in P THEN v[c] ELSE g[c + 1]]
  <2>1. g = [c \in 0 .. n + 1 |-> g[c]]
    BY DEF g
  <2>. QED
    BY <1>3, <2>1
<1>. QED
  BY <1>4 DEF HasProbe

LEMMA LookupHolds ==
    ASSUME Phases, ProbeOK, NEW k \in Keys
    PROVE  Holds(k, Lookup(k))
<1> DEFINE Stops(l) == pte_fp[l] = FpOf[k] /\ (pte_ppa[l] = NoGrain \/ real_keys[l] = k)
           Value(g) == IF g = NoGrain THEN NotFound ELSE cell[g][2]
           probe[c \in 0 .. NrLpas + 1] ==
               IF c > max_try THEN NotFound
               ELSE IF Stops(Lpa(k, c)) THEN Value(pte_ppa[Lpa(k, c)])
               ELSE probe[c + 1]
<1>1. Lookup(k) = probe[0]
  BY DEF Lookup, Probe
<1>2. /\ max_try \in 0 .. NrLpas /\ NrLpas \in Nat /\ max_try \in Nat
      /\ \A c \in Nat : Lpa(k, c) \in Lpas
  <2>1. max_try \in Tries
    BY DEF Phases
  <2>. QED
    BY <2>1, FlushAssumption, LpaFacts DEF Tries
<1>. HIDE DEF Stops, Value
<1>3. \E g : g = [c \in 0 .. NrLpas + 1 |->
                     IF c > max_try THEN NotFound
                     ELSE IF Stops(Lpa(k, c)) THEN Value(pte_ppa[Lpa(k, c)])
                     ELSE g[c + 1]]
  <2> DEFINE P == {c \in 0 .. NrLpas + 1 : Stops(Lpa(k, c))}
             v == [c \in 0 .. NrLpas + 1 |-> Value(pte_ppa[Lpa(k, c)])]
  <2>1. /\ \A c \in 0 .. NrLpas + 1 : c \in P <=> Stops(Lpa(k, c))
        /\ \A c \in 0 .. NrLpas + 1 : v[c] = Value(pte_ppa[Lpa(k, c)])
    OBVIOUS
  <2>. HIDE DEF P, v
  <2>2. PICK g : g = [c \in 0 .. NrLpas + 1 |->
                        IF c > max_try THEN NotFound ELSE IF c \in P THEN v[c] ELSE g[c + 1]]
    <3>1. NrLpas \in Nat /\ max_try \in 0 .. NrLpas
      BY <1>2
    <3>2. HasProbe(NrLpas, max_try, P, v, NotFound)
      BY ONLY <3>1, ProbeFunction
    <3>. QED
      BY ONLY <3>2 DEF HasProbe
  <2>. QED
    BY <2>1, <2>2
<1>4. probe = [c \in 0 .. NrLpas + 1 |->
                  IF c > max_try THEN NotFound
                  ELSE IF Stops(Lpa(k, c)) THEN Value(pte_ppa[Lpa(k, c)])
                  ELSE probe[c + 1]]
  BY <1>3
<1>. HIDE DEF probe
<1>5. ASSUME NEW c \in 0 .. NrLpas + 1
      PROVE  probe[c] = IF c > max_try THEN NotFound
                        ELSE IF Stops(Lpa(k, c)) THEN Value(pte_ppa[Lpa(k, c)])
                        ELSE probe[c + 1]
  BY <1>4
<1>6. ASSUME NEW l \in Mapped, real_keys[l] = k PROVE Lookup(k) = cell[pte_ppa[l]][2]
  <2>1. PICK c \in 0 .. max_try :
            l = Lpa(k, c) /\ Found(pte_ppa, pte_fp, real_keys, k, c)
    BY <1>6 DEF ProbeOK, Reached
  <2>2. c \in Nat /\ c \in 0 .. NrLpas + 1 /\ ~(c > max_try)
    BY <1>2
  <2>3. Stops(l) /\ Value(pte_ppa[l]) = cell[pte_ppa[l]][2]
    BY <1>6 DEF ProbeOK, Reached, Mapped, Stops, Value
  <2>4. probe[c] = cell[pte_ppa[l]][2]
    BY <1>5, <2>1, <2>2, <2>3
  <2> DEFINE S == {j \in 0 .. c : probe[c - j] = cell[pte_ppa[l]][2]}
  <2>5. 0 \in S
    BY <2>2, <2>4
  <2>6. ASSUME NEW j \in 0 .. c - 1, j \in S PROVE j + 1 \in S
    <3>a. PICK i : i = c - (j + 1)
      OBVIOUS
    <3>1. /\ j \in Nat /\ i \in 0 .. c - 1 /\ i + 1 = c - j /\ i \in 0 .. NrLpas + 1
          /\ ~(i > max_try) /\ j + 1 \in 0 .. c
      BY <1>2, <2>2, <3>a
    <3>2. ~Stops(Lpa(k, i))
      BY <2>1, <3>1 DEF Found, Stops
    <3>3. probe[i] = probe[i + 1]
      BY <1>5, <3>1, <3>2
    <3>4. probe[i + 1] = cell[pte_ppa[l]][2]
      BY <2>6, <3>1
    <3>. QED
      BY <3>1, <3>3, <3>4, <3>a
  <2>7. c \in S
    <3>. HIDE DEF S
    <3>1. 0 .. c \subseteq S
      BY <2>2, <2>5, <2>6, Induction
    <3>. QED
      BY <2>2, <3>1
  <2>8. c - c = 0
    BY <2>2
  <2>. QED
    BY <1>1, <2>7, <2>8
<1>7. ASSUME \A l \in Mapped : real_keys[l] # k PROVE Lookup(k) = NotFound
  <2>a. PICK n : n = NrLpas + 1
    OBVIOUS
  <2>0. n \in Nat /\ n > max_try
    BY <1>2, <2>a
  <2>1. ASSUME NEW c \in Nat, Stops(Lpa(k, c)) PROVE Value(pte_ppa[Lpa(k, c)]) = NotFound
    <3>1. Lpa(k, c) \in Lpas
      BY <1>2
    <3>. QED
      BY <1>7, <2>1, <3>1 DEF Stops, Value, Mapped
  <2> DEFINE S == {j \in 0 .. n : probe[n - j] = NotFound}
  <2>2. 0 \in S
    <3>1. probe[n] = NotFound
      BY <1>5, <2>0, <2>a
    <3>. QED
      BY <2>0, <3>1
  <2>3. ASSUME NEW j \in 0 .. n - 1, j \in S PROVE j + 1 \in S
    <3>a. PICK i : i = n - (j + 1)
      OBVIOUS
    <3>1. i \in Nat /\ i \in 0 .. n /\ i + 1 = n - j /\ j + 1 \in 0 .. n
      BY <2>0, <3>a
    <3>2. probe[i + 1] = NotFound
      BY <2>3, <3>1
    <3>3. probe[i] = NotFound
      BY <1>5, <2>1, <2>a, <3>1, <3>2
    <3>. QED
      BY <3>1, <3>3, <3>a
  <2>4. n \in S
    <3>. HIDE DEF S
    <3>1. 0 .. n \subseteq S
      BY <2>0, <2>2, <2>3, Induction
    <3>. QED
      BY <2>0, <3>1
  <2>5. n - n = 0
    BY <2>0
  <2>. QED
    BY <1>1, <2>4, <2>5
<1>. QED
  BY <1>6, <1>7 DEF Holds

\* What a read returns, given the buffer and the mapping: Reads(k, x) says x.
Reads(k, x) == IF k \in DOMAIN wb THEN x = wb[k] ELSE Holds(k, x)

LEMMA ReadOnce ==
    ASSUME Phases, ProbeOK, NEW k \in Keys, NEW x
    PROVE  Reads(k, x) <=> x = Read(k)
<1>1. OneEntryPerKey
  BY EntryOnce
<1>2. Holds(k, Lookup(k))
  BY LookupHolds
<1>3. ASSUME NEW y, Holds(k, x), Holds(k, y) PROVE x = y
  BY <1>1, <1>3 DEF Holds, OneEntryPerKey
<1>. QED
  BY <1>2, <1>3 DEF Reads, Read

\* A step that leaves the mapped values alone leaves what a read returns of a key
\* that is not in the buffer.
LEMMA StaysHolds ==
    ASSUME NEW k \in Keys, NEW x, Holds(k, x), Mapped' = Mapped, real_keys' = real_keys,
           \A l \in Mapped : cell'[pte_ppa'[l]] = cell[pte_ppa[l]]
    PROVE  Holds(k, x)'
BY DEF Holds

\* No step but an insert changes what a read returns.
LEMMA ReadsStay ==
    ASSUME FpsDiffer, IInv, ProbeOK, Settled, [Next]_vars,
           ~ \E k \in Keys, v \in Vals : Insert(k, v),
           NEW k \in Keys, NEW x, Reads(k, x)
    PROVE  Reads(k, x)'
<1>1. ASSUME UNCHANGED <<wb, pte_ppa, real_keys, cell>> PROVE Reads(k, x)'
  BY <1>1 DEF Reads, Holds, Mapped
<1>2. CASE BeginFlush
  BY <1>1, <1>2 DEF BeginFlush, map_vars
<1>3. ASSUME Stays PROVE Reads(k, x)'
  <2>1. CASE k \in DOMAIN wb
    BY <1>3, <2>1 DEF Reads, Stays
  <2>2. CASE k \notin DOMAIN wb
    <3>1. Holds(k, x)'
      BY <1>3, <2>2, StaysHolds DEF Reads, Stays, Mapping, Mapped
    <3>. QED
      BY <1>3, <2>2, <3>1 DEF Reads, Stays
  <2>. QED
    BY <2>1, <2>2
<1>4. CASE AssignInActive
  BY <1>3, <1>4, InActiveKeeps
<1>5. CASE AssignInNext
  BY <1>3, <1>5, InNextKeeps
<1>6. CASE AssignAfterGc
  BY <1>3, <1>6, AfterGcKeeps
<1>7. CASE GcFails
  BY <1>1, <1>7 DEF GcFails, map_vars
<1>8. CASE MapEntry
  <2>0. Phases
    BY DEF IInv
  <2>1. PICK j \in Keys, c \in Tries : TakenAt(j, c)
    BY <1>8, MapTakes
  <2>a. PICK l : l = Lpa(j, c)
    OBVIOUS
  <2>2. \A m \in Mapped : real_keys[m] = j <=> m = l
    BY <2>0, <2>1, <2>a, TakenOwn
  <2>3. /\ j \in DOMAIN wb /\ l \in Lpas /\ wb' = wb
        /\ pte_ppa' = [pte_ppa EXCEPT ![l] = ent_ppa[j]]
        /\ real_keys' = [real_keys EXCEPT ![l] = j]
        /\ \A m \in Mapped : m # l => cell'[pte_ppa[m]] = cell[pte_ppa[m]]
    BY <2>1, <2>a, Zenon DEF TakenAt
  <2>4. CASE k \in DOMAIN wb
    BY <2>3, <2>4 DEF Reads
  <2>5. CASE k \notin DOMAIN wb
    <3>1. /\ pte_ppa \in [Lpas -> Grains \union {NoGrain}]
          /\ real_keys \in [Lpas -> Keys \union {NoKey}]
      BY TypesKnown DEF TypeOK
    <3>2. /\ k # j /\ real_keys'[l] = j
          /\ \A m \in Lpas : m # l => pte_ppa'[m] = pte_ppa[m] /\ real_keys'[m] = real_keys[m]
      BY <2>3, <2>5, <3>1
    <3>3. Holds(k, x)
      BY <2>5 DEF Reads
    <3>4. CASE \E m \in Mapped : real_keys[m] = k /\ x = cell[pte_ppa[m]][2]
      <4>1. PICK m \in Mapped : real_keys[m] = k /\ x = cell[pte_ppa[m]][2]
        BY <3>4
      <4>2. m # l /\ m \in Lpas /\ pte_ppa[m] # NoGrain
        BY <2>2, <3>2, <4>1 DEF Mapped
      <4>3. m \in Mapped' /\ real_keys'[m] = k /\ x = cell'[pte_ppa'[m]][2]
        BY <2>3, <3>2, <4>1, <4>2 DEF Mapped
      <4>. QED
        BY <2>3, <2>5, <4>3 DEF Reads, Holds
    <3>5. CASE x = NotFound /\ \A m \in Mapped : real_keys[m] # k
      <4>1. ASSUME NEW m \in Mapped' PROVE real_keys'[m] # k
        <5>1. CASE m = l
          BY <3>2, <5>1
        <5>2. CASE m # l
          BY <3>2, <3>5, <5>2 DEF Mapped
        <5>. QED
          BY <5>1, <5>2
      <4>. QED
        BY <2>3, <2>5, <3>5, <4>1 DEF Reads, Holds
    <3>. QED
      BY <3>3, <3>4, <3>5 DEF Holds
  <2>. QED
    BY <2>4, <2>5
<1>9. CASE Flush
  <2>1. /\ pc = "map" /\ todo = {} /\ wb' = <<>> /\ UNCHANGED <<pte_ppa, real_keys, cell>>
    BY <1>9 DEF Flush
  <2>2. Holds(k, x)
    <3>1. CASE k \in DOMAIN wb
      <4>1. PICK l \in Mapped : real_keys[l] = k /\ cell[pte_ppa[l]] = <<k, wb[k]>>
        BY <2>1, <3>1 DEF ProbeOK, Flushed
      <4>2. x = wb[k]
        BY <3>1 DEF Reads
      <4>. QED
        BY <4>1, <4>2 DEF Holds
    <3>2. CASE k \notin DOMAIN wb
      BY <3>2 DEF Reads
    <3>. QED
      BY <3>1, <3>2
  <2>3. k \notin DOMAIN wb'
    BY <2>1
  <2>4. Holds(k, x)'
    BY <2>1, <2>2, StaysHolds DEF Mapped
  <2>. QED
    BY <2>3, <2>4 DEF Reads
<1>10. CASE UNCHANGED vars
  BY <1>1, <1>10 DEF vars
<1>. QED
  BY <1>2, <1>4, <1>5, <1>6, <1>7, <1>8, <1>9, <1>10 DEF Next

-----------------------------------------------------------------------------
(* The theorems: the runs' properties for every value of the constants. *)

\* The variables keep their types, the counters their bounds.
THEOREM TypeCorrect == Spec /\ []Settled => []TypeOK
<1>1. IInv => TypeOK
  BY TypesKnown
<1>. QED
  BY <1>1, Invariance, PTL

\* validate_grain and invalidate_grain keep valid_cnt, by which the victim of GC
\* is chosen, the number of valid grains.
THEOREM CountsCorrect == Spec /\ []Settled => []CountsExact
<1>1. IInv => CountsExact
  BY OwnersKnown DEF Exact, CountsExact
<1>. QED
  BY <1>1, Invariance, PTL

\* Packing, overwriting and GC leak no grain and let no two values share one.
THEOREM GrainsSound == Spec /\ []Settled => []GrainsOwned
<1>1. IInv => GrainsOwned
  BY GrainsKnown
<1>. QED
  BY <1>1, Invariance, PTL

\* The OOB of a mapped value names its entry, so that GC points the right entry
\* to the copy.
THEOREM OobsSound == Spec /\ []Settled => []OobNamesEntry
<1>1. IInv => OobNamesEntry
  BY OwnersKnown DEF Named, OobNamesEntry
<1>. QED
  BY <1>1, Invariance, PTL

\* The key the emulator remembers for an entry is the one on its flash page.
THEOREM RealKeysSound == Spec /\ []Settled => []RealKeysTrue
<1>1. IInv => RealKeysTrue
  BY OwnersKnown DEF Named, RealKeysTrue
<1>. QED
  BY <1>1, Invariance, PTL

\* The write pointers of the NAND lag behind those of the block manager by the
\* pages of the flush list, and no valid grain is missing on both.
THEOREM NandSound == Spec /\ []Settled => []NandInStep
<1>1. IInv => NandInStep
  BY NandFollows
<1>. QED
  BY <1>1, Invariance, PTL

\* No assertion about a value fails, on the write path or in GC, and the NAND
\* refuses no command: a write stops for want of room alone.
StopsForRoom ==
    /\ failed \in {"none", "no superblock to reclaim", "get_page_num"}
    /\ ~nand_err

THEOREM NoAssertionFails == Spec /\ []Settled => [](StopsForRoom /\ InvalidateIsValid)
<1>1. IInv => StopsForRoom /\ InvalidateIsValid
  BY DEF IInv, Phases, ListOK, StopsForRoom, InvalidateIsValid
<1>. QED
  BY <1>1, Invariance, PTL

\* Where probing puts a key, probing finds it.
THEOREM ProbesSound == ASSUME FpsDiffer PROVE Spec /\ []Settled => []ProbeOK
<1>1. Init => ProbeOK
  BY InitProbes
<1>2. IInv /\ ProbeOK /\ Settled /\ [Next]_vars => ProbeOK'
  BY StepProbes
<1>. QED
  BY <1>1, <1>2, Invariance, PTL DEF Spec

\* No key ever has two entries, so that no older value can come back.
THEOREM EntriesSound == ASSUME FpsDiffer PROVE Spec /\ []Settled => []OneEntryPerKey
<1>1. IInv /\ ProbeOK => OneEntryPerKey
  BY EntryOnce DEF IInv
<1>. QED
  BY <1>1, Invariance, ProbesSound, PTL

\* The write path implements the key-value store: a read returns the value last
\* set, whatever has been buffered, packed, flushed and moved by GC since.
THEOREM Refinement ==
    ASSUME FpsDiffer
    PROVE  Spec /\ []Settled => ImplementsKVStore
<1> DEFINE kv == [k \in Keys |-> Read(k)]
<1>1. Init => KV!Init
  <2>. SUFFICES ASSUME Init PROVE KV!Init
    OBVIOUS
  <2>1. IInv /\ ProbeOK
    BY InitSound, InitProbes
  <2>2. ASSUME NEW k \in Keys PROVE Read(k) = NotFound
    <3>1. DOMAIN wb = {} /\ Mapped = {}
      BY DEF Init, Mapped
    <3>2. Reads(k, NotFound)
      BY <3>1 DEF Reads, Holds
    <3>. QED
      BY <2>1, <3>2, ReadOnce DEF IInv
  <2>. QED
    BY <2>2 DEF KV!Init
<1>2. /\ IInv /\ ProbeOK /\ IInv' /\ ProbeOK' /\ Settled /\ [Next]_vars
      => [KV!Next]_kv
  <2>. SUFFICES ASSUME IInv, ProbeOK, IInv', ProbeOK', Settled, [Next]_vars
                PROVE  KV!Next \/ kv' = kv
    OBVIOUS
  <2>1. ASSUME NEW k \in Keys, NEW x PROVE Reads(k, x)' <=> x = Read(k)'
    <3>1. (Phases /\ ProbeOK => (Reads(k, x) <=> x = Read(k)))'
      BY ReadOnce, PTL
    <3>. QED
      BY <3>1 DEF IInv
  <2>2. ASSUME NEW k \in Keys PROVE Reads(k, Read(k))
    BY ReadOnce DEF IInv
  <2>3. ASSUME NEW k \in Keys, NEW v \in Vals, Insert(k, v) PROVE KV!Next
    <3>1. /\ wb' = Over([j \in {k} |-> v], wb)
          /\ UNCHANGED <<pte_ppa, real_keys, cell>>
      BY <2>3 DEF Insert, map_vars
    <3>2. /\ DOMAIN wb' = {k} \union DOMAIN wb /\ wb'[k] = v
          /\ \A j \in DOMAIN wb : j # k => wb'[j] = wb[j]
      BY <3>1 DEF Over
    <3>3. Read(k)' = v
      <4>1. Reads(k, v)'
        BY <3>2 DEF Reads
      <4>. QED
        BY <2>1, <4>1
    <3>4. ASSUME NEW j \in Keys, j # k PROVE Read(j)' = Read(j)
      <4>a. PICK x : x = Read(j)
        OBVIOUS
      <4>1. Reads(j, x)
        BY <2>2, <4>a
      <4>2. Reads(j, x)'
        BY <3>1, <3>2, <3>4, <4>1 DEF Reads, Holds, Mapped
      <4>. QED
        BY <2>1, <4>2, <4>a
    <3>5. kv' = [kv EXCEPT ![k] = v]
      BY <3>3, <3>4
    <3>. QED
      BY <3>5 DEF KV!Next, KV!Set
  <2>4. ASSUME ~ \E k \in Keys, v \in Vals : Insert(k, v) PROVE kv' = kv
    <3>1. ASSUME NEW k \in Keys PROVE Read(k)' = Read(k)
      <4>a. PICK x : x = Read(k)
        OBVIOUS
      <4>1. Reads(k, x)
        BY <2>2, <4>a
      <4>2. Reads(k, x)'
        BY <2>4, <4>1, ReadsStay
      <4>. QED
        BY <2>1, <4>2, <4>a
    <3>. QED
      BY <3>1
  <2>. QED
    BY <2>3, <2>4
<1>. QED
  BY <1>1, <1>2, Invariance, ProbesSound, PTL DEF Spec, ImplementsKVStore, KV!Spec

=============================================================================

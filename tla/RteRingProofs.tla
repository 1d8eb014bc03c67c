--------------------------- MODULE RteRingProofs ---------------------------
(***************************************************************************)
(* Proofs about RteRing for any threads, size, width of the indices and    *)
(* batches: what is reserved is in one batch, nothing is overwritten while *)
(* it is inside or being copied, and the ring is a bounded queue.          *)
(***************************************************************************)
EXTENDS RteRing, FiniteSetTheorems, NumberFacts

(* The inductive invariant. *)

\* How many items an index is ahead of the start; the entry of the item a.
Off(x) == (x - Start) % Width
Slot(a) == (Start + a) % Size

\* The items a to b - 1 of a ring r.
Content(r, a, b) == [i \in 1 .. b - a |-> r[Slot(a + i - 1)]]

Items == Producers \X (1 .. Quota)
Reserved(s) == {x \in Items : x[2] <= s[x[1]]}

ProdCalls == [pc : {"idle", "room", "move", "copy"}, n : 0 .. Capacity,
              old : Indices, i : Nat]
ConsCalls == [pc : {"idle", "counted", "look", "move", "copy"}, n : 0 .. Capacity,
              old : Indices, i : Nat, ask : Batches \union {0, 1},
              counted : BOOLEAN]

Sides == [head : Indices, tail : Indices, single : BOOLEAN]

\* The types, and what a step of a call says of its counts.
Types ==
    /\ prod \in Sides /\ cons \in Sides
    /\ ring \in [0 .. Size - 1 -> Items \union {Empty}]
    /\ prd \in [Producers -> ProdCalls] /\ csm \in [Consumers -> ConsCalls]
    /\ sent \in [Producers -> 0 .. Quota]
    /\ got \in [Consumers -> Seq(Items \union {Empty})]

ProdCounts ==
    \A p \in Producers :
        /\ prd[p].i <= prd[p].n
        /\ prd[p].pc # "copy" => prd[p].i = 0
        /\ prd[p].pc # "idle" => prd[p].n > 0
        /\ prd[p].pc \in {"room", "move"} => sent[p] + prd[p].n <= Quota
        /\ prd[p].pc = "copy" => prd[p].n <= sent[p]

ConsCounts ==
    \A c \in Consumers :
        /\ csm[c].i <= csm[c].n
        /\ csm[c].pc # "copy" => csm[c].i = 0
        /\ csm[c].pc \in {"move", "copy"} => csm[c].n > 0
        /\ csm[c].pc \in {"look", "move"} => csm[c].ask \in 1 .. Capacity

\* A thread that has a side to itself finds it as it left it.
AloneProd ==
    prod.single =>
        \A p \in Producers :
            /\ p # TheOne(Producers) => prd[p].pc = "idle"
            /\ p = TheOne(Producers) =>
                  IF prd[p].pc = "copy"
                  THEN /\ prd[p].old = prod.tail
                       /\ Off(prd[p].old) + prd[p].n = Off(prod.head)
                  ELSE /\ prod.head = prod.tail
                       /\ prd[p].pc # "idle" => prd[p].old = prod.head

AloneCons ==
    cons.single =>
        \A c \in Consumers :
            /\ c # TheOne(Consumers) => csm[c].pc = "idle"
            /\ c = TheOne(Consumers) =>
                  IF csm[c].pc = "copy"
                  THEN /\ csm[c].old = cons.tail
                       /\ Off(csm[c].old) + csm[c].n = Off(cons.head)
                  ELSE /\ cons.head = cons.tail
                       /\ csm[c].pc \in {"look", "move"} => csm[c].old = cons.head

\* The indices do not overtake each other, nor the width.
Ordered ==
    /\ Off(cons.tail) <= Off(cons.head)
    /\ Off(cons.head) <= Off(prod.tail)
    /\ Off(prod.tail) <= Off(prod.head)
    /\ Off(prod.head) <= Off(cons.tail) + Capacity

HeadCounts == Off(prod.head) = Cardinality(Reserved(sent))

Apart(call1, call2) ==
    \/ Off(call1.old) + call1.n <= Off(call2.old)
    \/ Off(call2.old) + call2.n <= Off(call1.old)

\* A producer that moves the head has room; batches are in the part of the ring
\* that is reserved, no two have an entry in common, and they are filled in order.
Producing ==
    \A p \in Producers :
        /\ prd[p].pc \in {"room", "move"} => Off(prd[p].old) <= Off(prod.head)
        /\ prd[p].pc = "move" /\ prd[p].old = prod.head
              => Off(prod.head) + prd[p].n <= Off(cons.tail) + Capacity
        /\ prd[p].pc = "copy" =>
              /\ Off(prod.tail) <= Off(prd[p].old)
              /\ Off(prd[p].old) + prd[p].n <= Off(prod.head)

ProdApart ==
    \A p, q \in Producers :
        p # q /\ prd[p].pc = "copy" /\ prd[q].pc = "copy" => Apart(prd[p], prd[q])

Filled ==
    \A p \in Producers : prd[p].pc = "copy" =>
        \A j \in 0 .. prd[p].i - 1 :
            ring[Slot(Off(prd[p].old) + j)] = <<p, sent[p] - prd[p].n + j + 1>>

\* The same of consumers, with what is filled for room.
Consuming ==
    \A c \in Consumers :
        /\ csm[c].pc \in {"look", "move"} => Off(csm[c].old) <= Off(cons.head)
        /\ csm[c].pc = "move" => Off(csm[c].old) + csm[c].n <= Off(prod.tail)
        /\ csm[c].pc = "copy" =>
              /\ Off(cons.tail) <= Off(csm[c].old)
              /\ Off(csm[c].old) + csm[c].n <= Off(cons.head)

ConsApart ==
    \A c, d \in Consumers :
        c # d /\ csm[c].pc = "copy" /\ csm[d].pc = "copy" => Apart(csm[c], csm[d])

\* What the consumer has counted nobody else takes.
Counted ==
    \A c \in Consumers :
        /\ csm[c].pc = "counted" => csm[c].counted
        /\ csm[c].pc = "idle" => ~csm[c].counted
        /\ csm[c].counted => cons.single /\ c = TheOne(Consumers)
        /\ csm[c].counted /\ csm[c].pc \in {"counted", "look"} =>
              Off(cons.head) < Off(prod.tail)

IInv ==
    /\ Types /\ ProdCounts /\ ConsCounts /\ AloneProd /\ AloneCons
    /\ Ordered /\ HeadCounts /\ Producing /\ ProdApart /\ Filled
    /\ Consuming /\ ConsApart /\ Counted

-----------------------------------------------------------------------------
(* Indices. *)

LEMMA Sizes ==
    /\ Size \in Nat \ {0} /\ Width \in Nat \ {0} /\ Start \in 0 .. Width - 1
    /\ Capacity \in Nat /\ Capacity < Width /\ Quota \in Nat
    /\ Batches \subseteq 1 .. Capacity
    /\ \E t \in Nat \ {0} : Width = Size * t
<1> DEFINE t == Width \div Size
<1>1. t \in Int /\ Width = Size * t + (Width % Size)
  BY RingAssumption, Division
<1>2. Width = Size * t /\ t \in Int
  BY <1>1, RingAssumption
<1>. HIDE DEF t
<1>3. t > 0
  BY <1>2, RingAssumption, SMT
<1>4. Size <= Width
  BY <1>2, <1>3, RingAssumption, SMT
<1>. QED
  BY <1>2, <1>3, <1>4, RingAssumption DEF Capacity

\* An index and its offset differ by the start and some rounds.
LEMMA OffRounds ==
    ASSUME NEW x \in Indices
    PROVE  /\ Off(x) \in 0 .. Width - 1
           /\ \E q \in Int : x = Start + Off(x) + Width * q
<1> DEFINE q == (x - Start) \div Width
<1>1. x - Start \in Int
  BY Sizes DEF Indices
<1>2. /\ Off(x) \in 0 .. Width - 1 /\ q \in Int
      /\ x - Start = Width * q + Off(x)
  BY <1>1, Division, Sizes DEF Off
<1>. HIDE DEF q
<1> DEFINE b == Width * q
<1>3. b \in Int
  BY <1>2, Sizes
<1>4. x - Start = b + Off(x)
  BY <1>2
<1>. HIDE DEF b
<1>5. x = Start + Off(x) + b
  BY <1>2, <1>3, <1>4, Sizes DEF Indices
<1>. QED
  BY <1>2, <1>5 DEF b

\* The difference of two indices is that of their offsets, up to rounds.
LEMMA OffDifference ==
    ASSUME NEW x \in Indices, NEW y \in Indices, NEW d \in Int
    PROVE  (d + x - y) % Width = (d + Off(x) - Off(y)) % Width
<1>1. PICK q \in Int : x = Start + Off(x) + Width * q
  BY OffRounds
<1>2. PICK r \in Int : y = Start + Off(y) + Width * r
  BY OffRounds
<1>3. Off(x) \in Int /\ Off(y) \in Int /\ Start \in Int /\ Width \in Int
  BY OffRounds, Sizes
<1> DEFINE a == d + Off(x) - Off(y)
<1>4. a \in Int /\ q - r \in Int
  BY <1>3
<1>5. d + x - y = a + Width * (q - r)
  BY <1>1, <1>2, <1>3, SMT
<1>. HIDE DEF a
<1>6. (a + Width * (q - r)) % Width = a % Width
  BY <1>4, ModShift, Sizes
<1>. QED
  BY <1>5, <1>6 DEF a

LEMMA SmallMod ==
    ASSUME NEW a \in 0 .. Width - 1
    PROVE  a % Width = a
BY Sizes, SMT

\* Indices with one offset are equal.
LEMMA OffSame ==
    ASSUME NEW x \in Indices, NEW y \in Indices, Off(x) = Off(y)
    PROVE  x = y
<1>1. PICK q \in Int : x = Start + Off(x) + Width * q
  BY OffRounds
<1>2. PICK r \in Int : y = Start + Off(y) + Width * r
  BY OffRounds
<1>3. /\ Off(x) \in Int /\ Start \in Int /\ Width \in Nat \ {0}
      /\ x \in Int /\ y \in Int /\ q - r \in Int
  BY OffRounds, Sizes DEF Indices
<1>4. x - y = Width * (q - r)
  BY <1>1, <1>2, <1>3, SMT
<1>5. x - y < Width /\ y - x < Width
  BY <1>3 DEF Indices
<1>6. ~(q - r >= 1)
  <2>1. q - r >= 1 => Width * (q - r) >= Width
    BY <1>3, SMT
  <2> DEFINE b == Width * (q - r)
  <2>2. b \in Int /\ x - y = b
    BY <1>3, <1>4
  <2>. HIDE DEF b
  <2>. QED
    BY <1>3, <1>5, <2>1, <2>2 DEF b
<1>7. ~(r - q >= 1)
  <2>1. r - q >= 1 => Width * (r - q) >= Width
    BY <1>3, SMT
  <2>2. y - x = Width * (r - q)
    BY <1>1, <1>2, <1>3, SMT
  <2> DEFINE b == Width * (r - q)
  <2>3. b \in Int /\ y - x = b
    BY <1>3, <2>2
  <2>. HIDE DEF b
  <2>. QED
    BY <1>3, <1>5, <2>1, <2>3 DEF b
<1>8. q = r
  BY <1>6, <1>7
<1>. QED
  BY <1>1, <1>2, <1>8

\* An unsigned difference of two indices in order.
LEMMA OffMinus ==
    ASSUME NEW x \in Indices, NEW y \in Indices, Off(y) <= Off(x)
    PROVE  (x - y) % Width = Off(x) - Off(y)
<1>1. (0 + x - y) % Width = (0 + Off(x) - Off(y)) % Width
  BY OffDifference
<1>2. x \in Int /\ y \in Int /\ Off(x) \in 0 .. Width - 1 /\ Off(y) \in 0 .. Width - 1
  BY OffRounds, Sizes DEF Indices
<1>3. 0 + x - y = x - y /\ 0 + Off(x) - Off(y) = Off(x) - Off(y)
  BY <1>2
<1>4. Off(x) - Off(y) \in 0 .. Width - 1
  BY <1>2, Sizes
<1>. QED
  BY <1>1, <1>3, <1>4, SmallMod

\* The count of free entries, when the head is not further than the capacity.
LEMMA OffFree ==
    ASSUME NEW x \in Indices, NEW y \in Indices,
           Off(x) <= Off(y), Off(y) <= Off(x) + Capacity
    PROVE  (Capacity + x - y) % Width = Capacity + Off(x) - Off(y)
<1>1. Off(x) \in 0 .. Width - 1 /\ Off(y) \in 0 .. Width - 1
  BY OffRounds
<1>2. Capacity + Off(x) - Off(y) \in 0 .. Width - 1
  BY <1>1, Sizes
<1>. QED
  BY <1>2, SmallMod, OffDifference, Sizes

\* An index moved on by n.
LEMMA OffPlus ==
    ASSUME NEW x \in Indices, NEW n \in Nat, Off(x) + n < Width
    PROVE  (x + n) % Width \in Indices /\ Off((x + n) % Width) = Off(x) + n
<1> DEFINE y == (x + n) % Width
           q == (x + n) \div Width
<1>1. x + n \in Int /\ x \in Int
  BY Sizes DEF Indices
<1>2. y \in 0 .. Width - 1 /\ q \in Int /\ x + n = Width * q + y
  BY <1>1, Division, Sizes
<1>3. PICK r \in Int : x = Start + Off(x) + Width * r
  BY OffRounds
<1>4. Off(x) \in Int /\ Off(x) + n \in 0 .. Width - 1 /\ Start \in Int /\ Width \in Int
  BY OffRounds, Sizes
<1>. HIDE DEF y, q
<1>5. y - Start = (Off(x) + n) + Width * (r - q)
  <2>1. Width * (r - q) = Width * r - Width * q
    BY <1>2, <1>4, SMT
  <2> DEFINE b == Width * r
             c == Width * q
  <2>2. b \in Int /\ c \in Int
    BY <1>2, <1>4
  <2>3. x + n = c + y /\ x = Start + Off(x) + b
    BY <1>2, <1>3
  <2>4. y \in Int
    BY <1>2, Sizes
  <2>. HIDE DEF b, c
  <2>5. Off(x) \in Int /\ Start \in Int /\ x \in Int
    BY <1>1, <1>4
  <2>6. y = (Start + Off(x) + b) + n - c
    BY <2>2, <2>3, <2>4, <2>5
  <2>7. y - Start = (Off(x) + n) + (b - c)
    BY <2>2, <2>4, <2>5, <2>6
  <2>. QED
    BY <2>1, <2>7 DEF b, c
<1> DEFINE a == Off(x) + n
<1>6. a \in Int /\ r - q \in Int
  BY <1>2, <1>4
<1>. HIDE DEF a
<1>7. (a + Width * (r - q)) % Width = a % Width
  BY <1>6, ModShift, Sizes
<1>8. Off(y) = a % Width
  BY <1>5, <1>7 DEF Off, a
<1>9. a % Width = a
  BY <1>4, SmallMod DEF a
<1>. QED
  BY <1>2, <1>8, <1>9 DEF y, a, Indices

LEMMA OffStart == Start \in Indices /\ Off(Start) = 0
BY Sizes, SMT DEF Off, Indices

-----------------------------------------------------------------------------
(* Entries. *)

LEMMA SlotIn == ASSUME NEW a \in Nat PROVE Slot(a) \in 0 .. Size - 1
BY Sizes DEF Slot

\* The entry an index leads to is that of its offset: the width is a multiple of
\* the size.
LEMMA SlotOff ==
    ASSUME NEW x \in Indices, NEW j \in Int
    PROVE  (x + j) % Size = Slot(Off(x) + j)
<1>1. PICK q \in Int : x = Start + Off(x) + Width * q
  BY OffRounds
<1>2. PICK t \in Nat \ {0} : Width = Size * t
  BY Sizes
<1>3. Off(x) \in Int /\ Start \in Int /\ Size \in Int
  BY OffRounds, Sizes
<1> DEFINE a == Start + (Off(x) + j)
<1>4. a \in Int /\ t * q \in Int
  BY <1>3
<1>5. x + j = a + Size * (t * q)
  BY <1>1, <1>2, <1>3, SMT
<1>. HIDE DEF a
<1>6. (a + Size * (t * q)) % Size = a % Size
  BY <1>4, ModShift, Sizes
<1>. QED
  BY <1>5, <1>6 DEF a, Slot

\* Items less than the size apart are in different entries.
LEMMA SlotApart ==
    ASSUME NEW a \in Nat, NEW b \in Nat, a < b, b - a < Size
    PROVE  Slot(a) # Slot(b)
<1> DEFINE x == Start + a
           y == Start + b
           p == x \div Size
           q == y \div Size
           r == x % Size
<1>1. x \in Int /\ y \in Int /\ y - x = b - a
  BY Sizes
<1>2. p \in Int /\ r \in Int /\ x = Size * p + r
  BY <1>1, Division, Sizes
<1>3. q \in Int /\ y = Size * q + (y % Size)
  BY <1>1, Division, Sizes
<1>4. SUFFICES ASSUME y % Size = r PROVE FALSE
  BY DEF Slot
<1>5. y = Size * q + r
  BY <1>3, <1>4
<1>. HIDE DEF x, y, p, q, r
<1>6. y - x = Size * (q - p) /\ Size \in Nat \ {0}
  BY <1>1, <1>2, <1>3, <1>5, Sizes, SMT
<1>7. q - p > 0
  BY <1>1, <1>2, <1>3, <1>6, SMT
<1>8. Size * (q - p) >= Size
  BY <1>2, <1>3, <1>6, <1>7, SMT
<1>. QED
  BY <1>1, <1>6, <1>8

\* The i-th item of a batch is in the entry i further, whether or not the batch
\* runs over the last entry.
LEMMA EntrySlot ==
    ASSUME NEW x \in Indices, NEW n \in 0 .. Capacity, NEW i \in 0 .. n - 1
    PROVE  Entry(x, n, i) = Slot(Off(x) + i)
<1> DEFINE r == x % Size
           q == x \div Size
           y == r + i
<1>1. x \in Int /\ i \in Int /\ n \in Int /\ n < Size /\ i < n /\ i >= 0
  BY Sizes DEF Indices, Capacity
<1>2. r \in 0 .. Size - 1 /\ q \in Int /\ x = Size * q + r
  BY <1>1, Division, Sizes
<1>3. Entry(x, n, i) = IF y < Size THEN y ELSE y - Size
  <2>. HIDE DEF r
  <2>1. Entry(x, n, i) = IF r + n < Size \/ i < Size - r THEN r + i ELSE i - (Size - r)
    BY DEF Entry, r
  <2>. QED
    BY <1>1, <1>2, <2>1, Sizes
<1>4. (x + i) % Size = Slot(Off(x) + i)
  BY <1>1, SlotOff
<1>. HIDE DEF r, q
<1>5. CASE y < Size
  <2>1. y \in 0 .. Size - 1
    BY <1>1, <1>2, <1>5, Sizes
  <2>2. x + i = Size * q + y
    BY <1>1, <1>2, Sizes, SMT
  <2>. HIDE DEF y
  <2>3. (Size * q + y) % Size = y
    BY <1>2, <2>1, DivisionUnique, Sizes
  <2>. QED
    BY <1>3, <1>4, <1>5, <2>2, <2>3
<1>6. CASE ~(y < Size)
  <2> DEFINE z == y - Size
  <2>1. z \in 0 .. Size - 1 /\ q + 1 \in Int
    BY <1>1, <1>2, <1>6, Sizes
  <2>2. x + i = Size * (q + 1) + z
    BY <1>1, <1>2, Sizes, SMT
  <2>. HIDE DEF z
  <2>3. (Size * (q + 1) + z) % Size = z
    BY <2>1, DivisionUnique, Sizes
  <2>. QED
    BY <1>3, <1>4, <1>6, <2>2, <2>3 DEF z
<1>. QED
  BY <1>5, <1>6

LEMMA OffNat == \A x \in Indices : Off(x) \in Nat /\ Off(x) < Width
BY OffRounds, Sizes

\* The part of the ring from the consumer tail on has each entry once.
LEMMA SlotsDiffer ==
    ASSUME NEW t \in Nat, NEW a \in Nat, NEW b \in Nat, a # b,
           t <= a, a < t + Capacity, t <= b, b < t + Capacity
    PROVE  Slot(a) # Slot(b)
<1>1. Size \in Nat \ {0} /\ Capacity = Size - 1
  BY Sizes DEF Capacity
<1>2. CASE a < b
  <2>1. b - a < Size
    BY <1>1
  <2>. QED
    BY <1>2, <2>1, SlotApart
<1>3. CASE b < a
  <2>1. a - b < Size
    BY <1>1
  <2>. QED
    BY <1>3, <2>1, SlotApart
<1>. QED
  BY <1>2, <1>3

\* A producer's share grows by the batch, and all shares are within the bound
\* that keeps the indices from coming full circle.
LEMMA ReservedGrows ==
    ASSUME sent \in [Producers -> 0 .. Quota], NEW p \in Producers, NEW n \in Nat,
           sent[p] + n <= Quota, sent' = [sent EXCEPT ![p] = @ + n]
    PROVE  /\ Cardinality(Reserved(sent')) = Cardinality(Reserved(sent)) + n
           /\ Cardinality(Reserved(sent')) < Width
<1> DEFINE Old == Reserved(sent)
           New == Reserved(sent')
           more == sent[p] + 1 .. sent[p] + n
           Fresh == {p} \X more
<1>1. IsFiniteSet(Items) /\ Cardinality(Items) = Cardinality(Producers) * Quota
  <2>1. IsFiniteSet(Producers)
    BY RingAssumption
  <2>2. IsFiniteSet(1 .. Quota) /\ Cardinality(1 .. Quota) = Quota
    BY FS_Interval, Sizes
  <2>. QED
    BY <2>1, <2>2, FS_Product DEF Items
<1>2. IsFiniteSet(Fresh) /\ Cardinality(Fresh) = n
  <2>1. IsFiniteSet({p}) /\ Cardinality({p}) = 1
    BY FS_Singleton
  <2>2. IsFiniteSet(more) /\ Cardinality(more) = n
    <3>1. sent[p] + 1 \in Int /\ sent[p] + n \in Int /\ sent[p] \in Nat
      BY Sizes
    <3> DEFINE a == sent[p] + 1
               b == sent[p] + n
    <3>2. a \in Int /\ b \in Int
      BY <3>1
    <3>. HIDE DEF a, b
    <3>3. /\ IsFiniteSet(a .. b)
          /\ Cardinality(a .. b) = IF a > b THEN 0 ELSE b - a + 1
      BY <3>2, FS_Interval
    <3>. QED
      BY <3>1, <3>3 DEF a, b
  <2>. HIDE DEF more
  <2>. QED
    BY <2>1, <2>2, FS_Product
<1>3. New = Old \union Fresh /\ Old \intersect Fresh = {} /\ New \subseteq Items
  <2>1. \A x : x \in Fresh <=> x \in Items /\ x[1] = p /\ x[2] \in more
    <3>1. more \subseteq 1 .. Quota
      BY Sizes
    <3>. HIDE DEF more
    <3>. QED
      BY <3>1 DEF Items
  <2>2. \A x \in Items : x[2] <= sent'[x[1]] <=> x[2] <= sent[x[1]] \/ (x[1] = p /\ x[2] \in more)
    <3>1. \A x \in Items : x[1] \in Producers /\ x[2] \in 1 .. Quota
      BY DEF Items
    <3>. QED
      BY <3>1, Sizes
  <2>3. \A x \in Items : x[1] = p /\ x[2] \in more => ~(x[2] <= sent[x[1]])
    BY Sizes
  <2>. HIDE DEF more, Fresh
  <2>. QED
    BY <2>1, <2>2, <2>3 DEF Reserved
<1>4. IsFiniteSet(Old) /\ Old \subseteq Items
  BY <1>1, FS_Subset DEF Reserved
<1>5. Cardinality(New) <= Cardinality(Items)
  BY <1>1, <1>3, FS_Subset
<1>. HIDE DEF Old, New, Fresh
<1>6. Cardinality(Old \intersect Fresh) = 0 /\ Cardinality(Old) \in Nat
  BY <1>3, <1>4, FS_EmptySet, FS_CardinalityType
<1>7. Cardinality(New) = Cardinality(Old) + Cardinality(Fresh) - Cardinality(Old \intersect Fresh)
  BY <1>2, <1>3, <1>4, FS_Union
<1>8. Cardinality(New) = Cardinality(Old) + n
  BY <1>2, <1>6, <1>7
<1>9. Cardinality(Items) < Width
  <2>1. Cardinality(Producers) \in Nat
    BY RingAssumption, FS_CardinalityType
  <2>2. Cardinality(Producers) * Quota = Quota * Cardinality(Producers)
    BY <2>1, Sizes, SMT
  <2>. QED
    BY <1>1, <2>2, RingAssumption
<1>10. Cardinality(Items) \in Nat
  BY <1>1, FS_CardinalityType
<1>. QED
  BY <1>5, <1>6, <1>8, <1>9, <1>10, Sizes DEF Old, New

-----------------------------------------------------------------------------
(* Steps of producers. *)

\* A step in which a producer only learns something, without a batch reserved.
ProdLooks(p) ==
    /\ UNCHANGED <<prod, cons, ring, csm, sent, got>>
    /\ prd' = [prd EXCEPT ![p] = prd'[p]]
    /\ prd[p].pc # "copy" /\ prd'[p].pc # "copy"
    /\ prd'[p] \in ProdCalls /\ prd'[p].i = 0
    /\ prd'[p].pc # "idle" =>
          /\ prd'[p].n > 0 /\ sent[p] + prd'[p].n <= Quota
          /\ Off(prd'[p].old) <= Off(prod.head)
          /\ prod.single => prd'[p].old = prod.head /\ p = TheOne(Producers)
    /\ prd'[p].pc = "move" /\ prd'[p].old = prod.head
          => Off(prod.head) + prd'[p].n <= Off(cons.tail) + Capacity

LEMMA ProdLooksKeeps ==
    ASSUME IInv, NEW p \in Producers, ProdLooks(p)
    PROVE  IInv'
<1>1. prd \in [Producers -> ProdCalls]
  BY DEF IInv, Types
<1>2. \A q \in Producers : q # p => prd'[q] = prd[q]
  BY <1>1 DEF ProdLooks
<1>3. UNCHANGED <<prod, cons, ring, csm, sent, got>>
  BY DEF ProdLooks
<1>4. Types'
  BY <1>1, <1>3 DEF IInv, Types, ProdLooks
<1>5. ProdCounts'
  BY <1>1, <1>2, <1>3 DEF IInv, ProdCounts, ProdLooks, ProdCalls
<1>6. AloneProd'
  BY <1>1, <1>2, <1>3 DEF IInv, AloneProd, ProdLooks, ProdCalls
<1>7. Producing'
  BY <1>1, <1>2, <1>3 DEF IInv, Producing, ProdLooks, ProdCalls
<1>8. ProdApart'
  <2>1. ProdApart /\ prd'[p].pc # "copy"
    BY DEF IInv, ProdLooks
  <2>. QED
    BY <1>2, <2>1 DEF ProdApart
<1>9. Filled'
  <2>1. Filled /\ prd'[p].pc # "copy" /\ ring' = ring /\ sent' = sent
    BY <1>3 DEF IInv, ProdLooks
  <2>. QED
    BY <1>2, <2>1 DEF Filled
<1>10. (ConsCounts /\ AloneCons /\ Ordered /\ HeadCounts /\ Consuming /\ ConsApart /\ Counted)'
  BY <1>3 DEF IInv, ConsCounts, AloneCons, Ordered, HeadCounts, Consuming, ConsApart,
              Counted
<1>. QED
  BY <1>4, <1>5, <1>6, <1>7, <1>8, <1>9, <1>10 DEF IInv

\* A producer that waits its turn has the ring's head and tail in its call.
LEMMA EnqCallLooks ==
    ASSUME IInv, NEW p \in Producers, NEW n \in Batches, EnqCall(p, n)
    PROVE  ProdLooks(p)
<1>1. /\ prd \in [Producers -> ProdCalls] /\ prod \in Sides
      /\ prd[p].i = 0 /\ prd[p].pc = "idle"
  BY DEF IInv, Types, ProdCounts, EnqCall
<1>2. prd'[p] = [prd[p] EXCEPT !.pc = "room", !.n = n, !.old = prod.head]
  BY <1>1 DEF EnqCall
<1>7. Capacity \in Nat /\ n \in 0 .. Capacity /\ prod.head \in Indices /\ prd[p] \in ProdCalls
  BY <1>1, Sizes DEF Sides
<1>3. /\ n \in 1 .. Capacity /\ sent[p] + n <= Quota
      /\ prod.single => p = TheOne(Producers)
  BY Sizes DEF EnqCall, SingleProd
<1>4. /\ prd'[p] \in ProdCalls /\ prd'[p].i = 0 /\ prd'[p].pc = "room"
      /\ prd'[p].n = n /\ prd'[p].old = prod.head
  BY <1>1, <1>2, <1>7 DEF ProdCalls
<1>5. Off(prod.head) \in Nat
  BY <1>1, OffNat DEF Sides
<1>6. prd' = [prd EXCEPT ![p] = prd'[p]] /\ UNCHANGED <<prod, cons, ring, csm, sent, got>>
  BY <1>1 DEF EnqCall
<1>. QED
  BY <1>1, <1>3, <1>4, <1>5, <1>6 DEF ProdLooks

LEMMA EnqRoomLooks ==
    ASSUME IInv, NEW p \in Producers, EnqRoom(p)
    PROVE  ProdLooks(p)
<1>1. /\ prd \in [Producers -> ProdCalls] /\ prod \in Sides /\ cons \in Sides
      /\ prd[p].i = 0 /\ prd[p].pc = "room" /\ prd[p].n > 0
      /\ sent[p] + prd[p].n <= Quota /\ prd[p].n <= Free(prd[p].old)
      /\ Off(prd[p].old) <= Off(prod.head)
      /\ prod.single => prd[p].old = prod.head /\ p = TheOne(Producers)
  BY DEF IInv, Types, ProdCounts, Producing, AloneProd, EnqRoom
<1>2. prd'[p] = [prd[p] EXCEPT !.pc = "move"]
  BY <1>1 DEF EnqRoom
<1>3. /\ prd'[p] \in ProdCalls /\ prd'[p].i = 0 /\ prd'[p].pc = "move"
      /\ prd'[p].n = prd[p].n /\ prd'[p].old = prd[p].old
  BY <1>1, <1>2 DEF ProdCalls
<1>4. ASSUME prd[p].old = prod.head
      PROVE  Off(prod.head) + prd[p].n <= Off(cons.tail) + Capacity
  <2>1. prod.head \in Indices /\ cons.tail \in Indices /\ prd[p].n \in Nat
    BY <1>1, Sizes DEF Sides, ProdCalls
  <2>2. Off(prod.head) \in Nat /\ Off(cons.tail) \in Nat
    BY <2>1, OffNat
  <2>3. Off(cons.tail) <= Off(prod.head) /\ Off(prod.head) <= Off(cons.tail) + Capacity
    <3>1. {cons.head, prod.tail} \subseteq Indices
      BY DEF IInv, Types, Sides
    <3>2. Off(cons.head) \in Nat /\ Off(prod.tail) \in Nat
      BY <3>1, OffNat
    <3>. QED
      BY <2>2, <3>2 DEF IInv, Ordered
  <2>4. Free(prod.head) = Capacity + Off(cons.tail) - Off(prod.head)
    BY <2>1, <2>3, OffFree DEF Free
  <2>. QED
    BY <1>1, <1>4, <2>1, <2>2, <2>4, Sizes
<1>5. prd' = [prd EXCEPT ![p] = prd'[p]] /\ UNCHANGED <<prod, cons, ring, csm, sent, got>>
  BY <1>1 DEF EnqRoom
<1>. QED
  BY <1>1, <1>3, <1>4, <1>5 DEF ProdLooks

LEMMA EnqFullLooks ==
    ASSUME IInv, NEW p \in Producers, EnqFull(p)
    PROVE  ProdLooks(p)
<1>1. prd \in [Producers -> ProdCalls] /\ prd[p].pc = "room"
  BY DEF IInv, Types, EnqFull
<1>2. prd'[p] = Idle(prd[p])
  BY <1>1 DEF EnqFull
<1>3. prd'[p] \in ProdCalls /\ prd'[p].i = 0 /\ prd'[p].pc = "idle"
  <2>1. 0 \in 0 .. Capacity /\ 0 \in Indices /\ 0 \in Nat /\ prd[p] \in ProdCalls
    BY <1>1, Sizes DEF Indices
  <2>. QED
    BY <1>2, <2>1 DEF ProdCalls, Idle
<1>4. prd' = [prd EXCEPT ![p] = prd'[p]] /\ UNCHANGED <<prod, cons, ring, csm, sent, got>>
  BY <1>1 DEF EnqFull
<1>. QED
  BY <1>1, <1>3, <1>4 DEF ProdLooks

LEMMA EnqRetryLooks ==
    ASSUME IInv, NEW p \in Producers, EnqRetry(p)
    PROVE  ProdLooks(p)
<1>1. /\ prd \in [Producers -> ProdCalls] /\ prod \in Sides /\ ~prod.single
      /\ prd[p].i = 0 /\ prd[p].pc = "move" /\ prd[p].n > 0
      /\ sent[p] + prd[p].n <= Quota
  BY DEF IInv, Types, ProdCounts, EnqRetry, SingleProd
<1>2. prd'[p] = [prd[p] EXCEPT !.pc = "room", !.old = prod.head]
  BY <1>1 DEF EnqRetry
<1>3. /\ prd'[p] \in ProdCalls /\ prd'[p].i = 0 /\ prd'[p].pc = "room"
      /\ prd'[p].n = prd[p].n /\ prd'[p].old = prod.head
  BY <1>1, <1>2 DEF ProdCalls, Sides
<1>4. Off(prod.head) \in Nat
  BY <1>1, OffNat DEF Sides
<1>5. prd' = [prd EXCEPT ![p] = prd'[p]] /\ UNCHANGED <<prod, cons, ring, csm, sent, got>>
  BY <1>1 DEF EnqRetry
<1>. QED
  BY <1>1, <1>3, <1>4, <1>5 DEF ProdLooks

\* What is known of the indices.
LEMMA IndexFacts ==
    ASSUME IInv
    PROVE  /\ {prod.head, prod.tail, cons.head, cons.tail} \subseteq Indices
           /\ \A p \in Producers :
                 /\ prd[p].old \in Indices /\ prd[p].n \in Nat /\ prd[p].i \in Nat
                 /\ prd[p].n <= Capacity /\ prd[p].i <= prd[p].n
           /\ \A c \in Consumers :
                 /\ csm[c].old \in Indices /\ csm[c].n \in Nat /\ csm[c].i \in Nat
                 /\ csm[c].n <= Capacity /\ csm[c].i <= csm[c].n
           /\ {Off(prod.head), Off(prod.tail), Off(cons.head), Off(cons.tail)} \subseteq Nat
           /\ Off(prod.head) < Width /\ Off(prod.tail) < Width
           /\ Off(cons.head) < Width /\ Off(cons.tail) < Width
           /\ \A p \in Producers : Off(prd[p].old) \in Nat
           /\ \A c \in Consumers : Off(csm[c].old) \in Nat
<1>1. {prod.head, prod.tail, cons.head, cons.tail} \subseteq Indices
  BY DEF IInv, Types, Sides
<1>2. \A p \in Producers :
         /\ prd[p].old \in Indices /\ prd[p].n \in Nat /\ prd[p].i \in Nat
         /\ prd[p].n <= Capacity /\ prd[p].i <= prd[p].n
  BY Sizes DEF IInv, Types, ProdCalls, ProdCounts
<1>3. \A c \in Consumers :
         /\ csm[c].old \in Indices /\ csm[c].n \in Nat /\ csm[c].i \in Nat
         /\ csm[c].n <= Capacity /\ csm[c].i <= csm[c].n
  BY Sizes DEF IInv, Types, ConsCalls, ConsCounts
<1>. QED
  BY <1>1, <1>2, <1>3, OffNat

\* A producer that is to move the head has the room; one that is to move the tail
\* is the next in turn.
LEMMA EnqMoveFacts ==
    ASSUME IInv, NEW p \in Producers, EnqMove(p)
    PROVE  /\ prd[p].old = prod.head /\ prd[p].pc = "move"
           /\ prd[p].n > 0 /\ sent[p] + prd[p].n <= Quota
           /\ Off(prod.head) + prd[p].n <= Off(cons.tail) + Capacity
           /\ prod.single => p = TheOne(Producers) /\ prod.tail = prod.head
<1>1. prd[p].pc = "move" /\ (prod.single \/ prod.head = prd[p].old)
  BY DEF EnqMove, SingleProd
<1>2. prd[p].old = prod.head /\ (prod.single => p = TheOne(Producers) /\ prod.tail = prod.head)
  BY <1>1 DEF IInv, AloneProd
<1>. QED
  BY <1>1, <1>2 DEF IInv, ProdCounts, Producing

LEMMA EnqMoveKeeps ==
    ASSUME IInv, NEW p \in Producers, EnqMove(p)
    PROVE  IInv'
<1> DEFINE n == prd[p].n
           head == Off(prod.head)
<1>1. /\ prd \in [Producers -> ProdCalls] /\ sent \in [Producers -> 0 .. Quota]
      /\ prod \in Sides /\ n \in Nat
  BY IndexFacts DEF IInv, Types
<1>2. /\ prd' = [prd EXCEPT ![p].pc = "copy"] /\ UNCHANGED <<cons, ring, csm, got>>
      /\ sent' = [sent EXCEPT ![p] = @ + n]
      /\ prod' = [prod EXCEPT !.head = (prd[p].old + n) % Width]
  BY DEF EnqMove
<1>3. /\ prd[p].old = prod.head /\ n > 0 /\ sent[p] + n <= Quota
      /\ head + n <= Off(cons.tail) + Capacity
      /\ prod.single => p = TheOne(Producers) /\ prod.tail = prod.head
  BY EnqMoveFacts
<1>4. Cardinality(Reserved(sent')) = head + n /\ head + n < Width
  BY <1>1, <1>2, <1>3, ReservedGrows DEF IInv, HeadCounts
<1>5. /\ prod'.head \in Indices /\ Off(prod'.head) = head + n
      /\ prod'.tail = prod.tail /\ prod'.single = prod.single
  BY <1>1, <1>2, <1>3, <1>4, OffPlus DEF Sides
<1>6. prod' \in Sides
  BY <1>1, <1>2, <1>5 DEF Sides
<1>7. /\ prd'[p] = [prd[p] EXCEPT !.pc = "copy"]
      /\ \A q \in Producers : q # p => prd'[q] = prd[q]
  BY <1>1, <1>2
<1>8. /\ prd'[p] \in ProdCalls /\ prd'[p].pc = "copy" /\ prd'[p].n = n
      /\ prd'[p].i = 0 /\ prd'[p].old = prod.head
  BY <1>1, <1>3, <1>7 DEF ProdCalls, IInv, ProdCounts, EnqMove
<1>9. /\ sent'[p] = sent[p] + n /\ sent' \in [Producers -> 0 .. Quota]
      /\ \A q \in Producers : q # p => sent'[q] = sent[q]
  BY <1>1, <1>2, <1>3, Sizes
<1>10. Types'
  BY <1>1, <1>2, <1>6, <1>8, <1>9 DEF IInv, Types
<1>11. /\ \A q \in Producers : /\ Off(prd[q].old) \in Nat /\ prd[q].n \in Nat
       /\ head \in Nat /\ Off(prod.tail) \in Nat /\ Off(cons.tail) \in Nat
       /\ Off(cons.head) \in Nat /\ Off(prod.tail) <= head
  BY IndexFacts DEF IInv, Ordered
<1>. HIDE DEF n, head
<1>12. ProdCounts'
  <2>1. n <= sent'[p] /\ 0 <= n
    BY <1>1, <1>3, <1>9
  <2>. QED
    BY <1>3, <1>7, <1>8, <1>9, <2>1 DEF IInv, ProdCounts
<1>13. AloneProd'
  <2>1. SUFFICES ASSUME prod.single
        PROVE  \A q \in Producers :
                  /\ q # TheOne(Producers) => prd'[q].pc = "idle"
                  /\ q = TheOne(Producers) =>
                        IF prd'[q].pc = "copy"
                        THEN /\ prd'[q].old = prod'.tail
                             /\ Off(prd'[q].old) + prd'[q].n = Off(prod'.head)
                        ELSE /\ prod'.head = prod'.tail
                             /\ prd'[q].pc # "idle" => prd'[q].old = prod'.head
    BY <1>5 DEF AloneProd
  <2>2. p = TheOne(Producers) /\ prod.tail = prod.head
    BY <1>3, <2>1
  <2>3. \A q \in Producers : q # p => prd[q].pc = "idle"
    BY <2>1, <2>2 DEF IInv, AloneProd
  <2>4. prd'[p].old = prod'.tail /\ Off(prd'[p].old) + prd'[p].n = Off(prod'.head)
    BY <1>5, <1>8, <2>2 DEF head
  <2>5. \A q \in Producers : q # p => prd'[q].pc = "idle"
    BY <1>7, <2>3
  <2>. QED
    BY <1>8, <2>2, <2>4, <2>5
<1>14. Ordered'
  BY <1>1, <1>2, <1>3, <1>5, <1>11, Sizes DEF IInv, Ordered, head
<1>15. HeadCounts'
  BY <1>4, <1>5 DEF HeadCounts
<1>16. Producing'
  <2>1. SUFFICES ASSUME NEW q \in Producers
        PROVE  /\ prd'[q].pc \in {"room", "move"} => Off(prd'[q].old) <= head + n
               /\ prd'[q].pc = "move" /\ prd'[q].old = prod'.head
                    => head + n + prd'[q].n <= Off(cons.tail) + Capacity
               /\ prd'[q].pc = "copy" =>
                    /\ Off(prod.tail) <= Off(prd'[q].old)
                    /\ Off(prd'[q].old) + prd'[q].n <= head + n
    BY <1>2, <1>5 DEF Producing
  <2>2. CASE q = p
    BY <1>1, <1>8, <1>11, <2>2 DEF head
  <2>3. CASE q # p
    <3>1. prd'[q] = prd[q]
      BY <1>7, <2>3
    <3>2. /\ prd[q].pc \in {"room", "move"} => Off(prd[q].old) <= head
          /\ prd[q].pc = "copy" => Off(prod.tail) <= Off(prd[q].old)
                                   /\ Off(prd[q].old) + prd[q].n <= head
      BY DEF IInv, Producing, head
    <3>3. prd[q].pc = "move" => prd[q].old # prod'.head
      BY <1>1, <1>3, <1>5, <1>11, <3>2
    <3>. QED
      BY <1>1, <1>3, <1>11, <3>1, <3>2, <3>3
  <2>. QED
    BY <2>2, <2>3
<1>17. ProdApart'
  <2>1. \A q \in Producers : q # p /\ prd[q].pc = "copy" => Off(prd[q].old) + prd[q].n <= head
    BY DEF IInv, Producing, head
  <2>2. \A q \in Producers : q # p /\ prd'[q].pc = "copy" =>
           Apart(prd'[p], prd'[q]) /\ Apart(prd'[q], prd'[p])
    BY <1>7, <1>8, <2>1 DEF Apart, head
  <2>3. \A q, r \in Producers :
           q # r /\ q # p /\ r # p /\ prd'[q].pc = "copy" /\ prd'[r].pc = "copy"
              => Apart(prd'[q], prd'[r])
    BY <1>7 DEF IInv, ProdApart
  <2>. QED
    BY <2>2, <2>3 DEF ProdApart
<1>18. Filled'
  <2>1. SUFFICES ASSUME NEW q \in Producers, prd'[q].pc = "copy", NEW j \in 0 .. prd'[q].i - 1
        PROVE  ring[Slot(Off(prd'[q].old) + j)] = <<q, sent'[q] - prd'[q].n + j + 1>>
    BY <1>2 DEF Filled
  <2>2. q # p
    BY <1>8
  <2>3. prd'[q] = prd[q] /\ sent'[q] = sent[q]
    BY <1>7, <1>9, <2>2
  <2>. QED
    BY <2>1, <2>3 DEF IInv, Filled
<1>19. (ConsCounts /\ AloneCons /\ Consuming /\ ConsApart /\ Counted)'
  BY <1>2, <1>5 DEF IInv, ConsCounts, AloneCons, Consuming, ConsApart, Counted
<1>. QED
  BY <1>10, <1>12, <1>13, <1>14, <1>15, <1>16, <1>17, <1>18, <1>19 DEF IInv

\* What a producer copies goes to the entry of its item, in its own batch.
LEMMA EnqCopyFacts ==
    ASSUME IInv, NEW p \in Producers, EnqCopy(p)
    PROVE  LET a == Off(prd[p].old) + prd[p].i IN
           /\ a \in Nat /\ prd[p].pc = "copy" /\ prd[p].i < prd[p].n
           /\ Off(prod.tail) <= a /\ a < Off(prod.head)
           /\ ring' = [ring EXCEPT ![Slot(a)] = <<p, sent[p] - prd[p].n + prd[p].i + 1>>]
           /\ Slot(a) \in 0 .. Size - 1
           /\ sent[p] - prd[p].n + prd[p].i + 1 \in 1 .. Quota
           /\ \A b \in Nat :
                 Off(cons.tail) <= b /\ b < Off(cons.tail) + Capacity /\ b # a =>
                    ring'[Slot(b)] = ring[Slot(b)]
<1> DEFINE a == Off(prd[p].old) + prd[p].i
           x == <<p, sent[p] - prd[p].n + prd[p].i + 1>>
<1>1. /\ prd[p].pc = "copy" /\ prd[p].i < prd[p].n /\ prd[p].n <= sent[p]
      /\ prd[p].old \in Indices /\ prd[p].n \in Nat /\ prd[p].i \in Nat
      /\ prd[p].n <= Capacity /\ Off(prd[p].old) \in Nat /\ Capacity \in Nat
      /\ sent[p] \in 0 .. Quota /\ ring \in [0 .. Size - 1 -> Items \union {Empty}]
  BY IndexFacts, Sizes DEF EnqCopy, IInv, ProdCounts, Types
<1>2. Off(prod.tail) <= Off(prd[p].old) /\ Off(prd[p].old) + prd[p].n <= Off(prod.head)
  BY <1>1 DEF IInv, Producing
<1>3. /\ Off(prod.tail) \in Nat /\ Off(prod.head) \in Nat /\ Off(cons.tail) \in Nat
      /\ Off(cons.head) \in Nat
  BY IndexFacts
<1>4. a \in Nat /\ Off(prod.tail) <= a /\ a < Off(prod.head)
  <2>1. /\ prd[p].i < prd[p].n /\ prd[p].n \in Nat /\ prd[p].i \in Nat
        /\ Off(prd[p].old) \in Nat
    BY <1>1
  <2>. QED
    BY <1>2, <1>3, <2>1
<1>5. prd[p].n \in 0 .. Capacity /\ prd[p].i \in 0 .. prd[p].n - 1
  BY <1>1
<1>6. Entry(prd[p].old, prd[p].n, prd[p].i) = Slot(a)
  BY <1>1, <1>5, EntrySlot
<1>7. ring' = [ring EXCEPT ![Slot(a)] = x]
  BY <1>6 DEF EnqCopy
<1>8. Slot(a) \in 0 .. Size - 1
  BY <1>4, SlotIn
<1>9. sent[p] - prd[p].n + prd[p].i + 1 \in 1 .. Quota
  <2>1. /\ prd[p].i < prd[p].n /\ prd[p].n <= sent[p] /\ prd[p].n \in Nat
        /\ prd[p].i \in Nat /\ sent[p] \in Nat /\ sent[p] <= Quota /\ Quota \in Nat
    BY <1>1, Sizes
  <2>. QED
    BY <2>1
<1>10. Off(cons.tail) <= a /\ a < Off(cons.tail) + Capacity
  BY <1>1, <1>3, <1>4 DEF IInv, Ordered
<1>. HIDE DEF a, x
<1>11. ASSUME NEW b \in Nat, Off(cons.tail) <= b, b < Off(cons.tail) + Capacity, b # a
       PROVE  ring'[Slot(b)] = ring[Slot(b)]
  <2>1. Slot(b) # Slot(a)
    BY <1>3, <1>4, <1>10, <1>11, SlotsDiffer
  <2>2. Slot(b) \in 0 .. Size - 1
    BY SlotIn
  <2>. QED
    BY <1>1, <1>7, <2>1, <2>2
<1>. QED
  BY <1>1, <1>4, <1>7, <1>8, <1>9, <1>11 DEF a, x

LEMMA EnqCopyKeeps ==
    ASSUME IInv, NEW p \in Producers, EnqCopy(p)
    PROVE  IInv'
<1> DEFINE a == Off(prd[p].old) + prd[p].i
           x == <<p, sent[p] - prd[p].n + prd[p].i + 1>>
<1>1. /\ prd \in [Producers -> ProdCalls] /\ ring \in [0 .. Size - 1 -> Items \union {Empty}]
      /\ UNCHANGED <<prod, cons, csm, sent, got>>
      /\ prd' = [prd EXCEPT ![p].i = @ + 1]
  BY DEF IInv, Types, EnqCopy
<1>2. /\ a \in Nat /\ prd[p].pc = "copy" /\ prd[p].i < prd[p].n
      /\ Off(prod.tail) <= a /\ a < Off(prod.head)
      /\ ring' = [ring EXCEPT ![Slot(a)] = x]
      /\ Slot(a) \in 0 .. Size - 1 /\ x \in Items
      /\ \A b \in Nat :
            Off(cons.tail) <= b /\ b < Off(cons.tail) + Capacity /\ b # a =>
               ring'[Slot(b)] = ring[Slot(b)]
  BY EnqCopyFacts DEF Items
<1>3. /\ prd'[p] = [prd[p] EXCEPT !.i = @ + 1]
      /\ \A q \in Producers : q # p => prd'[q] = prd[q]
  BY <1>1
<1>4. prd[p].i \in Nat /\ prd[p].n \in Nat /\ Off(prd[p].old) \in Nat
  BY IndexFacts
<1>5. /\ prd'[p] \in ProdCalls /\ prd'[p].pc = "copy" /\ prd'[p].n = prd[p].n
      /\ prd'[p].i = prd[p].i + 1 /\ prd'[p].old = prd[p].old
  <2>1. prd[p] \in ProdCalls /\ prd[p].i + 1 \in Nat
    BY <1>1, <1>4
  <2>. QED
    BY <1>2, <1>3, <2>1 DEF ProdCalls
<1>. HIDE DEF x
<1>6. ring' \in [0 .. Size - 1 -> Items \union {Empty}] /\ ring'[Slot(a)] = x
  BY <1>1, <1>2
<1>7. Types'
  BY <1>1, <1>5, <1>6 DEF IInv, Types
<1>8. ProdCounts'
  BY <1>1, <1>2, <1>3, <1>4, <1>5 DEF IInv, ProdCounts
<1>9. AloneProd'
  BY <1>1, <1>2, <1>3, <1>5 DEF IInv, AloneProd
<1>10. (Ordered /\ HeadCounts)'
  BY <1>1 DEF IInv, Ordered, HeadCounts
<1>11. Producing'
  BY <1>1, <1>2, <1>3, <1>5 DEF IInv, Producing
<1>12. ProdApart'
  BY <1>1, <1>2, <1>3, <1>5 DEF IInv, ProdApart, Apart
<1>13. Filled'
  <2>1. SUFFICES ASSUME NEW q \in Producers, prd'[q].pc = "copy", NEW j \in 0 .. prd'[q].i - 1
        PROVE  ring'[Slot(Off(prd'[q].old) + j)] = <<q, sent[q] - prd'[q].n + j + 1>>
    <3>1. sent' = sent
      BY <1>1
    <3>. QED
      BY <3>1 DEF Filled
  <2>2. /\ prd[q].pc = "copy" /\ prd'[q].old = prd[q].old /\ prd'[q].n = prd[q].n
        /\ prd[q].i \in Nat /\ prd[q].n \in Nat /\ prd[q].i <= prd[q].n
        /\ Off(prd[q].old) \in Nat
    BY <1>2, <1>3, <1>5, <2>1, IndexFacts
  <2>3. CASE q = p /\ j = prd[p].i
    <3>1. ring'[Slot(Off(prd[p].old) + j)] = x
      BY <1>6, <2>3
    <3>. QED
      BY <2>2, <2>3, <3>1 DEF x
  <2>4. CASE ~(q = p /\ j = prd[p].i)
    <3> DEFINE b == Off(prd[q].old) + j
    <3>1. j \in 0 .. prd[q].i - 1
      <4>1. CASE q = p
        BY <1>4, <1>5, <2>4, <4>1
      <4>2. CASE q # p
        BY <1>3, <4>2
      <4>. QED
        BY <4>1, <4>2
    <3>2. b \in Nat /\ b < Off(prd[q].old) + prd[q].n
      BY <2>2, <3>1
    <3>3. b # a
      <4>1. CASE q = p
        BY <1>4, <2>4, <3>1, <4>1
      <4>2. CASE q # p
        <5>1. Apart(prd[p], prd[q])
          BY <1>2, <2>2, <4>2 DEF IInv, ProdApart
        <5>. QED
          BY <1>2, <1>4, <2>2, <3>1, <5>1 DEF Apart
      <4>. QED
        BY <4>1, <4>2
    <3>4. Off(cons.tail) <= b /\ b < Off(cons.tail) + Capacity
      <4>1. /\ Off(prod.tail) \in Nat /\ Off(prod.head) \in Nat
            /\ Off(cons.tail) \in Nat /\ Off(cons.head) \in Nat /\ Capacity \in Nat
        BY IndexFacts, Sizes
      <4>2. Off(cons.tail) <= Off(prod.tail) /\ Off(prod.head) <= Off(cons.tail) + Capacity
        BY <4>1 DEF IInv, Ordered
      <4>3. Off(prod.tail) <= Off(prd[q].old) /\ Off(prd[q].old) + prd[q].n <= Off(prod.head)
        BY <2>2 DEF IInv, Producing
      <4>. QED
        BY <2>2, <3>1, <3>2, <4>1, <4>2, <4>3
    <3>. HIDE DEF a
    <3>5. ring'[Slot(b)] = ring[Slot(b)]
      BY <1>2, <3>2, <3>3, <3>4
    <3>6. ring[Slot(b)] = <<q, sent[q] - prd[q].n + j + 1>>
      BY <2>2, <3>1 DEF IInv, Filled
    <3>. QED
      BY <2>2, <3>5, <3>6
  <2>. QED
    BY <2>3, <2>4
<1>14. (ConsCounts /\ AloneCons /\ Consuming /\ ConsApart /\ Counted)'
  BY <1>1 DEF IInv, ConsCounts, AloneCons, Consuming, ConsApart, Counted
<1>. QED
  BY <1>7, <1>8, <1>9, <1>10, <1>11, <1>12, <1>13, <1>14 DEF IInv

\* A producer that is to move the tail is the next in turn.
LEMMA EnqDoneFacts ==
    ASSUME IInv, NEW p \in Producers, EnqDone(p)
    PROVE  /\ prd[p].old = prod.tail /\ prd[p].pc = "copy" /\ prd[p].i = prd[p].n
           /\ prd[p].n > 0 /\ Off(prod.tail) + prd[p].n <= Off(prod.head)
           /\ prod.single =>
                 p = TheOne(Producers) /\ Off(prod.tail) + prd[p].n = Off(prod.head)
           /\ prod'.tail \in Indices /\ Off(prod'.tail) = Off(prod.tail) + prd[p].n
           /\ prod'.head = prod.head /\ prod'.single = prod.single
<1>1. /\ prd[p].pc = "copy" /\ prd[p].i = prd[p].n
      /\ prod.single \/ prod.tail = prd[p].old
      /\ prod' = [prod EXCEPT !.tail = (prd[p].old + prd[p].n) % Width]
  BY DEF EnqDone, SingleProd
<1>2. /\ prd[p].old = prod.tail
      /\ prod.single =>
            p = TheOne(Producers) /\ Off(prod.tail) + prd[p].n = Off(prod.head)
  BY <1>1 DEF IInv, AloneProd
<1>3. prd[p].n > 0 /\ Off(prod.tail) + prd[p].n <= Off(prod.head)
  BY <1>1, <1>2 DEF IInv, ProdCounts, Producing
<1>4. /\ prod.tail \in Indices /\ prd[p].n \in Nat /\ Off(prod.tail) + prd[p].n < Width
      /\ prod \in Sides
  <2>1. /\ prod.tail \in Indices /\ prd[p].n \in Nat /\ Off(prod.tail) \in Nat
        /\ Off(prod.head) \in Nat /\ Off(prod.head) < Width
    BY IndexFacts
  <2>. QED
    BY <1>3, <2>1, Sizes DEF IInv, Types
<1>5. /\ (prod.tail + prd[p].n) % Width \in Indices
      /\ Off((prod.tail + prd[p].n) % Width) = Off(prod.tail) + prd[p].n
  BY <1>4, OffPlus
<1>6. /\ prod'.tail = (prod.tail + prd[p].n) % Width
      /\ prod'.head = prod.head /\ prod'.single = prod.single
  BY <1>1, <1>2, <1>4 DEF Sides
<1>. QED
  BY <1>1, <1>2, <1>3, <1>5, <1>6

LEMMA EnqDoneKeeps ==
    ASSUME IInv, NEW p \in Producers, EnqDone(p)
    PROVE  IInv'
<1> DEFINE n == prd[p].n
<1>1. /\ prd \in [Producers -> ProdCalls] /\ prod \in Sides /\ n \in Nat
      /\ UNCHANGED <<cons, ring, csm, sent, got>>
      /\ prd' = [prd EXCEPT ![p] = Idle(@)]
      /\ prod' = [prod EXCEPT !.tail = (prd[p].old + prd[p].n) % Width]
  BY IndexFacts DEF IInv, Types, EnqDone
<1>2. /\ prd[p].old = prod.tail /\ prd[p].pc = "copy" /\ n > 0
      /\ Off(prod.tail) + n <= Off(prod.head)
      /\ prod.single => p = TheOne(Producers) /\ Off(prod.tail) + n = Off(prod.head)
      /\ prod'.tail \in Indices /\ Off(prod'.tail) = Off(prod.tail) + n
      /\ prod'.head = prod.head /\ prod'.single = prod.single
  BY EnqDoneFacts
<1>3. prd'[p] = Idle(prd[p]) /\ \A q \in Producers : q # p => prd'[q] = prd[q]
  BY <1>1
<1>4. prd'[p] \in ProdCalls /\ prd'[p].pc = "idle" /\ prd'[p].i = 0 /\ prd'[p].n = 0
  <2>1. 0 \in 0 .. Capacity /\ 0 \in Indices /\ 0 \in Nat /\ prd[p] \in ProdCalls
    BY <1>1, Sizes DEF Indices
  <2>. QED
    BY <1>3, <2>1 DEF ProdCalls, Idle
<1>5. prod' \in Sides
  BY <1>1, <1>2 DEF Sides
<1>6. Types'
  BY <1>1, <1>4, <1>5 DEF IInv, Types
<1>7. ProdCounts'
  BY <1>1, <1>3, <1>4 DEF IInv, ProdCounts
<1>8. /\ \A q \in Producers : Off(prd[q].old) \in Nat /\ prd[q].n \in Nat
      /\ Off(prod.head) \in Nat /\ Off(prod.tail) \in Nat /\ Off(cons.tail) \in Nat
      /\ Off(cons.head) \in Nat /\ prod.head \in Indices
      /\ \A c \in Consumers : Off(csm[c].old) \in Nat /\ csm[c].n \in Nat
  BY IndexFacts
<1>. HIDE DEF n
<1>9. AloneProd'
  <2>1. SUFFICES ASSUME prod.single
        PROVE  /\ prod'.head = prod'.tail
               /\ \A q \in Producers : prd'[q].pc = "idle"
    BY <1>2 DEF AloneProd
  <2>2. prod'.head = prod'.tail
    BY <1>2, <1>8, <2>1, OffSame
  <2>3. \A q \in Producers : q # p => prd[q].pc = "idle"
    BY <1>2, <2>1 DEF IInv, AloneProd
  <2>. QED
    BY <1>3, <1>4, <2>2, <2>3
<1>10. Ordered'
  BY <1>1, <1>2, <1>8 DEF IInv, Ordered
<1>11. HeadCounts'
  BY <1>1, <1>2 DEF IInv, HeadCounts
<1>12. Producing'
  <2>1. SUFFICES ASSUME NEW q \in Producers, q # p
        PROVE  /\ prd[q].pc \in {"room", "move"} => Off(prd[q].old) <= Off(prod.head)
               /\ prd[q].pc = "move" /\ prd[q].old = prod.head
                    => Off(prod.head) + prd[q].n <= Off(cons.tail) + Capacity
               /\ prd[q].pc = "copy" =>
                    /\ Off(prod.tail) + n <= Off(prd[q].old)
                    /\ Off(prd[q].old) + prd[q].n <= Off(prod.head)
    BY <1>1, <1>2, <1>3, <1>4 DEF Producing
  <2>2. ASSUME prd[q].pc = "copy" PROVE Off(prod.tail) + n <= Off(prd[q].old)
    <3>1. Apart(prd[p], prd[q]) /\ Off(prod.tail) <= Off(prd[q].old) /\ prd[q].n > 0
      BY <1>2, <2>1, <2>2 DEF IInv, ProdApart, Producing, ProdCounts
    <3>. QED
      BY <1>1, <1>2, <1>8, <3>1 DEF Apart, n
  <2>. QED
    BY <2>2 DEF IInv, Producing
<1>13. ProdApart'
  BY <1>3, <1>4 DEF IInv, ProdApart
<1>14. Filled'
  BY <1>1, <1>3, <1>4 DEF IInv, Filled
<1>15. Consuming'
  BY <1>1, <1>2, <1>8 DEF IInv, Consuming
<1>16. Counted'
  BY <1>1, <1>2, <1>8 DEF IInv, Counted
<1>17. (ConsCounts /\ AloneCons /\ ConsApart)'
  BY <1>1 DEF IInv, ConsCounts, AloneCons, ConsApart
<1>. QED
  BY <1>6, <1>7, <1>9, <1>10, <1>11, <1>12, <1>13, <1>14, <1>15, <1>16, <1>17 DEF IInv

-----------------------------------------------------------------------------
(* Steps of consumers. *)

\* A step in which a consumer only learns something, without a batch reserved.
ConsLooks(c) ==
    /\ UNCHANGED <<prod, cons, ring, prd, sent, got>>
    /\ csm' = [csm EXCEPT ![c] = csm'[c]]
    /\ csm[c].pc # "copy" /\ csm'[c].pc # "copy"
    /\ csm'[c] \in ConsCalls /\ csm'[c].i = 0
    /\ cons.single => csm'[c].pc = "idle" \/ c = TheOne(Consumers)
    /\ csm'[c].pc \in {"look", "move"} =>
          /\ Off(csm'[c].old) <= Off(cons.head)
          /\ cons.single => csm'[c].old = cons.head
    /\ csm'[c].pc \in {"look", "move"} => csm'[c].ask \in 1 .. Capacity
    /\ csm'[c].pc = "move" =>
          csm'[c].n > 0 /\ Off(csm'[c].old) + csm'[c].n <= Off(prod.tail)
    /\ csm'[c].pc = "counted" => csm'[c].counted
    /\ csm'[c].pc = "idle" => ~csm'[c].counted
    /\ csm'[c].counted => cons.single /\ c = TheOne(Consumers)
    /\ csm'[c].counted /\ csm'[c].pc \in {"counted", "look"} =>
          Off(cons.head) < Off(prod.tail)

LEMMA ConsLooksKeeps ==
    ASSUME IInv, NEW c \in Consumers, ConsLooks(c)
    PROVE  IInv'
<1>1. csm \in [Consumers -> ConsCalls]
  BY DEF IInv, Types
<1>2. \A d \in Consumers : d # c => csm'[d] = csm[d]
  BY <1>1 DEF ConsLooks
<1>3. UNCHANGED <<prod, cons, ring, prd, sent, got>>
  BY DEF ConsLooks
<1>4. Types'
  BY <1>1, <1>3 DEF IInv, Types, ConsLooks
<1>5. ConsCounts'
  BY <1>1, <1>2, <1>3 DEF IInv, ConsCounts, ConsLooks, ConsCalls
<1>6. AloneCons'
  BY <1>1, <1>2, <1>3 DEF IInv, AloneCons, ConsLooks
<1>7. Consuming'
  BY <1>1, <1>2, <1>3 DEF IInv, Consuming, ConsLooks
<1>8. ConsApart'
  <2>1. ConsApart /\ csm'[c].pc # "copy"
    BY DEF IInv, ConsLooks
  <2>. QED
    BY <1>2, <2>1 DEF ConsApart
<1>9. Counted'
  BY <1>2, <1>3 DEF IInv, Counted, ConsLooks
<1>10. (ProdCounts /\ AloneProd /\ Ordered /\ HeadCounts /\ Producing /\ ProdApart /\ Filled)'
  BY <1>3 DEF IInv, ProdCounts, AloneProd, Ordered, HeadCounts, Producing, ProdApart, Filled
<1>. QED
  BY <1>4, <1>5, <1>6, <1>7, <1>8, <1>9, <1>10 DEF IInv

LEMMA DeqCallLooks ==
    ASSUME IInv, NEW c \in Consumers, NEW n \in Batches, DeqCall(c, n)
    PROVE  ConsLooks(c)
<1>1. /\ csm \in [Consumers -> ConsCalls] /\ csm[c] \in ConsCalls
      /\ csm[c].i = 0 /\ csm[c].pc = "idle"
      /\ cons.single => c = TheOne(Consumers)
      /\ n \in 1 .. Capacity /\ n \in Batches \union {0, 1}
  BY Sizes DEF IInv, Types, ConsCounts, DeqCall, SingleCons
<1>2. csm'[c] = [csm[c] EXCEPT !.pc = "look", !.ask = n, !.old = cons.head]
  BY <1>1 DEF DeqCall
<1>3. cons.head \in Indices /\ Off(cons.head) \in Nat
  BY IndexFacts
<1>4. /\ csm'[c] \in ConsCalls /\ csm'[c].i = 0 /\ csm'[c].pc = "look"
      /\ csm'[c].ask = n /\ csm'[c].old = cons.head /\ csm'[c].counted = csm[c].counted
  BY <1>1, <1>2, <1>3 DEF ConsCalls
<1>5. ~csm[c].counted
  BY <1>1 DEF IInv, Counted
<1>6. csm' = [csm EXCEPT ![c] = csm'[c]] /\ UNCHANGED <<prod, cons, ring, prd, sent, got>>
  BY <1>1 DEF DeqCall
<1>. QED
  BY <1>1, <1>3, <1>4, <1>5, <1>6 DEF ConsLooks

\* What is counted is there, and stays: nobody else takes it.
LEMMA CountLooks ==
    ASSUME IInv, NEW c \in Consumers, Count(c)
    PROVE  ConsLooks(c)
<1>1. /\ csm \in [Consumers -> ConsCalls] /\ csm[c] \in ConsCalls
      /\ csm[c].i = 0 /\ csm[c].pc = "idle"
      /\ cons.single /\ c = TheOne(Consumers) /\ cons.head = cons.tail
  BY DEF IInv, Types, ConsCounts, AloneCons, Count, SingleCons
<1>2. csm'[c] = [csm[c] EXCEPT !.pc = "counted", !.counted = TRUE]
  BY <1>1 DEF Count
<1>3. /\ csm'[c] \in ConsCalls /\ csm'[c].i = 0 /\ csm'[c].pc = "counted"
      /\ csm'[c].counted
  BY <1>1, <1>2 DEF ConsCalls
<1>4. Off(cons.head) < Off(prod.tail)
  <2>1. /\ prod.tail \in Indices /\ cons.tail \in Indices
        /\ Off(prod.tail) \in Nat /\ Off(cons.head) \in Nat
    BY IndexFacts
  <2>2. prod.tail # cons.tail
    <3>1. SUFFICES ASSUME prod.tail = cons.tail PROVE FALSE
      OBVIOUS
    <3>2. prod.tail - cons.tail = 0
      BY <2>1, <3>1, Sizes DEF Indices
    <3>3. 0 % Size = 0
      BY Sizes
    <3>. QED
      BY <3>2, <3>3 DEF Count
  <2>3. Off(prod.tail) # Off(cons.head)
    BY <1>1, <2>1, <2>2, OffSame
  <2>. QED
    BY <2>1, <2>3 DEF IInv, Ordered
<1>5. csm' = [csm EXCEPT ![c] = csm'[c]] /\ UNCHANGED <<prod, cons, ring, prd, sent, got>>
  BY <1>1 DEF Count
<1>. QED
  BY <1>1, <1>3, <1>4, <1>5 DEF ConsLooks

LEMMA DeqCountedLooks ==
    ASSUME IInv, NEW c \in Consumers, DeqCounted(c)
    PROVE  ConsLooks(c)
<1>1. /\ csm \in [Consumers -> ConsCalls] /\ csm[c] \in ConsCalls
      /\ csm[c].i = 0 /\ csm[c].pc = "counted" /\ csm[c].counted
      /\ cons.single /\ c = TheOne(Consumers) /\ Off(cons.head) < Off(prod.tail)
  BY DEF IInv, Types, ConsCounts, Counted, DeqCounted
<1>2. csm'[c] = [csm[c] EXCEPT !.pc = "look", !.ask = 1, !.old = cons.head]
  BY <1>1 DEF DeqCounted
<1>3. /\ cons.head \in Indices /\ Off(cons.head) \in Nat /\ Off(prod.tail) \in Nat
      /\ Off(cons.tail) \in Nat /\ Off(prod.head) \in Nat
  BY IndexFacts
<1>4. /\ csm'[c] \in ConsCalls /\ csm'[c].i = 0 /\ csm'[c].pc = "look"
      /\ csm'[c].ask = 1 /\ csm'[c].old = cons.head /\ csm'[c].counted
  BY <1>1, <1>2, <1>3 DEF ConsCalls
<1>5. 1 \in 1 .. Capacity
  BY <1>1, <1>3, Sizes DEF IInv, Ordered
<1>6. csm' = [csm EXCEPT ![c] = csm'[c]] /\ UNCHANGED <<prod, cons, ring, prd, sent, got>>
  BY <1>1 DEF DeqCounted
<1>. QED
  BY <1>1, <1>3, <1>4, <1>5, <1>6 DEF ConsLooks

LEMMA MinOfTwo ==
    ASSUME NEW a \in Nat, NEW b \in Nat
    PROVE  Min({a, b}) \in {a, b} /\ Min({a, b}) <= a /\ Min({a, b}) <= b
<1>1. \E x \in {a, b} : \A y \in {a, b} : x <= y
  <2>1. CASE a <= b
    BY <2>1
  <2>2. CASE b <= a
    BY <2>2
  <2>. QED
    BY <2>1, <2>2
<1>. QED
  BY <1>1 DEF Min

\* A head that was read is not behind any of the items between the two tails
\* it is compared with.
LEMMA EntriesFacts ==
    ASSUME IInv, NEW c \in Consumers, csm[c].pc = "look"
    PROVE  Entries(csm[c].old) = Off(prod.tail) - Off(csm[c].old)
           /\ Entries(csm[c].old) \in Nat
<1>1. /\ csm[c].old \in Indices /\ prod.tail \in Indices
      /\ Off(csm[c].old) \in Nat /\ Off(prod.tail) \in Nat /\ Off(cons.head) \in Nat
  BY IndexFacts
<1>2. Off(csm[c].old) <= Off(prod.tail)
  BY <1>1 DEF IInv, Consuming, Ordered
<1>. QED
  BY <1>1, <1>2, OffMinus DEF Entries

LEMMA DeqLookLooks ==
    ASSUME IInv, NEW c \in Consumers, DeqLook(c)
    PROVE  ConsLooks(c)
<1> DEFINE m == Min({csm[c].ask, Entries(csm[c].old)})
<1>1. /\ csm \in [Consumers -> ConsCalls] /\ csm[c] \in ConsCalls
      /\ csm[c].i = 0 /\ csm[c].pc = "look" /\ csm[c].ask \in 1 .. Capacity
      /\ Entries(csm[c].old) > 0
      /\ cons.single => c = TheOne(Consumers) /\ csm[c].old = cons.head
      /\ Off(csm[c].old) <= Off(cons.head)
      /\ csm[c].counted => cons.single /\ c = TheOne(Consumers)
  BY DEF IInv, Types, ConsCounts, AloneCons, Consuming, Counted, DeqLook
<1>2. csm'[c] = [csm[c] EXCEPT !.pc = "move", !.n = m]
  BY <1>1 DEF DeqLook
<1>3. /\ Entries(csm[c].old) = Off(prod.tail) - Off(csm[c].old)
      /\ Entries(csm[c].old) \in Nat /\ csm[c].ask \in Nat
  BY <1>1, EntriesFacts, Sizes
<1>4. m \in {csm[c].ask, Entries(csm[c].old)} /\ m <= csm[c].ask /\ m <= Entries(csm[c].old)
  BY <1>3, MinOfTwo
<1>. HIDE DEF m
<1>5. m \in 0 .. Capacity /\ m > 0 /\ Capacity \in Nat
  BY <1>1, <1>3, <1>4, Sizes
<1>6. Off(csm[c].old) + m <= Off(prod.tail)
  <2>1. Off(csm[c].old) \in Nat /\ Off(prod.tail) \in Nat
    BY IndexFacts
  <2>. QED
    BY <1>3, <1>4, <1>5, <2>1
<1>7. /\ csm'[c] \in ConsCalls /\ csm'[c].i = 0 /\ csm'[c].pc = "move" /\ csm'[c].n = m
      /\ csm'[c].old = csm[c].old /\ csm'[c].counted = csm[c].counted
      /\ csm'[c].ask = csm[c].ask
  BY <1>1, <1>2, <1>5 DEF ConsCalls
<1>8. csm' = [csm EXCEPT ![c] = csm'[c]] /\ UNCHANGED <<prod, cons, ring, prd, sent, got>>
  BY <1>1 DEF DeqLook
<1>. QED
  BY <1>1, <1>5, <1>6, <1>7, <1>8 DEF ConsLooks

LEMMA DeqEmptyLooks ==
    ASSUME IInv, NEW c \in Consumers, DeqEmpty(c)
    PROVE  ConsLooks(c)
<1>1. csm \in [Consumers -> ConsCalls] /\ csm[c] \in ConsCalls /\ csm[c].pc = "look"
  BY DEF IInv, Types, DeqEmpty
<1>2. csm'[c] = [Idle(csm[c]) EXCEPT !.ask = 0, !.counted = FALSE]
  BY <1>1 DEF DeqEmpty
<1>3. /\ csm'[c] \in ConsCalls /\ csm'[c].i = 0 /\ csm'[c].pc = "idle"
      /\ ~csm'[c].counted
  <2>1. 0 \in 0 .. Capacity /\ 0 \in Indices /\ 0 \in Nat
    BY Sizes DEF Indices
  <2>. QED
    BY <1>1, <1>2, <2>1 DEF ConsCalls, Idle
<1>4. csm' = [csm EXCEPT ![c] = csm'[c]] /\ UNCHANGED <<prod, cons, ring, prd, sent, got>>
  BY <1>1 DEF DeqEmpty
<1>. QED
  BY <1>1, <1>3, <1>4 DEF ConsLooks

LEMMA DeqRetryLooks ==
    ASSUME IInv, NEW c \in Consumers, DeqRetry(c)
    PROVE  ConsLooks(c)
<1>1. /\ csm \in [Consumers -> ConsCalls] /\ csm[c] \in ConsCalls
      /\ csm[c].pc = "move" /\ ~cons.single /\ csm[c].i = 0 /\ ~csm[c].counted
  BY DEF IInv, Types, ConsCounts, Counted, DeqRetry, SingleCons
<1>2. csm'[c] = [csm[c] EXCEPT !.pc = "look", !.n = 0, !.old = cons.head]
  BY <1>1 DEF DeqRetry
<1>3. cons.head \in Indices /\ Off(cons.head) \in Nat /\ 0 \in 0 .. Capacity
  BY IndexFacts, Sizes
<1>4. /\ csm'[c] \in ConsCalls /\ csm'[c].i = 0 /\ csm'[c].pc = "look"
      /\ csm'[c].ask = csm[c].ask /\ csm'[c].old = cons.head /\ ~csm'[c].counted
  BY <1>1, <1>2, <1>3 DEF ConsCalls
<1>5. csm' = [csm EXCEPT ![c] = csm'[c]] /\ UNCHANGED <<prod, cons, ring, prd, sent, got>>
  BY <1>1 DEF DeqRetry
<1>6. csm[c].ask \in 1 .. Capacity
  BY <1>1 DEF IInv, ConsCounts
<1>. QED
  BY <1>1, <1>3, <1>4, <1>5, <1>6 DEF ConsLooks

\* A consumer that is to move a side's index is the next in turn.
LEMMA DeqMoveFacts ==
    ASSUME IInv, NEW c \in Consumers, DeqMove(c)
    PROVE  /\ csm[c].old = cons.head /\ csm[c].pc = "move" /\ csm[c].n > 0
           /\ Off(cons.head) + csm[c].n <= Off(prod.tail)
           /\ cons.single => c = TheOne(Consumers) /\ cons.tail = cons.head
           /\ cons'.head \in Indices /\ Off(cons'.head) = Off(cons.head) + csm[c].n
           /\ cons'.tail = cons.tail /\ cons'.single = cons.single
<1>1. /\ csm[c].pc = "move" /\ (cons.single \/ cons.head = csm[c].old)
      /\ cons' = [cons EXCEPT !.head = (csm[c].old + csm[c].n) % Width]
  BY DEF DeqMove, SingleCons
<1>2. csm[c].old = cons.head /\ (cons.single => c = TheOne(Consumers) /\ cons.tail = cons.head)
  BY <1>1 DEF IInv, AloneCons
<1>3. csm[c].n > 0 /\ Off(cons.head) + csm[c].n <= Off(prod.tail)
  BY <1>1, <1>2 DEF IInv, ConsCounts, Consuming
<1>4. /\ cons.head \in Indices /\ csm[c].n \in Nat /\ Off(cons.head) + csm[c].n < Width
      /\ cons \in Sides
  <2>1. /\ cons.head \in Indices /\ csm[c].n \in Nat /\ Off(cons.head) \in Nat
        /\ Off(prod.tail) \in Nat /\ Off(prod.tail) < Width
    BY IndexFacts
  <2>. QED
    BY <1>3, <2>1, Sizes DEF IInv, Types
<1>5. /\ (cons.head + csm[c].n) % Width \in Indices
      /\ Off((cons.head + csm[c].n) % Width) = Off(cons.head) + csm[c].n
  BY <1>4, OffPlus
<1>6. /\ cons'.head = (cons.head + csm[c].n) % Width
      /\ cons'.tail = cons.tail /\ cons'.single = cons.single
  BY <1>1, <1>2, <1>4 DEF Sides
<1>. QED
  BY <1>1, <1>2, <1>3, <1>5, <1>6

LEMMA DeqMoveKeeps ==
    ASSUME IInv, NEW c \in Consumers, DeqMove(c)
    PROVE  IInv'
<1> DEFINE n == csm[c].n
<1>1. /\ csm \in [Consumers -> ConsCalls] /\ csm[c] \in ConsCalls /\ cons \in Sides
      /\ n \in Nat /\ csm[c].i = 0 /\ got \in [Consumers -> Seq(Items \union {Empty})]
      /\ UNCHANGED <<prod, ring, prd, sent>>
      /\ csm' = [csm EXCEPT ![c].pc = "copy"] /\ got' = [got EXCEPT ![c] = <<>>]
      /\ cons' = [cons EXCEPT !.head = (csm[c].old + csm[c].n) % Width]
  BY IndexFacts DEF IInv, Types, ConsCounts, DeqMove
<1>2. /\ csm[c].old = cons.head /\ n > 0 /\ Off(cons.head) + n <= Off(prod.tail)
      /\ cons.single => c = TheOne(Consumers) /\ cons.tail = cons.head
      /\ cons'.head \in Indices /\ Off(cons'.head) = Off(cons.head) + n
      /\ cons'.tail = cons.tail /\ cons'.single = cons.single
  BY DeqMoveFacts
<1>3. /\ csm'[c] = [csm[c] EXCEPT !.pc = "copy"]
      /\ \A d \in Consumers : d # c => csm'[d] = csm[d]
  BY <1>1
<1>4. /\ csm'[c] \in ConsCalls /\ csm'[c].pc = "copy" /\ csm'[c].n = n
      /\ csm'[c].i = 0 /\ csm'[c].old = cons.head /\ csm'[c].counted = csm[c].counted
  BY <1>1, <1>2, <1>3 DEF ConsCalls
<1>5. cons' \in Sides
  BY <1>1, <1>2 DEF Sides
<1>6. Types'
  <2>1. <<>> \in Seq(Items \union {Empty})
    OBVIOUS
  <2>2. got' \in [Consumers -> Seq(Items \union {Empty})]
    BY <1>1, <2>1
  <2>. QED
    BY <1>1, <1>4, <1>5, <2>2 DEF IInv, Types
<1>7. /\ \A d \in Consumers : Off(csm[d].old) \in Nat /\ csm[d].n \in Nat
      /\ Off(prod.head) \in Nat /\ Off(prod.tail) \in Nat /\ Off(cons.tail) \in Nat
      /\ Off(cons.head) \in Nat /\ Off(cons.tail) <= Off(cons.head)
  BY IndexFacts DEF IInv, Ordered
<1>. HIDE DEF n
<1>8. ConsCounts'
  BY <1>1, <1>2, <1>3, <1>4 DEF IInv, ConsCounts
<1>9. AloneCons'
  <2>1. SUFFICES ASSUME cons.single
        PROVE  /\ csm'[c].old = cons'.tail /\ Off(csm'[c].old) + csm'[c].n = Off(cons'.head)
               /\ \A d \in Consumers : d # c => csm'[d].pc = "idle"
    BY <1>2, <1>4 DEF AloneCons
  <2>2. \A d \in Consumers : d # c => csm[d].pc = "idle"
    BY <1>2, <2>1 DEF IInv, AloneCons
  <2>3. csm'[c].old = cons'.tail /\ Off(csm'[c].old) + csm'[c].n = Off(cons'.head)
    BY <1>2, <1>4, <2>1
  <2>. QED
    BY <1>3, <2>2, <2>3
<1>10. Ordered'
  BY <1>1, <1>2, <1>7 DEF IInv, Ordered
<1>11. Consuming'
  <2>1. SUFFICES ASSUME NEW d \in Consumers
        PROVE  /\ csm'[d].pc \in {"look", "move"} => Off(csm'[d].old) <= Off(cons.head) + n
               /\ csm'[d].pc = "move" => Off(csm'[d].old) + csm'[d].n <= Off(prod.tail)
               /\ csm'[d].pc = "copy" =>
                    /\ Off(cons.tail) <= Off(csm'[d].old)
                    /\ Off(csm'[d].old) + csm'[d].n <= Off(cons.head) + n
    BY <1>1, <1>2 DEF Consuming
  <2>2. CASE d = c
    BY <1>1, <1>4, <1>7, <2>2
  <2>3. CASE d # c
    BY <1>1, <1>3, <1>7, <2>3 DEF IInv, Consuming
  <2>. QED
    BY <2>2, <2>3
<1>12. ConsApart'
  <2>1. \A d \in Consumers : d # c /\ csm[d].pc = "copy" =>
           Off(csm[d].old) + csm[d].n <= Off(cons.head)
    BY DEF IInv, Consuming
  <2>2. \A d \in Consumers : d # c /\ csm'[d].pc = "copy" =>
           Apart(csm'[c], csm'[d]) /\ Apart(csm'[d], csm'[c])
    BY <1>3, <1>4, <2>1 DEF Apart
  <2>3. \A d, e \in Consumers :
           d # e /\ d # c /\ e # c /\ csm'[d].pc = "copy" /\ csm'[e].pc = "copy"
              => Apart(csm'[d], csm'[e])
    BY <1>3 DEF IInv, ConsApart
  <2>. QED
    BY <2>2, <2>3 DEF ConsApart
<1>13. Counted'
  <2>1. ASSUME NEW d \in Consumers, csm[d].counted, d # c PROVE FALSE
    <3>1. cons.single /\ d = TheOne(Consumers)
      BY <2>1 DEF IInv, Counted
    <3>. QED
      BY <1>2, <2>1, <3>1
  <2>. QED
    BY <1>2, <1>3, <1>4, <2>1 DEF IInv, Counted
<1>14. (ProdCounts /\ AloneProd /\ HeadCounts /\ Producing /\ ProdApart /\ Filled)'
  BY <1>1, <1>2 DEF IInv, ProdCounts, AloneProd, HeadCounts, Producing, ProdApart, Filled
<1>. QED
  BY <1>6, <1>8, <1>9, <1>10, <1>11, <1>12, <1>13, <1>14 DEF IInv

\* What a consumer copies comes from the entry of its item.
LEMMA DeqCopyFacts ==
    ASSUME IInv, NEW c \in Consumers, DeqCopy(c)
    PROVE  LET a == Off(csm[c].old) + csm[c].i IN
           /\ a \in Nat /\ csm[c].pc = "copy" /\ csm[c].i < csm[c].n
           /\ got' = [got EXCEPT ![c] = Append(@, ring[Slot(a)])]
           /\ ring[Slot(a)] \in Items \union {Empty}
<1> DEFINE a == Off(csm[c].old) + csm[c].i
<1>1. /\ csm[c].pc = "copy" /\ csm[c].i < csm[c].n /\ csm[c].old \in Indices
      /\ csm[c].n \in Nat /\ csm[c].i \in Nat /\ csm[c].n <= Capacity
      /\ Off(csm[c].old) \in Nat /\ Capacity \in Nat
      /\ ring \in [0 .. Size - 1 -> Items \union {Empty}]
  BY IndexFacts, Sizes DEF DeqCopy, IInv, Types
<1>2. a \in Nat /\ csm[c].n \in 0 .. Capacity /\ csm[c].i \in 0 .. csm[c].n - 1
  BY <1>1
<1>3. Entry(csm[c].old, csm[c].n, csm[c].i) = Slot(a)
  BY <1>1, <1>2, EntrySlot
<1>4. Slot(a) \in 0 .. Size - 1
  BY <1>2, SlotIn
<1>. HIDE DEF a
<1>5. got' = [got EXCEPT ![c] = Append(@, ring[Slot(a)])]
  BY <1>3 DEF DeqCopy
<1>. QED
  BY <1>1, <1>2, <1>4, <1>5 DEF a

LEMMA DeqCopyKeeps ==
    ASSUME IInv, NEW c \in Consumers, DeqCopy(c)
    PROVE  IInv'
<1> DEFINE a == Off(csm[c].old) + csm[c].i
<1>1. /\ csm \in [Consumers -> ConsCalls] /\ csm[c] \in ConsCalls
      /\ got \in [Consumers -> Seq(Items \union {Empty})]
      /\ UNCHANGED <<prod, cons, ring, prd, sent>>
      /\ csm' = [csm EXCEPT ![c].i = @ + 1]
  BY DEF IInv, Types, DeqCopy
<1>2. /\ csm[c].pc = "copy" /\ csm[c].i < csm[c].n
      /\ got' = [got EXCEPT ![c] = Append(@, ring[Slot(a)])]
      /\ ring[Slot(a)] \in Items \union {Empty}
  BY DeqCopyFacts
<1>3. /\ csm'[c] = [csm[c] EXCEPT !.i = @ + 1]
      /\ \A d \in Consumers : d # c => csm'[d] = csm[d]
  BY <1>1
<1>4. csm[c].i \in Nat /\ csm[c].n \in Nat
  BY IndexFacts
<1>5. /\ csm'[c] \in ConsCalls /\ csm'[c].pc = "copy" /\ csm'[c].n = csm[c].n
      /\ csm'[c].i = csm[c].i + 1 /\ csm'[c].old = csm[c].old
      /\ csm'[c].counted = csm[c].counted
  <2>1. csm[c].i + 1 \in Nat
    BY <1>4
  <2>. QED
    BY <1>1, <1>2, <1>3, <2>1 DEF ConsCalls
<1>6. Types'
  <2> DEFINE x == ring[Slot(a)]
  <2>1. got[c] \in Seq(Items \union {Empty}) /\ x \in Items \union {Empty}
    BY <1>1, <1>2
  <2>. HIDE DEF x
  <2>2. Append(got[c], x) \in Seq(Items \union {Empty})
    BY <2>1
  <2>3. got' \in [Consumers -> Seq(Items \union {Empty})]
    BY <1>1, <1>2, <2>2 DEF x
  <2>. QED
    BY <1>1, <1>5, <2>3 DEF IInv, Types
<1>7. ConsCounts'
  BY <1>1, <1>2, <1>3, <1>4, <1>5 DEF IInv, ConsCounts
<1>8. AloneCons'
  BY <1>1, <1>2, <1>3, <1>5 DEF IInv, AloneCons
<1>9. Consuming'
  BY <1>1, <1>2, <1>3, <1>5 DEF IInv, Consuming
<1>10. ConsApart'
  BY <1>1, <1>2, <1>3, <1>5 DEF IInv, ConsApart, Apart
<1>11. Counted'
  BY <1>1, <1>2, <1>3, <1>5 DEF IInv, Counted
<1>12. (ProdCounts /\ AloneProd /\ Ordered /\ HeadCounts /\ Producing /\ ProdApart /\ Filled)'
  BY <1>1 DEF IInv, ProdCounts, AloneProd, Ordered, HeadCounts, Producing, ProdApart, Filled
<1>. QED
  BY <1>6, <1>7, <1>8, <1>9, <1>10, <1>11, <1>12 DEF IInv

LEMMA DeqDoneFacts ==
    ASSUME IInv, NEW c \in Consumers, DeqDone(c)
    PROVE  /\ csm[c].old = cons.tail /\ csm[c].pc = "copy" /\ csm[c].i = csm[c].n
           /\ csm[c].n > 0 /\ Off(cons.tail) + csm[c].n <= Off(cons.head)
           /\ cons.single =>
                 c = TheOne(Consumers) /\ Off(cons.tail) + csm[c].n = Off(cons.head)
           /\ cons'.tail \in Indices /\ Off(cons'.tail) = Off(cons.tail) + csm[c].n
           /\ cons'.head = cons.head /\ cons'.single = cons.single
<1>1. /\ csm[c].pc = "copy" /\ csm[c].i = csm[c].n
      /\ cons.single \/ cons.tail = csm[c].old
      /\ cons' = [cons EXCEPT !.tail = (csm[c].old + csm[c].n) % Width]
  BY DEF DeqDone, SingleCons
<1>2. /\ csm[c].old = cons.tail
      /\ cons.single =>
            c = TheOne(Consumers) /\ Off(cons.tail) + csm[c].n = Off(cons.head)
  BY <1>1 DEF IInv, AloneCons
<1>3. csm[c].n > 0 /\ Off(cons.tail) + csm[c].n <= Off(cons.head)
  BY <1>1, <1>2 DEF IInv, ConsCounts, Consuming
<1>4. /\ cons.tail \in Indices /\ csm[c].n \in Nat /\ Off(cons.tail) + csm[c].n < Width
      /\ cons \in Sides
  <2>1. /\ cons.tail \in Indices /\ csm[c].n \in Nat /\ Off(cons.tail) \in Nat
        /\ Off(cons.head) \in Nat /\ Off(cons.head) < Width
    BY IndexFacts
  <2>. QED
    BY <1>3, <2>1, Sizes DEF IInv, Types
<1>5. /\ (cons.tail + csm[c].n) % Width \in Indices
      /\ Off((cons.tail + csm[c].n) % Width) = Off(cons.tail) + csm[c].n
  BY <1>4, OffPlus
<1>6. /\ cons'.tail = (cons.tail + csm[c].n) % Width
      /\ cons'.head = cons.head /\ cons'.single = cons.single
  BY <1>1, <1>2, <1>4 DEF Sides
<1>. QED
  BY <1>1, <1>2, <1>3, <1>5, <1>6

LEMMA DeqDoneKeeps ==
    ASSUME IInv, NEW c \in Consumers, DeqDone(c)
    PROVE  IInv'
<1> DEFINE n == csm[c].n
<1>1. /\ csm \in [Consumers -> ConsCalls] /\ cons \in Sides /\ n \in Nat
      /\ UNCHANGED <<prod, ring, prd, sent, got>>
      /\ csm' = [csm EXCEPT ![c] = [Idle(@) EXCEPT !.ask = 0, !.counted = FALSE]]
      /\ cons' = [cons EXCEPT !.tail = (csm[c].old + csm[c].n) % Width]
  BY IndexFacts DEF IInv, Types, DeqDone
<1>2. /\ csm[c].old = cons.tail /\ csm[c].pc = "copy" /\ n > 0
      /\ Off(cons.tail) + n <= Off(cons.head)
      /\ cons.single => c = TheOne(Consumers) /\ Off(cons.tail) + n = Off(cons.head)
      /\ cons'.tail \in Indices /\ Off(cons'.tail) = Off(cons.tail) + n
      /\ cons'.head = cons.head /\ cons'.single = cons.single
  BY DeqDoneFacts
<1>3. /\ csm'[c] = [Idle(csm[c]) EXCEPT !.ask = 0, !.counted = FALSE]
      /\ \A d \in Consumers : d # c => csm'[d] = csm[d]
  BY <1>1
<1>4. /\ csm'[c] \in ConsCalls /\ csm'[c].pc = "idle" /\ csm'[c].i = 0 /\ csm'[c].n = 0
      /\ ~csm'[c].counted
  <2>1. 0 \in 0 .. Capacity /\ 0 \in Indices /\ 0 \in Nat /\ csm[c] \in ConsCalls
    BY <1>1, Sizes DEF Indices
  <2>. QED
    BY <1>3, <2>1 DEF ConsCalls, Idle
<1>5. cons' \in Sides
  BY <1>1, <1>2 DEF Sides
<1>6. Types'
  BY <1>1, <1>4, <1>5 DEF IInv, Types
<1>7. ConsCounts'
  BY <1>1, <1>3, <1>4 DEF IInv, ConsCounts
<1>8. /\ \A d \in Consumers : Off(csm[d].old) \in Nat /\ csm[d].n \in Nat
      /\ \A p \in Producers : Off(prd[p].old) \in Nat /\ prd[p].n \in Nat
      /\ Off(prod.head) \in Nat /\ Off(prod.tail) \in Nat /\ Off(cons.tail) \in Nat
      /\ Off(cons.head) \in Nat /\ cons.head \in Indices /\ Capacity \in Nat
  BY IndexFacts, Sizes
<1>. HIDE DEF n
<1>9. AloneCons'
  <2>1. SUFFICES ASSUME cons.single
        PROVE  /\ cons'.head = cons'.tail
               /\ \A d \in Consumers : csm'[d].pc = "idle"
    BY <1>2 DEF AloneCons
  <2>2. cons'.head = cons'.tail
    BY <1>2, <1>8, <2>1, OffSame
  <2>3. \A d \in Consumers : d # c => csm[d].pc = "idle"
    BY <1>2, <2>1 DEF IInv, AloneCons
  <2>. QED
    BY <1>3, <1>4, <2>2, <2>3
<1>10. Ordered'
  BY <1>1, <1>2, <1>8 DEF IInv, Ordered
<1>11. Consuming'
  <2>1. SUFFICES ASSUME NEW d \in Consumers, d # c
        PROVE  /\ csm[d].pc \in {"look", "move"} => Off(csm[d].old) <= Off(cons.head)
               /\ csm[d].pc = "move" => Off(csm[d].old) + csm[d].n <= Off(prod.tail)
               /\ csm[d].pc = "copy" =>
                    /\ Off(cons.tail) + n <= Off(csm[d].old)
                    /\ Off(csm[d].old) + csm[d].n <= Off(cons.head)
    BY <1>1, <1>2, <1>3, <1>4 DEF Consuming
  <2>2. ASSUME csm[d].pc = "copy" PROVE Off(cons.tail) + n <= Off(csm[d].old)
    <3>1. Apart(csm[c], csm[d]) /\ Off(cons.tail) <= Off(csm[d].old) /\ csm[d].n > 0
      BY <1>2, <2>1, <2>2 DEF IInv, ConsApart, Consuming, ConsCounts
    <3>. QED
      BY <1>1, <1>2, <1>8, <3>1 DEF Apart, n
  <2>. QED
    BY <2>2 DEF IInv, Consuming
<1>12. ConsApart'
  BY <1>3, <1>4 DEF IInv, ConsApart
<1>13. Producing'
  <2>1. SUFFICES ASSUME NEW p \in Producers, prd[p].pc = "move", prd[p].old = prod.head
        PROVE  Off(prod.head) + prd[p].n <= Off(cons.tail) + n + Capacity
    BY <1>1, <1>2 DEF IInv, Producing
  <2>2. Off(prod.head) + prd[p].n <= Off(cons.tail) + Capacity
    BY <2>1 DEF IInv, Producing
  <2>. QED
    BY <1>1, <1>8, <2>2
<1>14. Counted'
  BY <1>1, <1>2, <1>3, <1>4 DEF IInv, Counted
<1>15. (ProdCounts /\ AloneProd /\ HeadCounts /\ ProdApart /\ Filled)'
  BY <1>1 DEF IInv, ProdCounts, AloneProd, HeadCounts, ProdApart, Filled
<1>. QED
  BY <1>6, <1>7, <1>9, <1>10, <1>11, <1>12, <1>13, <1>14, <1>15 DEF IInv

-----------------------------------------------------------------------------
(* The invariant. *)

LEMMA InitSound == Init => IInv
<1>. SUFFICES ASSUME Init PROVE IInv
  OBVIOUS
<1>1. /\ Start \in Indices /\ Off(Start) = 0 /\ 0 \in Indices /\ 0 \in 0 .. Capacity
      /\ Capacity \in Nat /\ Quota \in Nat
  BY OffStart, Sizes DEF Indices
<1>2. Types
  <2>1. prod \in Sides /\ cons \in Sides
    BY <1>1 DEF Init, Sides
  <2>2. prd \in [Producers -> ProdCalls]
    BY <1>1 DEF Init, ProdCalls
  <2>3. csm \in [Consumers -> ConsCalls]
    BY <1>1 DEF Init, ConsCalls
  <2>4. got \in [Consumers -> Seq(Items \union {Empty})]
    BY DEF Init
  <2>. QED
    BY <1>1, <2>1, <2>2, <2>3, <2>4 DEF Init, Types
<1>3. /\ \A p \in Producers : prd[p].pc = "idle" /\ prd[p].n = 0 /\ prd[p].i = 0
      /\ \A c \in Consumers : /\ csm[c].pc = "idle" /\ csm[c].n = 0 /\ csm[c].i = 0
                              /\ ~csm[c].counted
      /\ prod.head = Start /\ prod.tail = Start /\ cons.head = Start /\ cons.tail = Start
      /\ \A p \in Producers : sent[p] = 0
  BY DEF Init
<1>4. HeadCounts
  <2>1. Reserved(sent) = {}
    BY <1>3 DEF Reserved, Items
  <2>. QED
    BY <1>1, <1>3, <2>1, FS_EmptySet DEF HeadCounts
<1>5. ProdCounts /\ ConsCounts /\ AloneProd /\ AloneCons
  BY <1>3 DEF ProdCounts, ConsCounts, AloneProd, AloneCons
<1>6. Ordered
  BY <1>1, <1>3 DEF Ordered
<1>7. Producing /\ ProdApart /\ Filled /\ Consuming /\ ConsApart /\ Counted
  BY <1>3 DEF Producing, ProdApart, Filled, Consuming, ConsApart, Counted
<1>. QED
  BY <1>2, <1>4, <1>5, <1>6, <1>7 DEF IInv

LEMMA StepKeeps == IInv /\ [Next]_vars => IInv'
<1>. SUFFICES ASSUME IInv, [Next]_vars PROVE IInv'
  OBVIOUS
<1>1. CASE UNCHANGED vars
  <2>1. /\ UNCHANGED <<prod, cons, ring, prd>>
        /\ UNCHANGED <<csm, sent, got>>
    BY <1>1 DEF vars
  <2>2. (Types /\ ProdCounts /\ ConsCounts /\ AloneProd /\ AloneCons /\ Ordered /\ HeadCounts)'
    BY <2>1 DEF IInv, Types, ProdCounts, ConsCounts, AloneProd, AloneCons, Ordered, HeadCounts
  <2>3. (Producing /\ ProdApart /\ Filled /\ Consuming /\ ConsApart /\ Counted)'
    BY <2>1 DEF IInv, Producing, ProdApart, Filled, Consuming, ConsApart, Counted
  <2>. QED
    BY <2>2, <2>3 DEF IInv
<1>2. ASSUME NEW p \in Producers, Enq(p) PROVE IInv'
  BY <1>2, EnqRoomLooks, EnqFullLooks, EnqRetryLooks, ProdLooksKeeps, EnqMoveKeeps,
     EnqCopyKeeps, EnqDoneKeeps DEF Enq
<1>3. ASSUME NEW p \in Producers, NEW n \in Batches, EnqCall(p, n) PROVE IInv'
  BY <1>3, EnqCallLooks, ProdLooksKeeps
<1>4. ASSUME NEW c \in Consumers, Deq(c) PROVE IInv'
  BY <1>4, DeqCountedLooks, DeqLookLooks, DeqEmptyLooks, DeqRetryLooks, ConsLooksKeeps,
     DeqMoveKeeps, DeqCopyKeeps, DeqDoneKeeps DEF Deq
<1>5. ASSUME NEW c \in Consumers, Count(c) PROVE IInv'
  BY <1>5, CountLooks, ConsLooksKeeps
<1>6. ASSUME NEW c \in Consumers, NEW n \in Batches, DeqCall(c, n) PROVE IInv'
  BY <1>6, DeqCallLooks, ConsLooksKeeps
<1>. QED
  BY <1>1, <1>2, <1>3, <1>4, <1>5, <1>6 DEF Next

\* The inductive invariant holds in every reachable state of the ring.
THEOREM Invariance == Spec => []IInv
BY InitSound, StepKeeps, PTL DEF Spec

\* Heads and tails are indices, and a call is at one of its steps.
THEOREM TypeCorrect == Spec => []TypeOK
<1>1. IInv => TypeOK
  <2>. SUFFICES ASSUME IInv PROVE TypeOK
    OBVIOUS
  <2>1. \A p \in Producers :
           /\ prd[p].pc \in Pcs /\ prd[p].n \in 0 .. Capacity
           /\ prd[p].old \in Indices /\ prd[p].i \in 0 .. prd[p].n
    BY IndexFacts DEF IInv, Types, ProdCalls, Pcs
  <2>2. \A c \in Consumers :
           /\ csm[c].pc \in Pcs /\ csm[c].n \in 0 .. Capacity
           /\ csm[c].old \in Indices /\ csm[c].i \in 0 .. csm[c].n
           /\ csm[c].ask \in Batches \union {0, 1}
    BY IndexFacts DEF IInv, Types, ConsCalls, Pcs
  <2>. QED
    BY <2>1, <2>2 DEF IInv, Types, Sides, Items, TypeOK
<1>. QED
  BY <1>1, Invariance, PTL

\* What the algorithm thread has counted in the ring it finds there.
THEOREM CountedCorrect == Spec => []CountedIsThere
<1>1. IInv => CountedIsThere
  <2>. SUFFICES ASSUME IInv, NEW c \in Consumers, csm[c].counted, csm[c].pc = "look"
       PROVE  Entries(csm[c].old) > 0
    BY DEF CountedIsThere
  <2>1. Off(cons.head) < Off(prod.tail) /\ Off(csm[c].old) <= Off(cons.head)
    BY DEF IInv, Counted, Consuming
  <2>2. Off(cons.head) \in Nat /\ Off(prod.tail) \in Nat /\ Off(csm[c].old) \in Nat
    BY IndexFacts
  <2>. QED
    BY <2>1, <2>2, EntriesFacts
<1>. QED
  BY <1>1, Invariance, PTL

-----------------------------------------------------------------------------
(* The ring is a bounded queue. *)

Values == Items \union {Empty}

LEMMA ContentFacts ==
    ASSUME NEW r \in [0 .. Size - 1 -> Values], NEW a \in Nat, NEW b \in Nat, a <= b
    PROVE  /\ Content(r, a, b) \in Seq(Values) /\ Len(Content(r, a, b)) = b - a
           /\ \A i \in 1 .. b - a : Content(r, a, b)[i] = r[Slot(a + i - 1)]
<1> DEFINE f == Content(r, a, b)
<1>1. b - a \in Nat
  OBVIOUS
<1>2. \A i \in 1 .. b - a : r[Slot(a + i - 1)] \in Values
  <2>1. \A i \in 1 .. b - a : a + i - 1 \in Nat
    OBVIOUS
  <2>2. \A i \in 1 .. b - a : Slot(a + i - 1) \in 0 .. Size - 1
    BY <2>1, SlotIn
  <2>. QED
    BY <2>2
<1>3. f \in [1 .. b - a -> Values]
  BY <1>2 DEF Content
<1>4. \A i \in 1 .. b - a : f[i] = r[Slot(a + i - 1)]
  BY DEF Content
<1>. HIDE DEF f
<1>5. f \in Seq(Values) /\ Len(f) = b - a
  BY <1>1, <1>3, FunctionIsSeq
<1>. QED
  BY <1>4, <1>5 DEF f

\* Two rings with the same items there.
LEMMA ContentSame ==
    ASSUME NEW r, NEW s, NEW a \in Nat, NEW b \in Nat,
           \A x \in Nat : a <= x /\ x < b => r[Slot(x)] = s[Slot(x)]
    PROVE  Content(r, a, b) = Content(s, a, b)
<1>1. \A i \in 1 .. b - a : a + i - 1 \in Nat /\ a <= a + i - 1 /\ a + i - 1 < b
  OBVIOUS
<1>2. \A i \in 1 .. b - a : r[Slot(a + i - 1)] = s[Slot(a + i - 1)]
  BY <1>1
<1>. QED
  BY <1>2 DEF Content

\* The content in two parts.
LEMMA ContentJoined ==
    ASSUME NEW r \in [0 .. Size - 1 -> Values],
           NEW a \in Nat, NEW m \in Nat, NEW b \in Nat, a <= m, m <= b
    PROVE  Content(r, a, m) \o Content(r, m, b) = Content(r, a, b)
<1> DEFINE u == Content(r, a, m)
           v == Content(r, m, b)
           w == Content(r, a, b)
<1>1. /\ u \in Seq(Values) /\ Len(u) = m - a
      /\ \A i \in 1 .. m - a : u[i] = r[Slot(a + i - 1)]
  BY ContentFacts
<1>2. /\ v \in Seq(Values) /\ Len(v) = b - m
      /\ \A i \in 1 .. b - m : v[i] = r[Slot(m + i - 1)]
  BY ContentFacts
<1>3. /\ w \in Seq(Values) /\ Len(w) = b - a
      /\ \A i \in 1 .. b - a : w[i] = r[Slot(a + i - 1)]
  <2>1. a <= b
    OBVIOUS
  <2>. QED
    BY <2>1, ContentFacts
<1>. HIDE DEF u, v, w
<1>4. u \o v = w
  <2>1. /\ u \o v \in Seq(Values) /\ Len(u \o v) = Len(u) + Len(v)
        /\ \A i \in 1 .. Len(u) + Len(v) :
              (u \o v)[i] = IF i <= Len(u) THEN u[i] ELSE v[i - Len(u)]
    BY <1>1, <1>2, ConcatProperties
  <2> DEFINE s == u \o v
  <2>2. s \in Seq(Values) /\ Len(s) = b - a
    BY <1>1, <1>2, <2>1
  <2>3. ASSUME NEW i \in 1 .. b - a PROVE s[i] = w[i]
    <3>1. CASE i <= m - a
      <4>1. i \in 1 .. m - a /\ i \in 1 .. Len(u) + Len(v)
        BY <1>1, <1>2, <3>1
      <4>. QED
        BY <1>1, <1>2, <1>3, <2>1, <3>1, <4>1
    <3>2. CASE ~(i <= m - a)
      <4>1. /\ i - (m - a) \in 1 .. b - m /\ i \in 1 .. Len(u) + Len(v)
            /\ m + (i - (m - a)) - 1 = a + i - 1
        BY <1>1, <1>2, <3>2
      <4>2. s[i] = v[i - (m - a)]
        BY <1>1, <2>1, <3>2, <4>1
      <4>. QED
        BY <1>2, <1>3, <4>1, <4>2
    <3>. QED
      BY <3>1, <3>2
  <2>. HIDE DEF s
  <2>4. s = w
    BY <1>3, <2>2, <2>3, SeqEqual
  <2>. QED
    BY <2>4 DEF s
<1>. QED
  BY <1>4 DEF u, v, w

LEMMA ContentFirst ==
    ASSUME NEW r \in [0 .. Size - 1 -> Values],
           NEW a \in Nat, NEW m \in Nat, NEW b \in Nat, a <= m, m <= b
    PROVE  SubSeq(Content(r, a, b), 1, m - a) = Content(r, a, m)
<1> DEFINE u == Content(r, a, m)
           w == Content(r, a, b)
<1>1. /\ u \in Seq(Values) /\ Len(u) = m - a
      /\ \A i \in 1 .. m - a : u[i] = r[Slot(a + i - 1)]
  BY ContentFacts
<1>3. /\ w \in Seq(Values) /\ Len(w) = b - a
      /\ \A i \in 1 .. b - a : w[i] = r[Slot(a + i - 1)]
  <2>1. a <= b
    OBVIOUS
  <2>. QED
    BY <2>1, ContentFacts
<1>. HIDE DEF u, w
<1>5. SubSeq(w, 1, m - a) = u
  <2> DEFINE s == SubSeq(w, 1, m - a)
  <2>1. \A i \in 1 .. m - a : w[i] \in Values
    BY <1>3, ElementOfSeq
  <2>2. /\ s \in Seq(Values) /\ Len(s) = IF 1 <= m - a THEN m - a - 1 + 1 ELSE 0
        /\ \A i \in 1 .. m - a - 1 + 1 : s[i] = w[1 + i - 1]
    BY <2>1, SubSeqProperties
  <2>. HIDE DEF s
  <2>3. Len(s) = m - a
    BY <2>2
  <2>4. ASSUME NEW i \in 1 .. m - a PROVE s[i] = u[i]
    <3>1. i \in 1 .. m - a - 1 + 1 /\ 1 + i - 1 = i /\ i \in 1 .. b - a
      OBVIOUS
    <3>. QED
      BY <1>1, <1>3, <2>2, <3>1
  <2>5. s = u
    BY <1>1, <2>2, <2>3, <2>4, SeqEqual
  <2>. QED
    BY <2>5 DEF s
<1>. QED
  BY <1>5 DEF u, w

LEMMA ContentRest ==
    ASSUME NEW r \in [0 .. Size - 1 -> Values],
           NEW a \in Nat, NEW m \in Nat, NEW b \in Nat, a <= m, m <= b
    PROVE  SubSeq(Content(r, a, b), m - a + 1, b - a) = Content(r, m, b)
<1> DEFINE v == Content(r, m, b)
           w == Content(r, a, b)
<1>2. /\ v \in Seq(Values) /\ Len(v) = b - m
      /\ \A i \in 1 .. b - m : v[i] = r[Slot(m + i - 1)]
  BY ContentFacts
<1>3. /\ w \in Seq(Values) /\ Len(w) = b - a
      /\ \A i \in 1 .. b - a : w[i] = r[Slot(a + i - 1)]
  <2>1. a <= b
    OBVIOUS
  <2>. QED
    BY <2>1, ContentFacts
<1>. HIDE DEF v, w
<1>6. SubSeq(w, m - a + 1, b - a) = v
  <2> DEFINE s == SubSeq(w, m - a + 1, b - a)
             k == m - a + 1
  <2>1. \A i \in k .. b - a : w[i] \in Values
    BY <1>3, ElementOfSeq
  <2>2. k \in Int /\ b - a \in Int
    OBVIOUS
  <2>. HIDE DEF k
  <2>3. /\ SubSeq(w, k, b - a) \in Seq(Values)
        /\ Len(SubSeq(w, k, b - a)) = IF k <= b - a THEN b - a - k + 1 ELSE 0
        /\ \A i \in 1 .. b - a - k + 1 : SubSeq(w, k, b - a)[i] = w[k + i - 1]
    BY <2>1, <2>2, SubSeqProperties
  <2>4. s = SubSeq(w, k, b - a)
    BY DEF k
  <2>. HIDE DEF s
  <2>5. s \in Seq(Values) /\ Len(s) = b - m
    BY <2>3, <2>4 DEF k
  <2>6. ASSUME NEW i \in 1 .. b - m PROVE s[i] = v[i]
    <3>1. i \in 1 .. b - a - k + 1 /\ k + i - 1 \in 1 .. b - a /\ a + (k + i - 1) - 1 = m + i - 1
      BY DEF k
    <3>. QED
      BY <1>2, <1>3, <2>3, <2>4, <3>1
  <2>7. s = v
    BY <1>2, <2>5, <2>6, SeqEqual
  <2>. QED
    BY <2>7 DEF s
<1>. QED
  BY <1>6 DEF v, w

\* An item that was copied moves from the ring to the copy.
LEMMA ContentCopied ==
    ASSUME NEW r \in [0 .. Size - 1 -> Values], NEW a \in Nat, NEW b \in Nat, a < b,
           NEW s \in Seq(Values)
    PROVE  Append(s, r[Slot(a)]) \o Content(r, a + 1, b) = s \o Content(r, a, b)
<1> DEFINE x == r[Slot(a)]
           u == Content(r, a, a + 1)
           v == Content(r, a + 1, b)
<1>1. u \in Seq(Values) /\ Len(u) = 1 /\ u[1] = x
  <2> DEFINE m == a + 1
  <2>1. m \in Nat /\ a <= m /\ m - a = 1 /\ 1 \in 1 .. 1 /\ a + 1 - 1 = a
    OBVIOUS
  <2>. HIDE DEF m
  <2>2. /\ Content(r, a, m) \in Seq(Values) /\ Len(Content(r, a, m)) = m - a
        /\ \A i \in 1 .. m - a : Content(r, a, m)[i] = r[Slot(a + i - 1)]
    BY <2>1, ContentFacts
  <2>3. Len(Content(r, a, m)) = 1 /\ Content(r, a, m)[1] = x
    BY <2>1, <2>2
  <2>. QED
    BY <2>2, <2>3 DEF m
<1>2. v \in Seq(Values)
  <2>1. a + 1 \in Nat /\ a + 1 <= b
    OBVIOUS
  <2>. QED
    BY <2>1, ContentFacts
<1>3. u \o v = Content(r, a, b)
  <2> DEFINE m == a + 1
  <2>1. m \in Nat /\ a <= m /\ m <= b
    OBVIOUS
  <2>. HIDE DEF m
  <2>2. Content(r, a, m) \o Content(r, m, b) = Content(r, a, b)
    BY <2>1, ContentJoined
  <2>. QED
    BY <2>2 DEF m
<1>4. x \in Values
  BY SlotIn
<1>. HIDE DEF x, u, v
<1>5. Append(s, x) = s \o u
  <2>1. u = <<x>>
    <3>1. <<x>> \in Seq(Values) /\ Len(<<x>>) = 1 /\ <<x>>[1] = x
      BY <1>4
    <3> DEFINE t == <<x>>
    <3>2. t \in Seq(Values) /\ Len(t) = 1 /\ t[1] = x
      BY <3>1
    <3>. HIDE DEF t
    <3>3. Len(u) = Len(t) /\ \A i \in 1 .. Len(u) : u[i] = t[i]
      BY <1>1, <3>2
    <3>4. u = t
      BY <1>1, <3>2, <3>3, SeqEqual
    <3>. QED
      BY <3>4 DEF t
  <2>. QED
    BY <1>4, <2>1, AppendIsConcat
<1>6. (s \o u) \o v = s \o (u \o v)
  BY <1>1, <1>2, ConcatAssociative
<1>. QED
  BY <1>3, <1>5, <1>6 DEF x, v

\* What the abstract queue has for put and got.
Put == [p \in Producers |-> sent[p] - (IF prd[p].pc = "copy" THEN prd[p].n ELSE 0)]
Got == [c \in Consumers |-> Batch(c)]

\* The abstract state in terms of offsets.
LEMMA InsideIs ==
    ASSUME IInv
    PROVE  /\ Inside = Content(ring, Off(cons.head), Off(prod.tail))
           /\ \A c \in Consumers : csm[c].pc = "copy" =>
                 Batch(c) = got[c] \o Content(ring, Off(csm[c].old) + csm[c].i,
                                                    Off(csm[c].old) + csm[c].n)
<1>1. Inside = Content(ring, Off(cons.head), Off(prod.tail))
  <2>1. /\ cons.head \in Indices /\ prod.tail \in Indices
        /\ Off(cons.head) \in Nat /\ Off(prod.tail) \in Nat
        /\ Off(cons.head) <= Off(prod.tail)
    BY IndexFacts DEF IInv, Ordered
  <2>2. (prod.tail - cons.head) % Width = Off(prod.tail) - Off(cons.head)
    BY <2>1, OffMinus
  <2>3. ASSUME NEW i \in Int
        PROVE  (cons.head + i - 1) % Size = Slot(Off(cons.head) + i - 1)
    <3>1. (cons.head + (i - 1)) % Size = Slot(Off(cons.head) + (i - 1))
      BY <2>1, SlotOff
    <3>2. cons.head \in Int
      BY <2>1, Sizes DEF Indices
    <3>3. cons.head + (i - 1) = cons.head + i - 1
          /\ Off(cons.head) + (i - 1) = Off(cons.head) + i - 1
      BY <2>1, <3>2
    <3>. QED
      BY <3>1, <3>3
  <2>. QED
    BY <2>2, <2>3 DEF Inside, Content
<1>2. ASSUME NEW c \in Consumers, csm[c].pc = "copy"
      PROVE  Batch(c) = got[c] \o Content(ring, Off(csm[c].old) + csm[c].i,
                                                Off(csm[c].old) + csm[c].n)
  <2> DEFINE o == csm[c].old
             j == csm[c].i
             n == csm[c].n
  <2>1. o \in Indices /\ Off(o) \in Nat /\ j \in Nat /\ n \in Nat /\ o \in Int
    BY IndexFacts, Sizes DEF Indices
  <2>2. Batch(c) = got[c] \o [i \in 1 .. n - j |-> ring[(o + j + i - 1) % Size]]
    BY <1>2 DEF Batch
  <2>. HIDE DEF o, j, n
  <2>3. ASSUME NEW i \in Int
        PROVE  (o + j + i - 1) % Size = Slot(Off(o) + j + i - 1)
    <3>1. (o + (j + i - 1)) % Size = Slot(Off(o) + (j + i - 1))
      BY <2>1, SlotOff
    <3>2. o + (j + i - 1) = o + j + i - 1 /\ Off(o) + (j + i - 1) = Off(o) + j + i - 1
      BY <2>1
    <3>. QED
      BY <3>1, <3>2
  <2>4. (Off(o) + n) - (Off(o) + j) = n - j
    BY <2>1
  <2>5. [i \in 1 .. n - j |-> ring[(o + j + i - 1) % Size]] = Content(ring, Off(o) + j, Off(o) + n)
    BY <2>3, <2>4 DEF Content
  <2>. QED
    BY <2>2, <2>5 DEF o, j, n
<1>. QED
  BY <1>1, <1>2

LEMMA BatchIs ==
    IInv => \A e \in Consumers : csm[e].pc = "copy" =>
                Batch(e) = got[e] \o Content(ring, Off(csm[e].old) + csm[e].i,
                                                   Off(csm[e].old) + csm[e].n)
BY InsideIs

\* Nothing changes in what is inside or being taken out.
Undisturbed ==
    /\ prod'.tail = prod.tail /\ cons'.head = cons.head
    /\ \A x \in Nat : Off(cons.tail) <= x /\ x < Off(prod.tail) =>
          ring'[Slot(x)] = ring[Slot(x)]

LEMMA InsideKept ==
    ASSUME IInv, IInv', Undisturbed
    PROVE  Inside' = Inside
<1>1. Inside = Content(ring, Off(cons.head), Off(prod.tail))
  BY InsideIs
<1>2. (IInv => Inside = Content(ring, Off(cons.head), Off(prod.tail)))'
  BY InsideIs, PTL
<1>3. Inside' = Content(ring', Off(cons.head), Off(prod.tail))
  BY <1>2 DEF Undisturbed
<1>4. /\ Off(cons.head) \in Nat /\ Off(prod.tail) \in Nat /\ Off(cons.tail) \in Nat
      /\ Off(cons.tail) <= Off(cons.head)
  BY IndexFacts DEF IInv, Ordered
<1>5. \A x \in Nat : Off(cons.head) <= x /\ x < Off(prod.tail) =>
         ring'[Slot(x)] = ring[Slot(x)]
  BY <1>4 DEF Undisturbed
<1>6. Content(ring', Off(cons.head), Off(prod.tail)) = Content(ring, Off(cons.head), Off(prod.tail))
  BY <1>4, <1>5, ContentSame
<1>. QED
  BY <1>1, <1>3, <1>6

LEMMA BatchKept ==
    ASSUME IInv, IInv', NEW c \in Consumers, csm'[c] = csm[c], got'[c] = got[c],
           \A x \in Nat : Off(cons.tail) <= x /\ x < Off(prod.tail) =>
              ring'[Slot(x)] = ring[Slot(x)]
    PROVE  Batch(c)' = Batch(c)
<1>1. CASE csm[c].pc # "copy"
  BY <1>1 DEF Batch
<1>2. CASE csm[c].pc = "copy"
  <2> DEFINE a == Off(csm[c].old) + csm[c].i
             b == Off(csm[c].old) + csm[c].n
  <2>1. Batch(c) = got[c] \o Content(ring, a, b)
    BY <1>2, InsideIs
  <2>2. (IInv => \A e \in Consumers : csm[e].pc = "copy" =>
                    Batch(e) = got[e] \o Content(ring, Off(csm[e].old) + csm[e].i,
                                                       Off(csm[e].old) + csm[e].n))'
    BY BatchIs, PTL
  <2>3. Batch(c)' = got[c] \o Content(ring', a, b)
    BY <1>2, <2>2
  <2>4. /\ a \in Nat /\ b \in Nat /\ Off(cons.tail) <= a /\ b <= Off(prod.tail)
        /\ Off(cons.tail) \in Nat /\ Off(prod.tail) \in Nat
    <3>1. /\ Off(csm[c].old) \in Nat /\ csm[c].i \in Nat /\ csm[c].n \in Nat
          /\ Off(cons.tail) \in Nat /\ Off(prod.tail) \in Nat /\ Off(cons.head) \in Nat
      BY IndexFacts
    <3>2. /\ Off(cons.tail) <= Off(csm[c].old)
          /\ Off(csm[c].old) + csm[c].n <= Off(cons.head)
      BY <1>2 DEF IInv, Consuming
    <3>. QED
      BY <3>1, <3>2 DEF IInv, Ordered
  <2>. HIDE DEF a, b
  <2>5. \A x \in Nat : a <= x /\ x < b => ring'[Slot(x)] = ring[Slot(x)]
    BY <2>4
  <2>6. Content(ring', a, b) = Content(ring, a, b)
    BY <2>4, <2>5, ContentSame
  <2>. QED
    BY <2>1, <2>3, <2>6
<1>. QED
  BY <1>1, <1>2

\* A step that puts nothing in and takes nothing out.
Stutters == Inside' = Inside /\ Put' = Put /\ Got' = Got

LEMMA ProdLooksStutters ==
    ASSUME IInv, IInv', NEW p \in Producers, ProdLooks(p)
    PROVE  Stutters
<1>1. Undisturbed /\ UNCHANGED <<csm, got, sent, ring>>
  BY DEF ProdLooks, Undisturbed
<1>2. \A q \in Producers : q # p => prd'[q] = prd[q]
  BY DEF ProdLooks, IInv, Types
<1>3. Put' = Put
  BY <1>1, <1>2 DEF Put, ProdLooks
<1>4. Got' = Got
  BY <1>1, BatchKept DEF Got, Undisturbed
<1>. QED
  BY <1>1, <1>3, <1>4, InsideKept DEF Stutters

LEMMA ConsLooksStutters ==
    ASSUME IInv, IInv', NEW c \in Consumers, ConsLooks(c)
    PROVE  Stutters
<1>1. Undisturbed /\ UNCHANGED <<prd, got, sent, ring>>
  BY DEF ConsLooks, Undisturbed
<1>2. \A d \in Consumers : d # c => csm'[d] = csm[d]
  BY DEF ConsLooks, IInv, Types
<1>3. Put' = Put
  BY <1>1 DEF Put
<1>4. Batch(c)' = Batch(c)
  BY <1>1 DEF Batch, ConsLooks
<1>5. \A d \in Consumers : Batch(d)' = Batch(d)
  BY <1>1, <1>2, <1>4, BatchKept DEF Undisturbed
<1>. QED
  BY <1>1, <1>3, <1>5, InsideKept DEF Stutters, Got

LEMMA EnqMoveStutters ==
    ASSUME IInv, IInv', NEW p \in Producers, EnqMove(p)
    PROVE  Stutters
<1>1. /\ prd \in [Producers -> ProdCalls] /\ sent \in [Producers -> 0 .. Quota]
      /\ prod \in Sides /\ prd[p].n \in Nat
  BY IndexFacts DEF IInv, Types
<1>2. Undisturbed /\ UNCHANGED <<csm, got, ring>>
  BY <1>1 DEF EnqMove, Undisturbed, Sides
<1>3. /\ prd'[p].pc = "copy" /\ prd'[p].n = prd[p].n /\ prd[p].pc = "move"
      /\ \A q \in Producers : q # p => prd'[q] = prd[q]
  BY <1>1 DEF EnqMove, ProdCalls
<1>4. sent'[p] = sent[p] + prd[p].n /\ \A q \in Producers : q # p => sent'[q] = sent[q]
  BY <1>1 DEF EnqMove
<1>5. Put' = Put
  <2>1. sent[p] \in Nat
    BY <1>1, Sizes
  <2>2. sent'[p] - prd'[p].n = sent[p] - 0
    BY <1>1, <1>3, <1>4, <2>1
  <2>. QED
    BY <1>3, <1>4, <2>2 DEF Put
<1>6. Got' = Got
  BY <1>2, BatchKept DEF Got, Undisturbed
<1>. QED
  BY <1>2, <1>5, <1>6, InsideKept DEF Stutters

LEMMA EnqCopyStutters ==
    ASSUME IInv, IInv', NEW p \in Producers, EnqCopy(p)
    PROVE  Stutters
<1> DEFINE a == Off(prd[p].old) + prd[p].i
<1>1. prd \in [Producers -> ProdCalls] /\ UNCHANGED <<prod, cons, csm, got, sent>>
  BY DEF IInv, Types, EnqCopy
<1>2. /\ a \in Nat /\ Off(prod.tail) <= a
      /\ \A b \in Nat :
            Off(cons.tail) <= b /\ b < Off(cons.tail) + Capacity /\ b # a =>
               ring'[Slot(b)] = ring[Slot(b)]
  BY EnqCopyFacts
<1>3. /\ Off(prod.tail) \in Nat /\ Off(cons.tail) \in Nat /\ Off(prod.head) \in Nat
      /\ Capacity \in Nat /\ Off(prod.tail) <= Off(cons.tail) + Capacity
  BY IndexFacts, Sizes DEF IInv, Ordered
<1>. HIDE DEF a
<1>4. Undisturbed
  <2>1. \A x \in Nat : Off(cons.tail) <= x /\ x < Off(prod.tail) =>
           x < Off(cons.tail) + Capacity /\ x # a
    BY <1>2, <1>3
  <2>. QED
    BY <1>1, <1>2, <2>1 DEF Undisturbed
<1>5. /\ prd'[p].pc = prd[p].pc /\ prd'[p].n = prd[p].n
      /\ \A q \in Producers : q # p => prd'[q] = prd[q]
  BY <1>1 DEF EnqCopy, ProdCalls
<1>6. Put' = Put
  BY <1>1, <1>5 DEF Put
<1>7. Got' = Got
  BY <1>1, <1>4, BatchKept DEF Got, Undisturbed
<1>. QED
  BY <1>4, <1>6, <1>7, InsideKept DEF Stutters

\* A producer's batch goes in when it moves the tail.
LEMMA EnqDoneEnqueues ==
    ASSUME IInv, IInv', NEW p \in Producers, EnqDone(p)
    PROVE  \E n \in 1 .. Capacity : Fifo!Enqueue(p, n)
<1> DEFINE n == prd[p].n
           a == Off(cons.head)
           t == Off(prod.tail)
<1>1. /\ prd \in [Producers -> ProdCalls] /\ UNCHANGED <<cons, ring, csm, got, sent>>
      /\ prd' = [prd EXCEPT ![p] = Idle(@)] /\ sent \in [Producers -> 0 .. Quota]
      /\ ring \in [0 .. Size - 1 -> Values]
  BY DEF IInv, Types, EnqDone, Values
<1>2. /\ prd[p].old = prod.tail /\ prd[p].pc = "copy" /\ prd[p].i = n /\ n > 0
      /\ t + n <= Off(prod.head) /\ Off(prod'.tail) = t + n
  BY EnqDoneFacts
<1>3. /\ a \in Nat /\ t \in Nat /\ n \in Nat /\ a <= t /\ n <= Capacity
      /\ Off(prod.head) \in Nat /\ Off(cons.tail) \in Nat /\ Capacity \in Nat
      /\ Off(prod.head) <= Off(cons.tail) + Capacity /\ Off(cons.tail) <= a
      /\ sent[p] \in Nat
  BY IndexFacts, Sizes, <1>1 DEF IInv, Ordered
<1>4. /\ prd'[p].pc = "idle"
      /\ \A q \in Producers : q # p => prd'[q] = prd[q]
  <2>1. prd'[p] = Idle(prd[p]) /\ prd[p] \in ProdCalls
    BY <1>1
  <2>. QED
    BY <1>1, <2>1 DEF Idle, ProdCalls
<1>5. Put[p] = sent[p] - n /\ Put' = [Put EXCEPT ![p] = @ + n]
  <2>1. Put[p] = sent[p] - n
    BY <1>2 DEF Put
  <2>2. sent'[p] - 0 = (sent[p] - n) + n
    BY <1>1, <1>3
  <2>. QED
    BY <1>1, <1>2, <1>4, <2>1, <2>2 DEF Put
<1>6. Inside = Content(ring, a, t)
  BY InsideIs
<1>7. Inside' = Content(ring, a, t + n)
  <2>1. (IInv => Inside = Content(ring, Off(cons.head), Off(prod.tail)))'
    BY InsideIs, PTL
  <2>. QED
    BY <1>1, <1>2, <2>1
<1>8. \A i \in 1 .. n : ring[Slot(t + i - 1)] = <<p, sent[p] - n + i>>
  <2>1. \A j \in 0 .. n - 1 : ring[Slot(t + j)] = <<p, sent[p] - n + j + 1>>
    BY <1>2 DEF IInv, Filled
  <2>. HIDE DEF n, t
  <2>2. ASSUME NEW i \in 1 .. n PROVE ring[Slot(t + i - 1)] = <<p, sent[p] - n + i>>
    <3>1. /\ i - 1 \in 0 .. n - 1 /\ t + (i - 1) = t + i - 1
          /\ sent[p] - n + (i - 1) + 1 = sent[p] - n + i
      BY <1>3
    <3>. QED
      BY <2>1, <3>1
  <2>. QED
    BY <2>2
<1>. HIDE DEF n, a, t
<1>9. Content(ring, t, t + n) = [i \in 1 .. n |-> <<p, Put[p] + i>>]
  <2>4. Put[p] = sent[p] - n
    BY <1>5
  <2>2. ASSUME NEW i \in 1 .. n PROVE ring[Slot(t + i - 1)] = <<p, Put[p] + i>>
    <3>1. ring[Slot(t + i - 1)] = <<p, sent[p] - n + i>>
      BY <1>8
    <3>2. sent[p] - n + i = Put[p] + i
      BY <2>4
    <3>. QED
      BY <3>1, <3>2
  <2>3. Content(ring, t, t + n) = [i \in 1 .. n |-> ring[Slot(t + i - 1)]]
    <3> DEFINE b == t + n
    <3>1. b - t = n
      BY <1>3
    <3>. HIDE DEF b
    <3>2. Content(ring, t, b) = [i \in 1 .. b - t |-> ring[Slot(t + i - 1)]]
      BY DEF Content
    <3>. QED
      BY <3>1, <3>2 DEF b
  <2>. QED
    BY <2>2, <2>3
<1>10. Inside' = Inside \o [i \in 1 .. n |-> <<p, Put[p] + i>>]
  <2> DEFINE b == t + n
  <2>1. b \in Nat /\ t <= b
    BY <1>3
  <2>. HIDE DEF b
  <2>2. Content(ring, a, t) \o Content(ring, t, b) = Content(ring, a, b)
    <3>1. ring \in [0 .. Size - 1 -> Values] /\ a \in Nat /\ t \in Nat /\ a <= t
      BY <1>1, <1>3
    <3>. QED
      BY <2>1, <3>1, ContentJoined
  <2>. QED
    BY <1>6, <1>7, <1>9, <2>2 DEF b
<1>11. Len(Inside) + n <= Capacity
  <2>1. Len(Inside) = t - a
    BY <1>1, <1>3, <1>6, ContentFacts
  <2>. QED
    BY <1>2, <1>3, <2>1
<1>12. Got' = Got
  BY <1>1, BatchKept DEF Got
<1>13. n \in 1 .. Capacity
  BY <1>2, <1>3
<1>. QED
  BY <1>5, <1>10, <1>11, <1>12, <1>13 DEF Fifo!Enqueue, Put, Got

\* A consumer's batch comes out when it moves the head.
LEMMA DeqMoveDequeues ==
    ASSUME IInv, IInv', NEW c \in Consumers, DeqMove(c)
    PROVE  \E n \in 1 .. Capacity : Fifo!Dequeue(c, n)
<1> DEFINE n == csm[c].n
           a == Off(cons.head)
           t == Off(prod.tail)
           b == a + n
<1>1. /\ csm \in [Consumers -> ConsCalls] /\ UNCHANGED <<prod, ring, prd, sent>>
      /\ csm' = [csm EXCEPT ![c].pc = "copy"] /\ csm[c].i = 0
      /\ got \in [Consumers -> Seq(Values)] /\ got' = [got EXCEPT ![c] = <<>>]
      /\ ring \in [0 .. Size - 1 -> Values]
  BY DEF IInv, Types, ConsCounts, DeqMove, Values
<1>2. /\ csm[c].old = cons.head /\ csm[c].pc = "move" /\ n > 0
      /\ a + n <= t /\ Off(cons'.head) = b
  BY DeqMoveFacts
<1>3. /\ a \in Nat /\ t \in Nat /\ n \in Nat /\ b \in Nat /\ a <= t /\ n <= Capacity
      /\ a <= b /\ b <= t /\ b - a = n
  BY <1>2, IndexFacts DEF IInv, Ordered
<1>4. /\ csm'[c].pc = "copy" /\ csm'[c].n = n /\ csm'[c].i = 0 /\ csm'[c].old = cons.head
      /\ \A d \in Consumers : d # c => csm'[d] = csm[d]
  <2>1. csm'[c] = [csm[c] EXCEPT !.pc = "copy"] /\ csm[c] \in ConsCalls
    BY <1>1
  <2>. QED
    BY <1>1, <1>2, <2>1 DEF ConsCalls
<1>5. got'[c] = <<>> /\ \A d \in Consumers : d # c => got'[d] = got[d]
  BY <1>1
<1>6. Inside = Content(ring, a, t)
  BY InsideIs
<1>7. Inside' = Content(ring, b, t)
  <2>1. (IInv => Inside = Content(ring, Off(cons.head), Off(prod.tail)))'
    BY InsideIs, PTL
  <2>. QED
    BY <1>1, <1>2, <2>1
<1>8. Batch(c)' = Content(ring, a, b)
  <2>1. (IInv => \A e \in Consumers : csm[e].pc = "copy" =>
                    Batch(e) = got[e] \o Content(ring, Off(csm[e].old) + csm[e].i,
                                                       Off(csm[e].old) + csm[e].n))'
    BY BatchIs, PTL
  <2>2. Batch(c)' = got'[c] \o Content(ring', Off(csm'[c].old) + csm'[c].i,
                                             Off(csm'[c].old) + csm'[c].n)
    BY <1>4, <2>1
  <2>3. Off(csm'[c].old) + csm'[c].i = a /\ Off(csm'[c].old) + csm'[c].n = b
    BY <1>3, <1>4
  <2>. HIDE DEF a, b
  <2>4. Batch(c)' = <<>> \o Content(ring, a, b)
    BY <1>1, <1>5, <2>2, <2>3
  <2>5. Content(ring, a, b) \in Seq(Values)
    BY <1>1, <1>3, ContentFacts
  <2>. QED
    BY <2>4, <2>5, ConcatEmptySeq
<1>9. \A d \in Consumers : d # c => Batch(d)' = Batch(d)
  BY <1>1, <1>4, <1>5, BatchKept
<1>. HIDE DEF n, a, t, b
<1>10. Len(Inside) = t - a
  BY <1>1, <1>3, <1>6, ContentFacts
<1>11. Batch(c)' = SubSeq(Inside, 1, n) /\ Inside' = SubSeq(Inside, n + 1, Len(Inside))
  <2>1. /\ SubSeq(Content(ring, a, t), 1, b - a) = Content(ring, a, b)
        /\ SubSeq(Content(ring, a, t), b - a + 1, t - a) = Content(ring, b, t)
    <3>1. /\ ring \in [0 .. Size - 1 -> Values] /\ a \in Nat /\ t \in Nat /\ b \in Nat
          /\ a <= b /\ b <= t
      BY <1>1, <1>3
    <3>2. SubSeq(Content(ring, a, t), 1, b - a) = Content(ring, a, b)
      BY <3>1, ContentFirst
    <3>3. SubSeq(Content(ring, a, t), b - a + 1, t - a) = Content(ring, b, t)
      BY <3>1, ContentRest
    <3>. QED
      BY <3>2, <3>3
  <2>. QED
    BY <1>3, <1>6, <1>7, <1>8, <1>10, <2>1
<1>12. Got' = [Got EXCEPT ![c] = SubSeq(Inside, 1, n)]
  BY <1>9, <1>11 DEF Got
<1>13. Put' = Put
  BY <1>1 DEF Put
<1>14. n \in 1 .. Capacity /\ n <= Len(Inside)
  BY <1>2, <1>3, <1>10, Sizes
<1>. QED
  BY <1>11, <1>12, <1>13, <1>14 DEF Fifo!Dequeue, Put, Got

LEMMA DeqCopyStutters ==
    ASSUME IInv, IInv', NEW c \in Consumers, DeqCopy(c)
    PROVE  Stutters
<1> DEFINE a == Off(csm[c].old) + csm[c].i
           b == Off(csm[c].old) + csm[c].n
<1>1. /\ csm \in [Consumers -> ConsCalls] /\ UNCHANGED <<prod, cons, ring, prd, sent>>
      /\ csm' = [csm EXCEPT ![c].i = @ + 1]
      /\ got \in [Consumers -> Seq(Values)] /\ ring \in [0 .. Size - 1 -> Values]
  BY DEF IInv, Types, DeqCopy, Values
<1>2. /\ a \in Nat /\ csm[c].pc = "copy" /\ csm[c].i < csm[c].n
      /\ got' = [got EXCEPT ![c] = Append(@, ring[Slot(a)])]
  BY DeqCopyFacts
<1>3. csm[c].i \in Nat /\ csm[c].n \in Nat /\ Off(csm[c].old) \in Nat
  BY IndexFacts
<1>4. /\ csm'[c].pc = "copy" /\ csm'[c].n = csm[c].n /\ csm'[c].i = csm[c].i + 1
      /\ csm'[c].old = csm[c].old
      /\ \A d \in Consumers : d # c => csm'[d] = csm[d]
  <2>1. csm'[c] = [csm[c] EXCEPT !.i = @ + 1] /\ csm[c] \in ConsCalls
    BY <1>1
  <2>. QED
    BY <1>1, <1>2, <2>1 DEF ConsCalls
<1>5. /\ got'[c] = Append(got[c], ring[Slot(a)]) /\ got[c] \in Seq(Values)
      /\ \A d \in Consumers : d # c => got'[d] = got[d]
  BY <1>1, <1>2
<1>6. Batch(c) = got[c] \o Content(ring, a, b)
  BY <1>2, InsideIs
<1>7. Batch(c)' = got'[c] \o Content(ring, a + 1, b)
  <2>1. (IInv => \A e \in Consumers : csm[e].pc = "copy" =>
                    Batch(e) = got[e] \o Content(ring, Off(csm[e].old) + csm[e].i,
                                                       Off(csm[e].old) + csm[e].n))'
    BY BatchIs, PTL
  <2>2. Batch(c)' = got'[c] \o Content(ring', Off(csm'[c].old) + csm'[c].i,
                                             Off(csm'[c].old) + csm'[c].n)
    BY <1>4, <2>1
  <2>3. Off(csm'[c].old) + csm'[c].i = a + 1 /\ Off(csm'[c].old) + csm'[c].n = b
    BY <1>3, <1>4
  <2>. QED
    BY <1>1, <2>2, <2>3
<1>8. a < b /\ b \in Nat
  BY <1>2, <1>3
<1>. HIDE DEF a, b
<1>9. Append(got[c], ring[Slot(a)]) \o Content(ring, a + 1, b) = got[c] \o Content(ring, a, b)
  BY <1>1, <1>2, <1>5, <1>8, ContentCopied
<1>10. Batch(c)' = Batch(c)
  BY <1>5, <1>6, <1>7, <1>9
<1>11. \A d \in Consumers : Batch(d)' = Batch(d)
  BY <1>1, <1>4, <1>5, <1>10, BatchKept
<1>12. Undisturbed
  BY <1>1 DEF Undisturbed
<1>13. Put' = Put
  BY <1>1 DEF Put
<1>. QED
  BY <1>11, <1>12, <1>13, InsideKept DEF Stutters, Got

LEMMA DeqDoneStutters ==
    ASSUME IInv, IInv', NEW c \in Consumers, DeqDone(c)
    PROVE  Stutters
<1> DEFINE b == Off(csm[c].old) + csm[c].n
<1>1. /\ csm \in [Consumers -> ConsCalls] /\ UNCHANGED <<prod, ring, prd, sent, got>>
      /\ csm' = [csm EXCEPT ![c] = [Idle(@) EXCEPT !.ask = 0, !.counted = FALSE]]
      /\ got \in [Consumers -> Seq(Values)] /\ ring \in [0 .. Size - 1 -> Values]
  BY DEF IInv, Types, DeqDone, Values
<1>2. csm[c].pc = "copy" /\ csm[c].i = csm[c].n /\ cons'.head = cons.head
  BY DeqDoneFacts
<1>3. /\ csm'[c].pc = "idle"
      /\ \A d \in Consumers : d # c => csm'[d] = csm[d]
  <2>1. /\ csm'[c] = [Idle(csm[c]) EXCEPT !.ask = 0, !.counted = FALSE]
        /\ csm[c] \in ConsCalls
    BY <1>1
  <2>. QED
    BY <1>1, <2>1 DEF Idle, ConsCalls
<1>4. b \in Nat
  BY IndexFacts
<1>5. Batch(c) = got[c] \o Content(ring, b, b)
  BY <1>2, InsideIs
<1>6. Batch(c)' = got[c]
  BY <1>1, <1>3 DEF Batch
<1>. HIDE DEF b
<1>7. Content(ring, b, b) = <<>>
  <2>1. Content(ring, b, b) \in Seq(Values) /\ Len(Content(ring, b, b)) = 0
    BY <1>1, <1>4, ContentFacts
  <2>. QED
    BY <2>1, EmptySeq
<1>8. Batch(c)' = Batch(c)
  <2>1. got[c] \in Seq(Values)
    BY <1>1
  <2>. QED
    BY <1>5, <1>6, <1>7, <2>1, ConcatEmptySeq
<1>9. \A d \in Consumers : Batch(d)' = Batch(d)
  BY <1>1, <1>3, <1>8, BatchKept
<1>10. Undisturbed
  BY <1>1, <1>2 DEF Undisturbed
<1>11. Put' = Put
  BY <1>1 DEF Put
<1>. QED
  BY <1>9, <1>10, <1>11, InsideKept DEF Stutters, Got

\* The ring implements a bounded queue: what is put in is taken out once, in
\* order, a batch together, and never changed in between, whoever is halfway
\* through a call meanwhile.
THEOREM Refinement == Spec => ImplementsFifo
<1>1. Init => Fifo!Init
  <2>. SUFFICES ASSUME Init PROVE Fifo!Init
    OBVIOUS
  <2>1. Inside = <<>>
    <3>1. IInv /\ Off(Start) = 0 /\ prod.tail = Start /\ cons.head = Start
      BY InitSound, OffStart DEF Init
    <3>2. Inside = Content(ring, 0, 0)
      BY <3>1, InsideIs
    <3>3. ring \in [0 .. Size - 1 -> Values]
      BY <3>1 DEF IInv, Types, Values
    <3>4. Content(ring, 0, 0) \in Seq(Values) /\ Len(Content(ring, 0, 0)) = 0
      BY <3>3, ContentFacts
    <3>. QED
      BY <3>2, <3>4, EmptySeq
  <2>2. Put = [p \in Producers |-> 0]
    BY DEF Init, Put
  <2>3. Got = [c \in Consumers |-> <<>>]
    BY DEF Init, Got, Batch
  <2>. QED
    BY <2>1, <2>2, <2>3 DEF Fifo!Init, Put, Got
<1>2. IInv /\ IInv' /\ [Next]_vars => Stutters \/ Fifo!Next
  <2>. SUFFICES ASSUME IInv, IInv', [Next]_vars PROVE Stutters \/ Fifo!Next
    OBVIOUS
  <2>1. CASE UNCHANGED vars
    <3>1. Undisturbed /\ UNCHANGED <<prd, csm, got, sent, ring>>
      BY <2>1 DEF vars, Undisturbed
    <3>2. Put' = Put
      BY <3>1 DEF Put
    <3>3. Got' = Got
      BY <3>1, BatchKept DEF Got
    <3>. QED
      BY <3>1, <3>2, <3>3, InsideKept DEF Stutters
  <2>2. ASSUME NEW p \in Producers, EnqDone(p) PROVE Fifo!Next
    BY <2>2, EnqDoneEnqueues DEF Fifo!Next
  <2>3. ASSUME NEW c \in Consumers, DeqMove(c) PROVE Fifo!Next
    BY <2>3, DeqMoveDequeues DEF Fifo!Next
  <2>4. ASSUME NEW p \in Producers, Enq(p) PROVE Stutters \/ Fifo!Next
    BY <2>2, <2>4, EnqRoomLooks, EnqFullLooks, EnqRetryLooks, ProdLooksStutters,
       EnqMoveStutters, EnqCopyStutters DEF Enq
  <2>5. ASSUME NEW p \in Producers, NEW n \in Batches, EnqCall(p, n) PROVE Stutters
    BY <2>5, EnqCallLooks, ProdLooksStutters
  <2>6. ASSUME NEW c \in Consumers, Deq(c) PROVE Stutters \/ Fifo!Next
    BY <2>3, <2>6, DeqCountedLooks, DeqLookLooks, DeqEmptyLooks, DeqRetryLooks,
       ConsLooksStutters, DeqCopyStutters, DeqDoneStutters DEF Deq
  <2>7. ASSUME NEW c \in Consumers, Count(c) PROVE Stutters
    BY <2>7, CountLooks, ConsLooksStutters
  <2>8. ASSUME NEW c \in Consumers, NEW n \in Batches, DeqCall(c, n) PROVE Stutters
    BY <2>8, DeqCallLooks, ConsLooksStutters
  <2>. QED
    BY <2>1, <2>4, <2>5, <2>6, <2>7, <2>8 DEF Next
<1>3. Stutters => UNCHANGED Fifo!vars
  BY DEF Stutters, Put, Got, Fifo!vars
<1>4. IInv /\ IInv' /\ [Next]_vars => [Fifo!Next]_(Fifo!vars)
  BY <1>2, <1>3
<1>. QED
  BY <1>1, <1>4, Invariance, PTL DEF Spec, ImplementsFifo, Fifo!Spec

=============================================================================

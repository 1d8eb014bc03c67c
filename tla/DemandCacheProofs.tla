------------------------- MODULE DemandCacheProofs -------------------------
(***************************************************************************)
(* Proofs about DemandCache, for any number of reads, keys, translation    *)
(* pages and sets: the cache loses no update by itself, a read returns a   *)
(* version that was current while it ran, and it finds what was set before *)
(* it began unless a page of its way was lost.                             *)
(***************************************************************************)
EXTENDS DemandCache, FiniteSetTheorems, NumberFacts

(* The inductive invariant. *)

Entries == Keys \X (1 .. MaxVer)

\* Keys that no other key is taken for.
Single == {k \in Keys : ~Twin(k)}

\* In the table t: the entry l holds k; the first n entries on k's way hold keys
\* of other fingerprints; each entry is on the way of its key; each key is where
\* its probes come to first, within m of them.
Holds(t, l, k) == t[l] # NULL /\ t[l][1] = k
Passed(t, k, n) ==
    \A i \in 0 .. n - 1 : t[Lpa(k, i)] # NULL /\ FpOf[t[Lpa(k, i)][1]] # FpOf[k]
OnPath(t) == \A l \in Lpas : t[l] # NULL => l \in Path(t[l][1])
Placed(t, m) ==
    \A k \in Single, l \in Lpas :
        Holds(t, l, k) => \E c \in 0 .. m : l = Lpa(k, c) /\ Passed(t, k, c)

Nodes == Tpages \X BOOLEAN
Places == {"idle", "ready", "loading", "evicting", "check"}

StoreTypes ==
    /\ latest \in [Keys -> 0 .. MaxVer]
    /\ DOMAIN wb \subseteq Keys /\ wb \in [DOMAIN wb -> 0 .. MaxVer]

TableTypes ==
    /\ phase \in {"serve", "assign", "map"} /\ fresh \subseteq Lpas
    /\ table \in [Lpas -> Entries \union {NULL}] /\ max_try \in Nat

UserTypes ==
    /\ busy \in Users \union {NULL}
    /\ pc \in [Users -> Places] /\ cnt \in [Users -> Nat]

ReadTypes ==
    /\ want \in [Reqs -> Keys \union {NULL}] /\ from \in [Reqs -> Nat]
    /\ got \in [Reqs -> Nat] /\ ended \in [Reqs -> Nat]
    /\ \A r \in Reqs : pc[r] # "idle" \/ ended[r] > 0 => want[r] \in Keys

Types == StoreTypes /\ TableTypes /\ UserTypes /\ ReadTypes

\* What is dirty is cached, in a cache that keeps its size.
Sound(c) ==
    /\ c.lru \in Seq(Nodes) /\ Len(c.lru) <= Capacity
    /\ c.dirty \subseteq Tpages /\ c.onFlash \subseteq Tpages
    /\ \A d \in c.dirty : Listed(d, c.lru) /\ d \notin c.onFlash

CacheOK == Sound(Cache)

BufferOK == \A k \in DOMAIN wb : wb[k] = latest[k] /\ latest[k] > 0

TableOK ==
    /\ \A l \in Lpas : table[l] # NULL => table[l][2] <= latest[table[l][1]]
    /\ OnPath(table) /\ Placed(table, max_try)

\* An entry of the buffer that is not idle has passed keys of other fingerprints;
\* what a flush has updated is the entry of a key that is done.
FlushOK ==
    /\ \A k \in Keys : pc[k] # "idle" => phase = "map" /\ k \in DOMAIN wb
    /\ \A k \in Single : pc[k] # "idle" => Passed(table, k, cnt[k])
    /\ phase # "map" => fresh = {}
    /\ \A l \in fresh : \E j \in DOMAIN wb :
            table[l] = <<j, wb[j]>> /\ pc[j] = "idle"

\* The last version of a key that was set is in the buffer or in the table, and
\* in both once the flush is done with it.
Reached ==
    \A k \in Single :
        latest[k] > 0 /\ (k \in DOMAIN wb => phase = "map" /\ pc[k] = "idle")
            => \E l \in Lpas : table[l] = <<k, latest[k]>>

\* A read that is past its first look at the buffer.
Past(r) ==
    \/ pc[r] \in {"loading", "evicting", "check"}
    \/ pc[r] = "ready" /\ cnt[r] > 0

\* What it looks for is in the table, and not behind it.
Sought ==
    \A r \in Reqs :
        want[r] \in Single /\ from[r] > 0 /\ Past(r) =>
            /\ \E l \in Lpas : Holds(table, l, want[r]) /\ table[l][2] >= from[r]
            /\ \A i \in 0 .. cnt[r] - 1 : ~Holds(table, Lpa(want[r], i), want[r])

\* A read begins at a version that was set; it has not ended just once if it is
\* still on its way.
ReadsOK ==
    \A r \in Reqs :
        /\ want[r] \in Keys => from[r] <= latest[want[r]]
        /\ pc[r] # "idle" => ended[r] # 1

IInv ==
    /\ Types /\ CacheOK /\ BufferOK /\ TableOK /\ FlushOK /\ Reached
    /\ Sought /\ ReadsOK /\ ReadsCurrent

-----------------------------------------------------------------------------
(* The way of a key. *)

\* Another round of all entries makes no difference to a probe.
LEMMA ProbeRound ==
    ASSUME NEW k \in Keys, NEW q \in Nat, NEW r \in Nat, NEW c \in Nat,
           c = (NrTpages * EPP) * q + r
    PROVE  Lpa(k, c) = Lpa(k, r)
<1> DEFINE h == HashOf[k]
           n == NrTpages * EPP
           t == q + q * (n * q) + 2 * (q * r)
<1>0. h \in Nat /\ n \in Nat \ {0} /\ c = n * q + r
  BY CacheAssumption
<1>. HIDE DEF h, n
<1>1. t \in Int /\ h + r + r * r \in Int
  BY <1>0
<1>2. c * c = n * (q * (n * q)) + n * (2 * (q * r)) + r * r
  BY <1>0
<1>3. n * t = n * q + n * (q * (n * q)) + n * (2 * (q * r))
  BY <1>0
<1>4. h + c + c * c = (h + r + r * r) + n * t
  <2>. DEFINE a == n * q
              b == n * (q * (n * q))
              d == n * (2 * (q * r))
              e == r * r
              s == c * c
              u == n * t
  <2>1. /\ a \in Int /\ b \in Int /\ d \in Int /\ e \in Int
        /\ c = a + r /\ s = b + d + e /\ u = a + b + d
    BY <1>0, <1>2, <1>3
  <2>. HIDE DEF t, a, b, d, e, s, u
  <2>2. h \in Int /\ r \in Int
    BY <1>0
  <2>3. h + c + s = (h + r + e) + u
    BY <2>1, <2>2
  <2>. QED
    BY <2>3 DEF e, s, u
<1>5. ((h + r + r * r) + n * t) % n = (h + r + r * r) % n
  <2>. HIDE DEF t
  <2>. QED
    BY <1>0, <1>1, ModShift
<1>. QED
  BY <1>4, <1>5 DEF Lpa, h, n

\* A probe is at an entry, and at one of the first probes' entries.
LEMMA LpaFacts ==
    ASSUME NEW k \in Keys, NEW c \in Nat
    PROVE  Lpa(k, c) \in Lpas /\ Lpa(k, c) \in Path(k)
<1> DEFINE n == NrTpages * EPP
           q == c \div n
           r == c % n
<1>1. n \in Nat \ {0} /\ HashOf[k] \in Nat
  BY CacheAssumption
<1>2. HashOf[k] + c + c * c \in Int
  BY <1>1
<1>3. (HashOf[k] + c + c * c) % n \in 0 .. n - 1
  <2>. HIDE DEF n
  <2>. QED
    BY <1>1, <1>2, Division
<1>4. q \in Int /\ r \in 0 .. n - 1 /\ c = n * q + r
  <2>. HIDE DEF n
  <2>. QED
    BY <1>1, Division
<1>5. q \in Nat
  <2>1. SUFFICES ASSUME q < 0 PROVE FALSE
    <3>. HIDE DEF q, r, n
    <3>. QED
      BY <1>4
  <2>. HIDE DEF q, r, n
  <2>2. n * q <= -n
    BY <1>1, <1>4, <2>1
  <2>. QED
    BY <1>1, <1>4, <2>2
<1>6. Lpa(k, c) = Lpa(k, r)
  <2>. HIDE DEF q, r, n
  <2>1. r \in Nat
    BY <1>1, <1>4
  <2>. QED
    BY <1>4, <1>5, <2>1, ProbeRound DEF n
<1>. QED
  BY <1>3, <1>4, <1>6 DEF Lpa, Lpas, Path

\* An entry is on a translation page.
LEMMA TpageFacts ==
    ASSUME NEW l \in Lpas
    PROVE  Tpage(l) \in Tpages
<1>. DEFINE q == l \div EPP
<1>1. EPP \in Nat \ {0} /\ NrTpages \in Nat \ {0} /\ l \in 0 .. NrTpages * EPP - 1
  BY CacheAssumption DEF Lpas
<1>2. q \in Int /\ l % EPP \in 0 .. EPP - 1 /\ l = EPP * q + (l % EPP)
  BY <1>1, Division
<1>. HIDE DEF q
<1>3. ~ q >= NrTpages
  <2>1. SUFFICES ASSUME q >= NrTpages PROVE FALSE
    OBVIOUS
  <2>2. EPP * q >= EPP * NrTpages
    BY <1>1, <1>2, <2>1
  <2>. QED
    BY <1>1, <1>2, <2>2
<1>4. ~ q < 0
  <2>1. SUFFICES ASSUME q < 0 PROVE FALSE
    OBVIOUS
  <2>2. EPP * q <= - EPP
    BY <1>1, <1>2, <2>1
  <2>. QED
    BY <1>1, <1>2, <2>2
<1>. QED
  BY <1>1, <1>2, <1>3, <1>4 DEF Tpage, Tpages, q

\* A key has one entry in a table.
LEMMA OneEntry ==
    ASSUME NEW t, NEW m \in Nat, Placed(t, m), NEW k \in Single,
           NEW x \in Lpas, NEW y \in Lpas, Holds(t, x, k), Holds(t, y, k)
    PROVE  x = y
<1>1. PICK c \in 0 .. m : x = Lpa(k, c) /\ Passed(t, k, c)
  BY DEF Placed
<1>2. PICK d \in 0 .. m : y = Lpa(k, d) /\ Passed(t, k, d)
  BY DEF Placed
<1>3. ~ c < d
  BY <1>1, <1>2 DEF Passed, Holds
<1>4. ~ d < c
  BY <1>1, <1>2 DEF Passed, Holds
<1>. QED
  BY <1>1, <1>2, <1>3, <1>4

-----------------------------------------------------------------------------
(* The nodes of the cache. *)

\* An element before a sequence.
LEMMA ConsFacts ==
    ASSUME NEW S, NEW x \in S, NEW q \in Seq(S)
    PROVE  /\ <<x>> \o q \in Seq(S) /\ Len(<<x>> \o q) = Len(q) + 1
           /\ (<<x>> \o q)[1] = x
           /\ \A i \in 1 .. Len(q) : (<<x>> \o q)[i + 1] = q[i]
<1> DEFINE s == <<x>> \o q
<1>1. <<x>> \in Seq(S) /\ Len(<<x>>) = 1 /\ <<x>>[1] = x
  OBVIOUS
<1>2. Len(q) \in Nat
  BY LenProperties
<1>3. /\ s \in Seq(S) /\ Len(s) = 1 + Len(q)
      /\ \A i \in 1 .. 1 + Len(q) : s[i] = IF i <= 1 THEN <<x>>[i] ELSE q[i - 1]
  BY <1>1, ConcatProperties
<1>. HIDE DEF s
<1>4. s[1] = x
  BY <1>1, <1>2, <1>3
<1>5. ASSUME NEW i \in 1 .. Len(q) PROVE s[i + 1] = q[i]
  <2>1. i + 1 \in 1 .. 1 + Len(q) /\ ~ i + 1 <= 1 /\ (i + 1) - 1 = i
    BY <1>2
  <2>2. s[i + 1] = q[(i + 1) - 1]
    BY <1>3, <2>1
  <2>. QED
    BY <2>1, <2>2
<1>6. Len(s) = Len(q) + 1
  BY <1>2, <1>3
<1>. QED
  BY <1>3, <1>4, <1>5, <1>6 DEF s

\* A page is cached if one of the nodes is in use for it.
LEMMA ListedFacts ==
    ASSUME NEW l \in Seq(Nodes)
    PROVE  /\ DOMAIN l = 1 .. Len(l) /\ Len(l) \in Nat
           /\ \A d : Listed(d, l) <=> \E i \in 1 .. Len(l) : l[i] = <<d, TRUE>>
BY LenProperties DEF Listed

\* Touch takes the node of a cached page to the front; no page is lost by it.
LEMMA TouchFacts ==
    ASSUME NEW l \in Seq(Nodes), NEW d \in Tpages, Listed(d, l)
    PROVE  /\ Touch(d, l) \in Seq(Nodes) /\ Len(Touch(d, l)) = Len(l)
           /\ \A e \in Tpages : Listed(e, l) => Listed(e, Touch(d, l))
<1> DEFINE i == CHOOSE j \in DOMAIN l : l[j] = <<d, TRUE>>
           h == SubSeq(l, 1, i - 1)
           r == SubSeq(l, i + 1, Len(l))
           s == <<l[i]>> \o (h \o r)
<1>1. i \in 1 .. Len(l) /\ Len(l) \in Nat
  BY ListedFacts
<1>2. Touch(d, l) = s
  BY DEF Touch, RemoveAt
<1>. HIDE DEF i
<1>3. /\ h \in Seq(Nodes) /\ Len(h) = i - 1 /\ \A j \in 1 .. i - 1 : h[j] = l[j]
  BY <1>1, SubSeqProperties
<1>4. /\ r \in Seq(Nodes) /\ Len(r) = Len(l) - i
      /\ \A j \in 1 .. Len(l) - i : r[j] = l[j + i]
  BY <1>1, SubSeqProperties
<1>5. l[i] \in Nodes /\ <<l[i]>> \in Seq(Nodes) /\ Len(<<l[i]>>) = 1
  BY <1>1
<1>. HIDE DEF h, r
<1>6. /\ s \in Seq(Nodes) /\ Len(s) = Len(l)
      /\ s[1] = l[i]
      /\ \A j \in 1 .. i - 1 : s[j + 1] = l[j]
      /\ \A j \in i + 1 .. Len(l) : s[j] = l[j]
  <2>. DEFINE q == h \o r
  <2>1. /\ q \in Seq(Nodes) /\ Len(q) = Len(l) - 1
        /\ \A j \in 1 .. i - 1 : q[j] = h[j]
        /\ \A j \in i .. Len(l) - 1 : q[j] = r[j - (i - 1)]
    <3>1. /\ q \in Seq(Nodes) /\ Len(q) = Len(h) + Len(r)
          /\ \A j \in 1 .. Len(h) + Len(r) : q[j] = IF j <= Len(h) THEN h[j] ELSE r[j - Len(h)]
      BY <1>3, <1>4, ConcatProperties
    <3>. HIDE DEF q
    <3>2. Len(h) + Len(r) = Len(l) - 1
      BY <1>1, <1>3, <1>4
    <3>. QED
      BY <1>1, <1>3, <3>1, <3>2
  <2>. HIDE DEF q
  <2>2. /\ s \in Seq(Nodes) /\ Len(s) = Len(l) /\ s[1] = l[i]
        /\ \A j \in 2 .. Len(l) : s[j] = q[j - 1]
    <3>1. /\ s \in Seq(Nodes) /\ Len(s) = Len(q) + 1 /\ s[1] = l[i]
          /\ \A j \in 1 .. Len(q) : s[j + 1] = q[j]
      BY <1>5, <2>1, ConsFacts DEF q
    <3>. HIDE DEF s
    <3>2. \A j \in 2 .. Len(l) : j - 1 \in 1 .. Len(q) /\ (j - 1) + 1 = j
      BY <1>1, <2>1
    <3>3. \A j \in 2 .. Len(l) : s[j] = q[j - 1]
      BY <3>1, <3>2
    <3>4. Len(s) = Len(l)
      BY <1>1, <2>1, <3>1
    <3>. QED
      BY <3>1, <3>3, <3>4
  <2>. HIDE DEF s
  <2>3. ASSUME NEW j \in 1 .. i - 1 PROVE s[j + 1] = l[j]
    <3>1. j + 1 \in 2 .. Len(l) /\ (j + 1) - 1 = j
      BY <1>1
    <3>. QED
      BY <1>3, <2>1, <2>2, <3>1
  <2>4. ASSUME NEW j \in i + 1 .. Len(l) PROVE s[j] = l[j]
    <3>1. j \in 2 .. Len(l) /\ j - 1 \in i .. Len(l) - 1
      BY <1>1
    <3>2. (j - 1) - (i - 1) = j - i /\ j - i \in 1 .. Len(l) - i /\ (j - i) + i = j
      BY <1>1
    <3>. QED
      BY <1>4, <2>1, <2>2, <3>1, <3>2
  <2>. QED
    BY <2>2, <2>3, <2>4
<1>. HIDE DEF s
<1>7. ASSUME NEW e \in Tpages, Listed(e, l) PROVE Listed(e, s)
  <2>1. PICK j \in 1 .. Len(l) : l[j] = <<e, TRUE>>
    BY <1>7, ListedFacts
  <2>2. \E m \in 1 .. Len(s) : s[m] = l[j]
    <3>1. CASE j = i
      BY <3>1, <1>1, <1>6
    <3>2. CASE j < i
      <4>1. j + 1 \in 1 .. Len(s) /\ j \in 1 .. i - 1
        BY <3>2, <1>1, <1>6
      <4>. QED
        BY <4>1, <1>6
    <3>3. CASE j > i
      <4>1. j \in 1 .. Len(s) /\ j \in i + 1 .. Len(l)
        BY <3>3, <1>1, <1>6
      <4>. QED
        BY <4>1, <1>6
    <3>. QED
      BY <3>1, <3>2, <3>3, <1>1
  <2>. QED
    BY <1>6, <2>1, <2>2, ListedFacts
<1>. QED
  BY <1>2, <1>6, <1>7

\* Unlist changes the nodes of its page only.
LEMMA UnlistFacts ==
    ASSUME NEW l \in Seq(Nodes), NEW d \in Tpages
    PROVE  /\ Unlist(d, l) \in Seq(Nodes) /\ Len(Unlist(d, l)) = Len(l)
           /\ \A e \in Tpages \ {d} : Listed(e, l) => Listed(e, Unlist(d, l))
<1> DEFINE s == [i \in 1 .. Len(l) |-> IF l[i][1] = d THEN <<d, FALSE>> ELSE l[i]]
<1>1. Unlist(d, l) = s
  BY ListedFacts DEF Unlist
<1>2. \A i \in 1 .. Len(l) : s[i] \in Nodes
  <2>1. \A i \in 1 .. Len(l) : l[i] \in Nodes
    BY ElementOfSeq
  <2>. QED
    BY <2>1 DEF Nodes
<1>3. s \in Seq(Nodes) /\ Len(s) = Len(l)
  <2>1. Len(l) \in Nat
    BY ListedFacts
  <2>2. s \in [1 .. Len(l) -> Nodes]
    BY <1>2
  <2>. HIDE DEF s
  <2>. QED
    BY <2>1, <2>2, FunctionIsSeq
<1>4. ASSUME NEW e \in Tpages \ {d}, Listed(e, l) PROVE Listed(e, s)
  <2>1. PICK j \in 1 .. Len(l) : l[j] = <<e, TRUE>>
    BY <1>4, ListedFacts
  <2>2. s[j] = <<e, TRUE>>
    <3>1. l[j][1] # d
      BY <2>1
    <3>. QED
      BY <2>1, <3>1
  <2>. HIDE DEF s
  <2>. QED
    BY <1>3, <2>1, <2>2, ListedFacts
<1>. QED
  BY <1>1, <1>3, <1>4

\* Push lists its page and keeps the others.
LEMMA PushFacts ==
    ASSUME NEW l \in Seq(Nodes), NEW d \in Tpages
    PROVE  /\ Push(d, l) \in Seq(Nodes) /\ Len(Push(d, l)) = Len(l) + 1
           /\ Listed(d, Push(d, l))
           /\ \A e \in Tpages : Listed(e, l) => Listed(e, Push(d, l))
<1> DEFINE u == Unlist(d, l)
           x == <<d, TRUE>>
           s == <<x>> \o u
<1>1. /\ u \in Seq(Nodes) /\ Len(u) = Len(l)
      /\ \A e \in Tpages \ {d} : Listed(e, l) => Listed(e, u)
  BY UnlistFacts
<1>2. Push(d, l) = s
  BY DEF Push
<1>. HIDE DEF u
<1>3. x \in Nodes
  BY DEF Nodes
<1>. HIDE DEF x
<1>4. /\ s \in Seq(Nodes) /\ Len(s) = Len(l) + 1 /\ s[1] = x
      /\ \A i \in 1 .. Len(u) : s[i + 1] = u[i]
  BY <1>1, <1>3, ConsFacts
<1>. HIDE DEF s
<1>5. Listed(d, s)
  <2>1. 1 \in 1 .. Len(s)
    BY <1>4, ListedFacts
  <2>. QED
    BY <1>4, <2>1, ListedFacts DEF x
<1>6. ASSUME NEW e \in Tpages \ {d}, Listed(e, l) PROVE Listed(e, s)
  <2>1. PICK j \in 1 .. Len(u) : u[j] = <<e, TRUE>>
    BY <1>1, <1>6, ListedFacts
  <2>2. j + 1 \in 1 .. Len(s) /\ s[j + 1] = <<e, TRUE>>
    <3>1. Len(u) \in Nat
      BY <1>1, ListedFacts
    <3>2. j + 1 \in 1 .. Len(s)
      BY <1>1, <1>4, <3>1
    <3>. QED
      BY <1>4, <2>1, <3>2
  <2>. QED
    BY <1>4, <2>2, ListedFacts
<1>. QED
  BY <1>2, <1>4, <1>5, <1>6

\* Pop removes the last node; of the other pages nothing is lost.
LEMMA PopFacts ==
    ASSUME NEW l \in Seq(Nodes), Len(l) > 0
    PROVE  /\ Victim(l) \in Tpages
           /\ Pop(l) \in Seq(Nodes) /\ Len(Pop(l)) = Len(l) - 1
           /\ \A e \in Tpages \ {Victim(l)} : Listed(e, l) => Listed(e, Pop(l))
<1> DEFINE v == Victim(l)
           f == SubSeq(l, 1, Len(l) - 1)
<1>1. l[Len(l)] \in Nodes /\ v = l[Len(l)][1]
  BY DEF Victim, Last
<1>2. v \in Tpages
  BY <1>1 DEF Nodes
<1>3. /\ f \in Seq(Nodes) /\ Len(f) = Len(l) - 1
      /\ \A j \in 1 .. Len(l) - 1 : f[j] = l[j]
  <2>1. Len(l) \in Nat /\ Len(l) > 0
    BY ListedFacts
  <2>2. \A j \in 1 .. Len(l) - 1 : l[j] \in Nodes /\ 1 + j - 1 = j
    BY <2>1
  <2>3. /\ f \in Seq(Nodes) /\ Len(f) = IF 1 <= Len(l) - 1 THEN Len(l) - 1 - 1 + 1 ELSE 0
        /\ \A j \in 1 .. Len(l) - 1 - 1 + 1 : f[j] = l[1 + j - 1]
    BY <2>1, <2>2, SubSeqProperties
  <2>. HIDE DEF f
  <2>4. Len(l) - 1 - 1 + 1 = Len(l) - 1
    BY <2>1
  <2>5. ASSUME NEW j \in 1 .. Len(l) - 1 PROVE f[j] = l[j]
    <3>1. f[j] = l[1 + j - 1]
      BY <2>3, <2>4
    <3>2. 1 + j - 1 = j
      BY <2>1
    <3>. QED
      BY <3>1, <3>2
  <2>6. Len(f) = Len(l) - 1
    <3>. DEFINE n == Len(l) - 1
    <3>1. Len(f) = IF 1 <= n THEN n ELSE 0
      BY <2>3, <2>4
    <3>2. n \in Nat
      BY <2>1
    <3>. HIDE DEF n
    <3>3. n = IF 1 <= n THEN n ELSE 0
      BY <3>2
    <3>4. Len(f) = n
      BY <3>1, <3>3
    <3>. QED
      BY <3>4 DEF n
  <2>. QED
    BY <2>3, <2>5, <2>6
<1>4. Pop(l) = Unlist(v, f)
  BY DEF Pop, Front
<1>. HIDE DEF f, v
<1>5. ASSUME NEW e \in Tpages \ {v}, Listed(e, l) PROVE Listed(e, f)
  <2>1. PICK j \in 1 .. Len(l) : l[j] = <<e, TRUE>>
    BY <1>5, ListedFacts
  <2>2. j # Len(l)
    BY <1>1, <2>1
  <2>3. Len(l) \in Nat
    BY ListedFacts
  <2>4. j \in 1 .. Len(f) /\ f[j] = <<e, TRUE>>
    <3>1. j \in 1 .. Len(l) - 1
      BY <2>2, <2>3
    <3>. QED
      BY <1>3, <2>1, <3>1
  <2>. QED
    BY <1>3, <2>4, ListedFacts
<1>6. /\ Unlist(v, f) \in Seq(Nodes) /\ Len(Unlist(v, f)) = Len(f)
      /\ \A e \in Tpages \ {v} : Listed(e, f) => Listed(e, Unlist(v, f))
  BY <1>2, <1>3, UnlistFacts
<1>. QED
  BY <1>2, <1>3, <1>4, <1>5, <1>6 DEF v

-----------------------------------------------------------------------------
(* The cache. *)

\* An update keeps the cache sound, and so does the update after GC.
LEMMA UpdatedSound ==
    ASSUME NEW c, Sound(c), NEW d \in Tpages
    PROVE  Sound(Updated(d, c))
<1>1. CASE ~Listed(d, c.lru)
  BY <1>1 DEF Updated
<1>2. CASE Listed(d, c.lru)
  <2> DEFINE u == [lru |-> Touch(d, c.lru), dirty |-> c.dirty \union {d},
                   onFlash |-> IF d \in c.dirty THEN c.onFlash ELSE c.onFlash \ {d}]
  <2>1. Updated(d, c) = u
    BY <1>2 DEF Updated
  <2>2. /\ u.lru = Touch(d, c.lru) /\ u.dirty = c.dirty \union {d}
        /\ u.onFlash \subseteq c.onFlash /\ (d \in c.dirty \/ d \notin u.onFlash)
    OBVIOUS
  <2>. HIDE DEF u
  <2>3. c.lru \in Seq(Nodes) /\ Len(c.lru) <= Capacity
    BY DEF Sound
  <2>4. /\ u.lru \in Seq(Nodes) /\ Len(u.lru) <= Capacity
        /\ \A e \in Tpages : Listed(e, c.lru) => Listed(e, u.lru)
    BY <1>2, <2>2, <2>3, TouchFacts
  <2>. QED
    BY <1>2, <2>1, <2>2, <2>4, Zenon DEF Sound
<1>. QED
  BY <1>1, <1>2

LEMMA RemapSound ==
    ASSUME NEW c, Sound(c), NEW d \in Tpages
    PROVE  Sound(Remap(c, d))
<1>1. CASE Listed(d, c.lru)
  BY <1>1, UpdatedSound DEF Remap
<1>2. CASE ~Listed(d, c.lru)
  <2> DEFINE u == [c EXCEPT !.onFlash = @ \union {d}]
  <2>1. Remap(c, d) = u
    BY <1>2 DEF Remap
  <2>2. u.lru = c.lru /\ u.dirty = c.dirty
    OBVIOUS
  <2>3. u.onFlash \subseteq c.onFlash \union {d}
    OBVIOUS
  <2>. HIDE DEF u
  <2>. QED
    BY <1>2, <2>1, <2>2, <2>3, Zenon DEF Sound
<1>. QED
  BY <1>1, <1>2

\* A page that is listed up displaces another one only once that is written.
LEMMA ListUpSound ==
    ASSUME CacheOK, NEW d \in Tpages, ListUp(d)
    PROVE  CacheOK'
<1> DEFINE l == IF Full(lru) THEN Pop(lru) ELSE lru
<1>1. /\ lru \in Seq(Nodes) /\ Len(lru) <= Capacity /\ dirty \subseteq Tpages
      /\ onFlash \subseteq Tpages /\ \A e \in dirty : Listed(e, lru) /\ e \notin onFlash
  BY DEF CacheOK, Sound, Cache
<1>2. Len(lru) \in Nat /\ Capacity \in Nat \ {0}
  BY <1>1, ListedFacts, CacheAssumption
<1>3. lru' = Push(d, l)
  BY DEF ListUp
<1>4. /\ l \in Seq(Nodes) /\ Len(l) <= Capacity - 1
      /\ \A e \in dirty' : Listed(e, l)
      /\ dirty' \subseteq Tpages /\ onFlash' \subseteq Tpages
      /\ \A e \in dirty' : e \notin onFlash'
  <2>1. CASE Full(lru)
    <3>1. Len(lru) = Capacity
      BY <1>1, <1>2, <2>1 DEF Full
    <3>2. /\ Victim(lru) \in Tpages
          /\ Pop(lru) \in Seq(Nodes) /\ Len(Pop(lru)) = Len(lru) - 1
          /\ \A e \in Tpages \ {Victim(lru)} : Listed(e, lru) => Listed(e, Pop(lru))
      BY <1>1, <1>2, <3>1, PopFacts
    <3>3. dirty' = dirty \ {Victim(lru)} /\ onFlash' \subseteq onFlash \union {Victim(lru)}
      BY <2>1 DEF ListUp
    <3>4. l = Pop(lru)
      BY <2>1
    <3>. HIDE DEF l
    <3>5. Len(l) <= Capacity - 1
      BY <1>2, <3>1, <3>2, <3>4
    <3>. QED
      BY <1>1, <3>2, <3>3, <3>4, <3>5, Zenon
  <2>2. CASE ~Full(lru)
    <3>1. l = lru /\ dirty' = dirty
      BY <2>2 DEF ListUp
    <3>2. onFlash' = onFlash
      BY <2>2 DEF ListUp, DirtyVictim
    <3>3. Len(lru) <= Capacity - 1
      BY <1>2, <2>2 DEF Full
    <3>. HIDE DEF l
    <3>. QED
      BY <1>1, <3>1, <3>2, <3>3
  <2>. QED
    BY <2>1, <2>2
<1>. HIDE DEF l
<1>5. /\ lru' \in Seq(Nodes) /\ Len(lru') = Len(l) + 1
      /\ \A e \in Tpages : Listed(e, l) => Listed(e, lru')
  BY <1>3, <1>4, PushFacts
<1>6. Len(lru') <= Capacity
  <2>1. Len(l) \in Nat
    BY <1>4, ListedFacts
  <2>. QED
    BY <1>2, <1>4, <1>5, <2>1
<1>. QED
  BY <1>4, <1>5, <1>6 DEF CacheOK, Sound, Cache

-----------------------------------------------------------------------------
(* Steps that several parts of the invariant treat alike. *)

\* A user that is not idle is at an entry of its key's way.
LEMMA AtFacts ==
    ASSUME Types, NEW u \in Users, pc[u] # "idle"
    PROVE  /\ KeyOf(u) \in Keys /\ cnt[u] \in Nat /\ At(u) = Lpa(KeyOf(u), cnt[u])
           /\ At(u) \in Lpas /\ At(u) \in Path(KeyOf(u)) /\ Page(u) \in Tpages
<1>1. KeyOf(u) \in Keys
  BY DEF Types, UserTypes, ReadTypes, Users, KeyOf
<1>2. cnt[u] \in Nat
  BY DEF Types, UserTypes
<1>. QED
  BY <1>1, <1>2, LpaFacts, TpageFacts DEF At, Page

\* A step towards the page moves one user and leaves the table alone.
OnTheWay(u) == Hit(u) \/ Load(u) \/ ListAndWait(u) \/ List(u)

LEMMA OnTheWayFacts ==
    ASSUME Types, NEW u \in Users, OnTheWay(u)
    PROVE  /\ UNCHANGED <<store, flush, table, max_try, cnt, reads>>
           /\ pc[u] # "idle" /\ busy' \in {u, NULL}
           /\ \E w \in {"loading", "evicting", "check"} : pc' = [pc EXCEPT ![u] = w]
           /\ u \in Reqs /\ pc[u] = "ready" => Looks(u)
<1>1. CASE Hit(u)
  BY <1>1 DEF Hit, GoOn, Ready
<1>2. CASE Load(u)
  BY <1>2 DEF Load, Suspend, Ready
<1>3. CASE ListAndWait(u)
  BY <1>3, CacheAssumption DEF ListAndWait, NeedsListing, Suspend, Ready, Users
<1>4. CASE List(u)
  BY <1>4, CacheAssumption DEF List, NeedsListing, GoOn, Ready, Users
<1>. QED
  BY <1>1, <1>2, <1>3, <1>4 DEF OnTheWay

\* The next probe: the entry at hand is not the one that is looked for.
NextProbe(u) == Probe(u) \/ (u \in Reqs /\ OtherKey(u)) \/ (u \in Keys /\ SameFlush(u))

LEMMA NextProbeFacts ==
    ASSUME Types, NEW u \in Users, NextProbe(u)
    PROVE  /\ UNCHANGED <<store, flush, table, max_try, cache, reads>>
           /\ pc[u] \in {"check", "evicting"} /\ busy' \in {u, NULL}
           /\ cnt' = [cnt EXCEPT ![u] = @ + 1] /\ pc' = [pc EXCEPT ![u] = "ready"]
           /\ u \in Reqs => ~Holds(table, At(u), want[u])
           /\ u \in Keys => /\ table[At(u)] # NULL
                            /\ ~SameFp(u) \/ At(u) \in fresh
<1>1. CASE Probe(u)
  BY <1>1, CacheAssumption DEF Probe, Checks, SameFp, Holds, KeyOf, Users
<1>2. CASE u \in Reqs /\ OtherKey(u)
  BY <1>2, CacheAssumption DEF OtherKey, Checks, SameFp, Holds, Suspend, Users
<1>3. CASE u \in Keys /\ SameFlush(u)
  BY <1>3, CacheAssumption DEF SameFlush, Checks, SameFp, Users
<1>. QED
  BY <1>1, <1>2, <1>3 DEF NextProbe

\* The end of a read.
Ends(r) == FoundInBuffer(r) \/ NotFound(r) \/ Found(r)

LEMMA EndsFacts ==
    ASSUME Types, NEW r \in Reqs, Ends(r)
    PROVE  /\ UNCHANGED <<store, flush, table, max_try, cache, cnt, want, from>>
           /\ pc[r] # "idle" /\ busy' = NULL /\ pc' = [pc EXCEPT ![r] = "idle"]
           /\ ended' = [ended EXCEPT ![r] = @ + 1]
           /\ \E v \in 0 .. MaxVer : got' = [got EXCEPT ![r] = v]
<1>1. CASE FoundInBuffer(r)
  BY <1>1 DEF FoundInBuffer, Finish, Suspend, Ready, InBuffer,
                 Types, StoreTypes
<1>2. CASE NotFound(r)
  <2>1. 0 \in 0 .. MaxVer
    BY CacheAssumption
  <2>. QED
    BY <1>2, <2>1 DEF NotFound, Finish, Suspend, Ready
<1>3. CASE Found(r)
  <2>1. pc[r] # "idle" /\ At(r) \in Lpas
    BY <1>3, AtFacts DEF Found, Checks, Users
  <2>2. table[At(r)] \in Entries
    BY <1>3, <2>1 DEF Found, SameFp, Types, TableTypes
  <2>3. table[At(r)][2] \in 0 .. MaxVer
    BY <2>2, CacheAssumption DEF Entries
  <2>. QED
    BY <1>3, <2>1, <2>3 DEF Found, Finish, Suspend
<1>. QED
  BY <1>1, <1>2, <1>3 DEF Ends

\* Every step is one of these.
LEMMA Steps ==
    ASSUME Next
    PROVE  \/ \E k \in Keys : Set(k) \/ Update(k)
           \/ \E u \in Users : OnTheWay(u) \/ NextProbe(u)
           \/ \E r \in Reqs : Ends(r) \/ NeverWritten(r) \/ \E k \in Keys : Read(r, k)
           \/ BeginFlush \/ BeginMapping \/ EndFlush
           \/ \E l1, l2 \in Lpas : GcRemap(l1, l2)
BY DEF Next, EntryStep, ReadStep, Way, FlushFrame, Users, OnTheWay, NextProbe, Ends

\* Sets and the end of a flush alone change the store.
LEMMA StoreSteps ==
    ASSUME Types, [Next]_vars
    PROVE  UNCHANGED store \/ (\E k \in Keys : Set(k)) \/ EndFlush
BY Steps, OnTheWayFacts, NextProbeFacts, EndsFacts
   DEF vars, Update, NeverWritten, Read, BeginFlush, BeginMapping, GcRemap

\* Updates alone change the table.
LEMMA TableSteps ==
    ASSUME Types, [Next]_vars
    PROVE  UNCHANGED <<table, max_try>> \/ \E k \in Keys : Update(k)
BY Steps, OnTheWayFacts, NextProbeFacts, EndsFacts
   DEF vars, Set, NeverWritten, Read, BeginFlush, BeginMapping, EndFlush, GcRemap

-----------------------------------------------------------------------------
(* The table. *)

\* An entry of a key without a twin is not taken for another key's.
LEMMA SingleFacts ==
    ASSUME NEW k \in Single, NEW j \in Keys, FpOf[j] = FpOf[k],
           NEW x, x \in Path(j), x \in Path(k)
    PROVE  j = k
BY DEF Single, Twin

\* An entry that is free, or of k's fingerprint, is given to k.
LEMMA EntryGiven ==
    ASSUME table \in [Lpas -> Entries \union {NULL}], OnPath(table),
           NEW k \in Keys, NEW l \in Lpas, l \in Path(k),
           table[l] = NULL \/ FpOf[table[l][1]] = FpOf[k],
           NEW v \in 1 .. MaxVer, table' = [table EXCEPT ![l] = <<k, v>>]
    PROVE  /\ table'[l] = <<k, v>> /\ \A x \in Lpas \ {l} : table'[x] = table[x]
           /\ table'[l] # NULL /\ OnPath(table')
           /\ \A j \in Keys, n \in Nat : Passed(table, j, n) => Passed(table', j, n)
           /\ \A j \in Single \ {k}, x \in Lpas : Holds(table, x, j) => table'[x] = table[x]
<1>1. table'[l] = <<k, v>> /\ \A x \in Lpas \ {l} : table'[x] = table[x]
  OBVIOUS
<1>2. <<k, v>> # NULL
  BY CacheAssumption
<1>3. OnPath(table')
  BY <1>1 DEF OnPath
<1>4. ASSUME NEW j \in Keys, NEW n \in Nat, Passed(table, j, n) PROVE Passed(table', j, n)
  <2>1. SUFFICES ASSUME NEW i \in 0 .. n - 1
                 PROVE  table'[Lpa(j, i)] # NULL /\ FpOf[table'[Lpa(j, i)][1]] # FpOf[j]
    BY DEF Passed
  <2>2. Lpa(j, i) \in Lpas /\ table[Lpa(j, i)] # NULL /\ FpOf[table[Lpa(j, i)][1]] # FpOf[j]
    BY <1>4, LpaFacts DEF Passed
  <2>3. CASE Lpa(j, i) = l
    BY <1>1, <1>2, <2>2, <2>3
  <2>4. CASE Lpa(j, i) # l
    BY <1>1, <2>2, <2>4
  <2>. QED
    BY <2>3, <2>4
<1>5. ASSUME NEW j \in Single \ {k}, NEW x \in Lpas, Holds(table, x, j) PROVE table'[x] = table[x]
  <2>1. x = l => l \in Path(j) /\ FpOf[j] = FpOf[k]
    BY <1>5 DEF Holds, OnPath
  <2>2. x # l
    BY <2>1, SingleFacts DEF Single
  <2>. QED
    BY <1>1, <2>2
<1>. QED
  BY <1>1, <1>2, <1>3, <1>4, <1>5

\* What an update finds and does.
LEMMA UpdateFacts ==
    ASSUME IInv, NEW k \in Keys, Update(k)
    PROVE  /\ k \in Users /\ k \notin Reqs /\ pc[k] # "idle" /\ k \in DOMAIN wb
           /\ wb[k] = latest[k] /\ wb[k] \in 1 .. MaxVer /\ phase = "map"
           /\ cnt[k] \in Nat /\ At(k) = Lpa(k, cnt[k]) /\ At(k) \in Lpas
           /\ At(k) \notin fresh
           /\ table[At(k)] = NULL \/ FpOf[table[At(k)][1]] = FpOf[k]
           /\ table'[At(k)] = <<k, wb[k]>> /\ table'[At(k)] # NULL
           /\ \A x \in Lpas \ {At(k)} : table'[x] = table[x]
           /\ OnPath(table')
           /\ \A j \in Keys, n \in Nat : Passed(table, j, n) => Passed(table', j, n)
           /\ \A j \in Single \ {k}, x \in Lpas : Holds(table, x, j) => table'[x] = table[x]
<1>1. Types /\ StoreTypes /\ TableTypes /\ BufferOK /\ TableOK /\ FlushOK
  BY DEF IInv, Types
<1>2. k \in Users /\ k \notin Reqs /\ pc[k] # "idle"
  BY CacheAssumption DEF Users, Update, Checks
<1>3. KeyOf(k) = k
  BY <1>2 DEF KeyOf
<1>4. cnt[k] \in Nat /\ At(k) = Lpa(k, cnt[k]) /\ At(k) \in Lpas /\ At(k) \in Path(k)
  BY <1>1, <1>2, <1>3, AtFacts
<1>5. k \in DOMAIN wb /\ phase = "map"
  BY <1>1, <1>2 DEF FlushOK
<1>6. wb[k] = latest[k] /\ wb[k] \in 1 .. MaxVer
  <2>1. wb[k] \in 0 .. MaxVer /\ wb[k] > 0 /\ wb[k] = latest[k]
    BY <1>1, <1>5 DEF BufferOK, StoreTypes
  <2>. QED
    BY <2>1, CacheAssumption
<1>7. table[At(k)] = NULL \/ (FpOf[table[At(k)][1]] = FpOf[k] /\ At(k) \notin fresh)
  BY <1>3 DEF Update, SameFp
<1>8. At(k) \notin fresh
  BY <1>1, <1>7, CacheAssumption DEF FlushOK, StoreTypes
<1>9. table' = [table EXCEPT ![At(k)] = <<k, wb[k]>>]
  BY DEF Update
<1>10. table \in [Lpas -> Entries \union {NULL}] /\ OnPath(table)
  BY <1>1 DEF TableTypes, TableOK
<1>11. /\ table'[At(k)] = <<k, wb[k]>> /\ \A x \in Lpas \ {At(k)} : table'[x] = table[x]
       /\ table'[At(k)] # NULL /\ OnPath(table')
       /\ \A j \in Keys, n \in Nat : Passed(table, j, n) => Passed(table', j, n)
       /\ \A j \in Single \ {k}, x \in Lpas : Holds(table, x, j) => table'[x] = table[x]
  <2>1. table[At(k)] = NULL \/ FpOf[table[At(k)][1]] = FpOf[k]
    BY <1>7
  <2>. QED
    BY <1>4, <1>6, <1>9, <1>10, <2>1, EntryGiven
<1>. QED
  BY <1>2, <1>4, <1>5, <1>6, <1>7, <1>8, <1>11

-----------------------------------------------------------------------------
(* Each part of the invariant is kept by every step. *)

\* Versions and the buffer keep their types.
LEMMA StoreTypesStep ==
    ASSUME IInv, [Next]_vars
    PROVE  StoreTypes'
<1>1. StoreTypes /\ Types
  BY DEF IInv, Types
<1>2. CASE UNCHANGED store
  BY <1>1, <1>2 DEF StoreTypes, store
<1>3. ASSUME NEW k \in Keys, Set(k) PROVE StoreTypes'
  <2>1. MaxVer \in Nat /\ latest[k] \in 0 .. MaxVer /\ latest[k] < MaxVer
    BY <1>1, <1>3, CacheAssumption DEF StoreTypes, Set
  <2>2. latest[k] + 1 \in 0 .. MaxVer
    BY <2>1
  <2>. QED
    BY <1>1, <1>3, <2>2 DEF StoreTypes, Set
<1>4. CASE EndFlush
  BY <1>1, <1>4 DEF StoreTypes, EndFlush
<1>5. UNCHANGED store \/ (\E k \in Keys : Set(k)) \/ EndFlush
  BY <1>1, StoreSteps
<1>. QED
  BY <1>2, <1>3, <1>4, <1>5

\* So do the flush and the table.
LEMMA TableTypesStep ==
    ASSUME IInv, [Next]_vars
    PROVE  TableTypes'
<1>1. TableTypes /\ Types /\ StoreTypes /\ UserTypes
  BY DEF IInv, Types
<1>2. CASE UNCHANGED <<flush, table, max_try>>
  BY <1>1, <1>2 DEF TableTypes, flush
<1>3. CASE BeginFlush
  BY <1>1, <1>3 DEF TableTypes, BeginFlush
<1>4. CASE BeginMapping
  BY <1>1, <1>4 DEF TableTypes, BeginMapping
<1>5. CASE EndFlush
  BY <1>1, <1>5 DEF TableTypes, EndFlush
<1>6. ASSUME NEW k \in Keys, Update(k) PROVE TableTypes'
  <2>1. k \in Users /\ k \notin Reqs /\ pc[k] # "idle" /\ At(k) \in Lpas /\ cnt[k] \in Nat
    BY <1>1, <1>6, AtFacts, CacheAssumption DEF Users, Update, Checks
  <2>2. k \in DOMAIN wb /\ wb[k] \in 0 .. MaxVer /\ wb[k] > 0
    BY <1>1, <2>1, CacheAssumption DEF IInv, FlushOK, BufferOK, StoreTypes
  <2>3. <<k, wb[k]>> \in Entries
    BY <2>2, CacheAssumption DEF Entries
  <2>4. /\ table' = [table EXCEPT ![At(k)] = <<k, wb[k]>>]
        /\ fresh' = fresh \union {At(k)} /\ phase' = phase
        /\ max_try' \in {max_try, cnt[k]}
    BY <1>6 DEF Update, MaxTry
  <2>. HIDE DEF Entries
  <2>. QED
    BY <1>1, <2>1, <2>3, <2>4 DEF TableTypes
<1>7. \/ UNCHANGED <<flush, table, max_try>>
      \/ BeginFlush \/ BeginMapping \/ EndFlush \/ \E k \in Keys : Update(k)
  BY <1>1, Steps, OnTheWayFacts, NextProbeFacts, EndsFacts
     DEF vars, Set, NeverWritten, Read, GcRemap
<1>. QED
  BY <1>2, <1>3, <1>4, <1>5, <1>6, <1>7

\* So do the users.
LEMMA UserTypesStep ==
    ASSUME IInv, [Next]_vars
    PROVE  UserTypes'
<1>1. UserTypes /\ Types /\ StoreTypes
  BY DEF IInv, Types
<1>2. CASE UNCHANGED <<busy, pc, cnt>>
  BY <1>1, <1>2 DEF UserTypes
<1>3. ASSUME NEW u \in Users, NEW w \in Places, pc' = [pc EXCEPT ![u] = w],
             cnt' = cnt \/ cnt' = [cnt EXCEPT ![u] = @ + 1] \/ cnt' = [cnt EXCEPT ![u] = 0],
             busy' \in {u, NULL, busy}
      PROVE  UserTypes'
  BY <1>1, <1>3 DEF UserTypes
<1>. DEFINE Moved == \E u \in Users, w \in Places :
                /\ pc' = [pc EXCEPT ![u] = w]
                /\ \/ cnt' = cnt \/ cnt' = [cnt EXCEPT ![u] = @ + 1]
                   \/ cnt' = [cnt EXCEPT ![u] = 0]
                /\ busy' \in {u, NULL, busy}
<1>4. ASSUME NEW k \in Keys, Update(k) PROVE Moved
  BY <1>4 DEF Update, Suspend, Users, Places
<1>5. ASSUME NEW u \in Users, OnTheWay(u) \/ NextProbe(u) PROVE Moved
  BY <1>1, <1>5, OnTheWayFacts, NextProbeFacts DEF Places
<1>6. ASSUME NEW r \in Reqs, Ends(r) PROVE Moved
  BY <1>1, <1>6, EndsFacts DEF Users, Places
<1>7. ASSUME NEW r \in Reqs, NeverWritten(r) PROVE Moved
  BY <1>7 DEF NeverWritten, Suspend, Users, Places
<1>8. ASSUME NEW r \in Reqs, NEW k \in Keys, Read(r, k) PROVE Moved
  BY <1>8 DEF Read, Users, Places
<1>9. Moved => UserTypes'
  BY <1>3
<1>10. CASE BeginMapping
  BY <1>1, <1>10 DEF UserTypes, BeginMapping, Places
<1>11. UNCHANGED <<busy, pc, cnt>> \/ Moved \/ BeginMapping
  <2>. HIDE DEF Moved
  <2>. QED
    BY <1>4, <1>5, <1>6, <1>7, <1>8, Steps
       DEF vars, Set, BeginFlush, EndFlush, GcRemap
<1>. QED
  BY <1>2, <1>9, <1>10, <1>11

\* So do the reads, and one that goes on or has ended has a key.
LEMMA ReadTypesStep ==
    ASSUME IInv, [Next]_vars
    PROVE  ReadTypes'
<1>1. ReadTypes /\ Types /\ StoreTypes /\ UserTypes /\ Reqs \intersect Keys = {}
  BY CacheAssumption DEF IInv, Types
<1>2. ASSUME UNCHANGED reads, \A r \in Reqs : pc'[r] # "idle" => pc[r] # "idle"
      PROVE  ReadTypes'
  BY <1>1, <1>2 DEF ReadTypes, reads
<1>3. ASSUME NEW k \in Keys, Update(k) \/ Set(k) PROVE ReadTypes'
  <2>1. UNCHANGED reads
    BY <1>3 DEF Update, Set
  <2>2. \A r \in Reqs : pc'[r] # "idle" => pc[r] # "idle"
    <3>1. pc' = pc \/ pc' = [pc EXCEPT ![k] = "idle"]
      BY <1>3 DEF Update, Set, Suspend
    <3>. QED
      BY <1>1, <3>1 DEF UserTypes, Users
  <2>. QED
    BY <1>2, <2>1, <2>2
<1>4. ASSUME NEW u \in Users, OnTheWay(u) \/ NextProbe(u) PROVE ReadTypes'
  <2>1. UNCHANGED reads /\ pc[u] # "idle" /\ \E w : pc' = [pc EXCEPT ![u] = w]
    BY <1>1, <1>4, OnTheWayFacts, NextProbeFacts
  <2>2. \A r \in Reqs : pc'[r] # "idle" => pc[r] # "idle"
    BY <1>1, <2>1 DEF UserTypes
  <2>. QED
    BY <1>2, <2>1, <2>2
<1>5. ASSUME NEW r \in Reqs, Ends(r) PROVE ReadTypes'
  <2>1. /\ want' = want /\ from' = from /\ pc[r] # "idle"
        /\ pc' = [pc EXCEPT ![r] = "idle"] /\ ended' = [ended EXCEPT ![r] = @ + 1]
        /\ \E v \in 0 .. MaxVer : got' = [got EXCEPT ![r] = v]
    BY <1>1, <1>5, EndsFacts
  <2>. QED
    BY <1>1, <2>1 DEF ReadTypes, UserTypes, Users
<1>6. ASSUME NEW r \in Reqs, NeverWritten(r) PROVE ReadTypes'
  BY <1>1, <1>6 DEF ReadTypes, UserTypes, NeverWritten, Suspend, Ready, Users
<1>7. ASSUME NEW r \in Reqs, NEW k \in Keys, Read(r, k) PROVE ReadTypes'
  BY <1>1, <1>7 DEF ReadTypes, StoreTypes, UserTypes, Read, Users
<1>8. CASE BeginMapping
  <2>1. UNCHANGED reads
    BY <1>8 DEF BeginMapping
  <2>2. \A r \in Reqs : pc'[r] # "idle" => pc[r] # "idle"
    BY <1>1, <1>8 DEF BeginMapping, StoreTypes, Users
  <2>. QED
    BY <1>2, <2>1, <2>2
<1>9. CASE UNCHANGED <<reads, pc>>
  BY <1>2, <1>9
<1>10. BeginFlush \/ EndFlush \/ UNCHANGED vars => UNCHANGED <<reads, pc>>
  BY DEF BeginFlush, EndFlush, vars
<1>11. ASSUME NEW l1 \in Lpas, NEW l2 \in Lpas, GcRemap(l1, l2)
       PROVE  UNCHANGED <<reads, pc>>
  BY <1>11 DEF GcRemap
<1>. QED
  BY <1>3, <1>4, <1>5, <1>6, <1>7, <1>8, <1>9, <1>10, <1>11, Steps

\* The cache stays sound.
LEMMA CacheStep ==
    ASSUME IInv, [Next]_vars
    PROVE  CacheOK'
<1>1. CacheOK /\ Types
  BY DEF IInv
<1>2. CASE UNCHANGED cache
  BY <1>1, <1>2 DEF CacheOK, Sound, Cache, cache
<1>3. ASSUME NEW u \in Users, NextProbe(u) PROVE UNCHANGED cache
  BY <1>1, <1>3, NextProbeFacts
<1>4. ASSUME NEW r \in Reqs, Ends(r) PROVE UNCHANGED cache
  BY <1>1, <1>4, EndsFacts
<1>5. ASSUME NEW u \in Users, Hit(u) PROVE CacheOK'
  <2>1. pc[u] # "idle" /\ Listed(Page(u), lru)
    BY <1>5 DEF Hit, Ready
  <2>2. Page(u) \in Tpages
    BY <1>1, <2>1, AtFacts
  <2>3. lru \in Seq(Nodes) /\ Len(lru) <= Capacity
    BY <1>1 DEF CacheOK, Sound, Cache
  <2>4. /\ lru' = Touch(Page(u), lru) /\ UNCHANGED <<dirty, onFlash>>
        /\ lru' \in Seq(Nodes) /\ Len(lru') <= Capacity
        /\ \A e \in Tpages : Listed(e, lru) => Listed(e, lru')
    BY <1>5, <2>1, <2>2, <2>3, TouchFacts DEF Hit
  <2>. QED
    BY <1>1, <2>4 DEF CacheOK, Sound, Cache
<1>6. ASSUME NEW u \in Users, ListAndWait(u) \/ List(u) PROVE CacheOK'
  <2>1. pc[u] # "idle" /\ ListUp(Page(u))
    BY <1>6 DEF ListAndWait, List, NeedsListing, Ready
  <2>. QED
    BY <1>1, <2>1, AtFacts, ListUpSound
<1>7. ASSUME NEW k \in Keys, Update(k) PROVE CacheOK'
  <2>1. k \in Users /\ pc[k] # "idle"
    BY <1>7 DEF Update, Checks, Users
  <2>2. Sound(Updated(Page(k), Cache))
    BY <1>1, <2>1, AtFacts, UpdatedSound DEF CacheOK
  <2>3. SetCache(Updated(Page(k), Cache))
    BY <1>7 DEF Update
  <2>. QED
    BY <2>2, <2>3 DEF SetCache, Sound, CacheOK, Cache
<1>8. ASSUME NEW l1 \in Lpas, NEW l2 \in Lpas, GcRemap(l1, l2) PROVE CacheOK'
  <2> DEFINE c == Remap(Remap(Cache, Tpage(l1)), Tpage(l2))
  <2>1. Sound(c)
    BY <1>1, TpageFacts, RemapSound DEF CacheOK
  <2>2. SetCache(c)
    BY <1>8 DEF GcRemap
  <2>. HIDE DEF c
  <2>. QED
    BY <2>1, <2>2 DEF SetCache, Sound, CacheOK, Cache
<1>9. ASSUME NEW u \in Users, Load(u) PROVE UNCHANGED cache
  BY <1>9 DEF Load
<1>10. \/ UNCHANGED cache \/ (\E u \in Users : Hit(u) \/ ListAndWait(u) \/ List(u))
       \/ (\E k \in Keys : Update(k)) \/ (\E l1, l2 \in Lpas : GcRemap(l1, l2))
  BY <1>3, <1>4, <1>9, Steps
     DEF OnTheWay, vars, Set, BeginFlush, BeginMapping, EndFlush, NeverWritten, Read
<1>. QED
  BY <1>2, <1>5, <1>6, <1>7, <1>8, <1>10

\* The buffer holds the last versions.
LEMMA BufferStep ==
    ASSUME IInv, [Next]_vars
    PROVE  BufferOK'
<1>1. BufferOK /\ StoreTypes /\ Types
  BY DEF IInv, Types
<1>2. CASE UNCHANGED store
  BY <1>1, <1>2 DEF BufferOK, store
<1>3. ASSUME NEW k \in Keys, Set(k) PROVE BufferOK'
  <2>1. /\ latest' = [latest EXCEPT ![k] = @ + 1]
        /\ wb' = [j \in DOMAIN wb \union {k} |-> IF j = k THEN latest[k] + 1 ELSE wb[j]]
    BY <1>3 DEF Set
  <2>2. latest[k] \in Nat
    BY <1>1 DEF StoreTypes
  <2>. QED
    BY <1>1, <2>1, <2>2 DEF BufferOK, StoreTypes
<1>4. CASE EndFlush
  BY <1>4 DEF EndFlush, BufferOK
<1>5. UNCHANGED store \/ (\E k \in Keys : Set(k)) \/ EndFlush
  BY <1>1, StoreSteps
<1>. QED
  BY <1>2, <1>3, <1>4, <1>5

\* Versions only grow.
LEMMA LatestGrows ==
    ASSUME IInv, [Next]_vars
    PROVE  \A k \in Keys : latest[k] \in Nat /\ latest'[k] \in Nat /\ latest[k] <= latest'[k]
<1>1. Types /\ StoreTypes /\ StoreTypes'
  BY StoreTypesStep DEF IInv, Types
<1>2. ASSUME NEW j \in Keys, Set(j) PROVE \A k \in Keys : latest[k] <= latest'[k]
  BY <1>1, <1>2 DEF Set, StoreTypes
<1>3. latest' = latest => \A k \in Keys : latest[k] <= latest'[k]
  BY <1>1 DEF StoreTypes
<1>4. \A k \in Keys : latest[k] <= latest'[k]
  BY <1>1, <1>2, <1>3, StoreSteps DEF store, EndFlush
<1>. QED
  BY <1>1, <1>4 DEF StoreTypes

\* The table holds versions that were set, each key where its probes come first.
LEMMA TableStep ==
    ASSUME IInv, [Next]_vars
    PROVE  TableOK'
<1>1. /\ Types /\ StoreTypes /\ TableTypes /\ TableOK /\ FlushOK
      /\ StoreTypes' /\ TableTypes'
  BY StoreTypesStep, TableTypesStep DEF IInv, Types
<1>2. \A k \in Keys : latest'[k] >= latest[k]
  BY LatestGrows
<1>3. \A l \in Lpas : table[l] # NULL =>
            table[l][1] \in Keys /\ table[l][2] \in Nat /\ table[l][2] <= latest'[table[l][1]]
  <2>1. SUFFICES ASSUME NEW l \in Lpas, table[l] # NULL
                 PROVE  /\ table[l][1] \in Keys /\ table[l][2] \in Nat
                        /\ table[l][2] <= latest'[table[l][1]]
    OBVIOUS
  <2>2. table[l] \in Entries /\ table[l][2] <= latest[table[l][1]]
    BY <1>1, <2>1 DEF TableTypes, TableOK
  <2>3. table[l][1] \in Keys /\ table[l][2] \in Nat
    BY <2>2 DEF Entries
  <2>4. latest[table[l][1]] \in Nat /\ latest'[table[l][1]] \in Nat
    BY <1>1, <2>3 DEF StoreTypes
  <2>. QED
    BY <1>2, <2>2, <2>3, <2>4
<1>4. CASE UNCHANGED <<table, max_try>>
  BY <1>1, <1>3, <1>4 DEF TableOK
<1>5. ASSUME NEW k \in Keys, Update(k) PROVE TableOK'
  <2>1. max_try' \in Nat /\ max_try' >= max_try /\ max_try' >= cnt[k] /\ latest' = latest
    <3>1. max_try \in Nat /\ cnt[k] \in Nat
      BY <1>1, <1>5, UpdateFacts DEF TableTypes
    <3>2. max_try' = IF cnt[k] > max_try THEN cnt[k] ELSE max_try
      BY <1>5 DEF Update, MaxTry
    <3>3. latest' = latest
      BY <1>5 DEF Update, store
    <3>. QED
      BY <3>1, <3>2, <3>3
  <2>2. \A l \in Lpas : table'[l] # NULL => table'[l][2] <= latest'[table'[l][1]]
    BY <1>1, <1>3, <1>5, <2>1, UpdateFacts DEF StoreTypes
  <2>3. ASSUME NEW j \in Single, NEW x \in Lpas, Holds(table', x, j)
        PROVE  \E c \in 0 .. max_try' : x = Lpa(j, c) /\ Passed(table', j, c)
    <3>1. CASE x = At(k)
      <4>1. j = k
        BY <1>5, <2>3, <3>1, UpdateFacts DEF Holds
      <4>2. Passed(table, k, cnt[k])
        BY <1>1, <1>5, <4>1, UpdateFacts DEF FlushOK
      <4>3. cnt[k] \in 0 .. max_try'
        BY <1>5, <2>1, UpdateFacts
      <4>. QED
        BY <1>5, <3>1, <4>1, <4>2, <4>3, UpdateFacts
    <3>2. CASE x # At(k)
      <4>1. Holds(table, x, j)
        BY <1>5, <2>3, <3>2, UpdateFacts DEF Holds
      <4>2. PICK c \in 0 .. max_try : x = Lpa(j, c) /\ Passed(table, j, c)
        BY <1>1, <4>1 DEF TableOK, Placed
      <4>3. c \in Nat /\ c \in 0 .. max_try' /\ j \in Keys
        BY <1>1, <2>1 DEF TableTypes, Single
      <4>. QED
        BY <1>5, <4>2, <4>3, UpdateFacts
    <3>. QED
      BY <3>1, <3>2
  <2>4. OnPath(table')
    BY <1>5, UpdateFacts
  <2>. QED
    BY <2>2, <2>3, <2>4 DEF TableOK, Placed
<1>. QED
  BY <1>1, <1>4, <1>5, TableSteps

\* The way of the entries that a flush updates.
LEMMA FlushStep ==
    ASSUME IInv, [Next]_vars
    PROVE  FlushOK'
<1>1. /\ Types /\ StoreTypes /\ TableTypes /\ UserTypes /\ TableOK /\ FlushOK
      /\ Reqs \intersect Keys = {} /\ Keys \subseteq Users /\ Reqs \subseteq Users
      /\ Single \subseteq Keys
  BY CacheAssumption DEF IInv, Types, Users, Single
\* Nothing but places and probes changes, of users that are not idle.
<1>2. ASSUME UNCHANGED <<wb, phase, fresh, table>>,
             \A k \in Keys : /\ pc'[k] # "idle" <=> pc[k] # "idle"
                            /\ cnt'[k] = cnt[k]
      PROVE  FlushOK'
  <2>1. \A k \in Keys : pc'[k] # "idle" => phase' = "map" /\ k \in DOMAIN wb'
    BY <1>1, <1>2 DEF FlushOK
  <2>2. \A k \in Single : pc'[k] # "idle" => Passed(table', k, cnt'[k])
    BY <1>1, <1>2 DEF FlushOK
  <2>3. /\ phase' # "map" => fresh' = {}
        /\ \A l \in fresh' : \E j \in DOMAIN wb' : table'[l] = <<j, wb'[j]>> /\ pc'[j] = "idle"
    BY <1>1, <1>2 DEF FlushOK, StoreTypes
  <2>. QED
    BY <2>1, <2>2, <2>3 DEF FlushOK
<1>3. ASSUME NEW k \in Keys, Set(k) PROVE FlushOK'
  <2>1. /\ phase = "serve" /\ phase' = "serve" /\ fresh' = fresh /\ pc' = pc
    BY <1>3 DEF Set, flush
  <2>. QED
    BY <1>1, <2>1 DEF FlushOK
<1>4. CASE BeginFlush
  <2>1. phase = "serve" /\ phase' = "assign" /\ fresh' = fresh /\ pc' = pc
    BY <1>4 DEF BeginFlush
  <2>. QED
    BY <1>1, <2>1 DEF FlushOK
<1>5. CASE BeginMapping
  <2>1. /\ phase = "assign" /\ phase' = "map" /\ fresh' = {} /\ wb' = wb /\ table' = table
        /\ pc' = [u \in Users |-> IF u \in DOMAIN wb THEN "ready" ELSE pc[u]]
        /\ cnt' = [u \in Users |-> IF u \in DOMAIN wb THEN 0 ELSE cnt[u]]
    BY <1>5 DEF BeginMapping, store
  <2>2. \A k \in Keys : pc'[k] # "idle" => k \in DOMAIN wb /\ cnt'[k] = 0
    BY <1>1, <2>1 DEF FlushOK
  <2>3. \A k \in Keys : Passed(table', k, 0)
    BY DEF Passed
  <2>. QED
    BY <1>1, <2>1, <2>2, <2>3 DEF FlushOK
<1>6. CASE EndFlush
  <2>1. /\ fresh' = {} /\ pc' = pc /\ \A k \in DOMAIN wb : pc[k] = "idle"
    BY <1>6 DEF EndFlush
  <2>2. \A k \in Keys : pc'[k] = "idle"
    BY <1>1, <2>1 DEF FlushOK
  <2>. QED
    BY <1>1, <2>1, <2>2 DEF FlushOK
<1>7. ASSUME NEW u \in Users, OnTheWay(u) PROVE FlushOK'
  <2>1. /\ UNCHANGED <<store, flush, table, cnt>> /\ pc[u] # "idle"
        /\ \E w \in {"loading", "evicting", "check"} : pc' = [pc EXCEPT ![u] = w]
    BY <1>1, <1>7, OnTheWayFacts
  <2>2. UNCHANGED <<wb, phase, fresh, table>>
    BY <2>1 DEF store, flush
  <2>3. \A k \in Keys : (pc'[k] # "idle" <=> pc[k] # "idle") /\ cnt'[k] = cnt[k]
    BY <1>1, <2>1 DEF UserTypes
  <2>. QED
    BY <1>2, <2>2, <2>3
<1>8. ASSUME NEW u \in Users, NextProbe(u) PROVE FlushOK'
  <2>1. /\ UNCHANGED <<store, flush, table>> /\ pc[u] # "idle"
        /\ cnt' = [cnt EXCEPT ![u] = @ + 1] /\ pc' = [pc EXCEPT ![u] = "ready"]
        /\ u \in Keys => table[At(u)] # NULL /\ (~SameFp(u) \/ At(u) \in fresh)
    BY <1>1, <1>8, NextProbeFacts
  <2>2. UNCHANGED <<wb, phase, fresh, table>>
    BY <2>1 DEF store, flush
  <2>3. CASE u \in Reqs
    <3>1. \A k \in Keys : (pc'[k] # "idle" <=> pc[k] # "idle") /\ cnt'[k] = cnt[k]
      BY <1>1, <2>1, <2>3 DEF UserTypes
    <3>. QED
      BY <1>2, <2>2, <3>1
  <2>4. CASE u \in Keys
    <3>1. /\ KeyOf(u) = u /\ cnt[u] \in Nat /\ At(u) = Lpa(u, cnt[u])
          /\ At(u) \in Lpas /\ At(u) \in Path(u)
      <4>1. KeyOf(u) = u
        BY <1>1, <2>4 DEF KeyOf
      <4>. QED
        BY <1>1, <2>1, <4>1, AtFacts
    <3>2. ASSUME u \in Single PROVE FpOf[table[At(u)][1]] # FpOf[u]
      <4>1. SUFFICES ASSUME FpOf[table[At(u)][1]] = FpOf[u] PROVE FALSE
        OBVIOUS
      <4>2. At(u) \in fresh
        BY <2>1, <2>4, <3>1, <4>1 DEF SameFp
      <4>3. PICK j \in DOMAIN wb : table[At(u)] = <<j, wb[j]>> /\ pc[j] = "idle"
        BY <1>1, <4>2 DEF FlushOK
      <4>4. j \in Keys /\ FpOf[j] = FpOf[u] /\ At(u) \in Path(j)
        <5>1. j \in Keys /\ table[At(u)][1] = j
          BY <1>1, <4>3 DEF StoreTypes
        <5>2. At(u) \in Path(table[At(u)][1])
          BY <1>1, <2>1, <2>4, <3>1 DEF TableOK, OnPath
        <5>. QED
          BY <4>1, <5>1, <5>2
      <4>5. j = u
        BY <3>1, <3>2, <4>4, SingleFacts
      <4>. QED
        BY <2>1, <4>3, <4>5
    <3>3. ASSUME u \in Single PROVE Passed(table, u, cnt[u] + 1)
      <4>1. Passed(table, u, cnt[u])
        BY <1>1, <2>1, <3>3 DEF FlushOK
      <4>2. \A i \in 0 .. (cnt[u] + 1) - 1 : i \in 0 .. cnt[u] - 1 \/ i = cnt[u]
        BY <3>1
      <4>. QED
        BY <2>1, <2>4, <3>1, <3>2, <3>3, <4>1, <4>2 DEF Passed
    <3>4. \A k \in Keys : pc'[k] # "idle" <=> pc[k] # "idle"
      BY <1>1, <2>1 DEF UserTypes
    <3>5. \A k \in Keys : pc'[k] # "idle" => phase' = "map" /\ k \in DOMAIN wb'
      BY <1>1, <2>2, <3>4 DEF FlushOK
    <3>6. \A k \in Single : pc'[k] # "idle" => Passed(table', k, cnt'[k])
      BY <1>1, <2>1, <2>2, <3>3, <3>4 DEF FlushOK, UserTypes
    <3>7. /\ phase' # "map" => fresh' = {}
          /\ \A l \in fresh' : \E j \in DOMAIN wb' : table'[l] = <<j, wb'[j]>> /\ pc'[j] = "idle"
      BY <1>1, <2>2, <3>4 DEF FlushOK, StoreTypes
    <3>. QED
      BY <3>5, <3>6, <3>7 DEF FlushOK
  <2>. QED
    BY <2>3, <2>4 DEF Users
<1>9. ASSUME NEW r \in Reqs, Ends(r) \/ NeverWritten(r) \/ \E k \in Keys : Read(r, k)
      PROVE  FlushOK'
  <2>1. /\ UNCHANGED <<store, flush, table>> /\ \E w : pc' = [pc EXCEPT ![r] = w]
        /\ cnt' = cnt \/ cnt' = [cnt EXCEPT ![r] = 0]
    <3>1. CASE Ends(r)
      BY <1>1, <3>1, EndsFacts
    <3>2. CASE NeverWritten(r)
      BY <3>2 DEF NeverWritten, Suspend
    <3>3. CASE \E k \in Keys : Read(r, k)
      BY <3>3 DEF Read
    <3>. QED
      BY <1>9, <3>1, <3>2, <3>3
  <2>2. UNCHANGED <<wb, phase, fresh, table>>
    BY <2>1 DEF store, flush
  <2>3. \A k \in Keys : (pc'[k] # "idle" <=> pc[k] # "idle") /\ cnt'[k] = cnt[k]
    BY <1>1, <2>1 DEF UserTypes
  <2>. QED
    BY <1>2, <2>2, <2>3
<1>10. ASSUME NEW k \in Keys, Update(k) PROVE FlushOK'
  <2>1. /\ UNCHANGED <<wb, phase, cnt>> /\ fresh' = fresh \union {At(k)}
        /\ pc' = [pc EXCEPT ![k] = "idle"]
    BY <1>10 DEF Update, store, Suspend
  <2>2. \A j \in Keys : pc'[j] # "idle" => pc[j] # "idle"
    BY <1>1, <2>1 DEF UserTypes
  <2>3. \A j \in Keys : pc'[j] # "idle" => phase' = "map" /\ j \in DOMAIN wb'
    BY <1>1, <2>1, <2>2 DEF FlushOK
  <2>4. \A j \in Single : pc'[j] # "idle" => Passed(table', j, cnt'[j])
    BY <1>1, <1>10, <2>1, <2>2, UpdateFacts DEF FlushOK, UserTypes
  <2>5. phase' # "map" => fresh' = {}
    BY <1>10, <2>1, UpdateFacts
  <2>6. ASSUME NEW l \in fresh'
        PROVE  \E j \in DOMAIN wb' : table'[l] = <<j, wb'[j]>> /\ pc'[j] = "idle"
    <3>1. CASE l = At(k)
      BY <1>1, <1>10, <2>1, <3>1, UpdateFacts DEF UserTypes
    <3>2. CASE l # At(k)
      <4>1. l \in fresh /\ l \in Lpas /\ table'[l] = table[l]
        BY <1>1, <1>10, <2>1, <3>2, UpdateFacts DEF TableTypes
      <4>2. PICK j \in DOMAIN wb : table[l] = <<j, wb[j]>> /\ pc[j] = "idle"
        BY <1>1, <4>1 DEF FlushOK
      <4>3. pc'[j] = "idle"
        BY <1>1, <2>1, <4>2 DEF UserTypes, StoreTypes
      <4>. QED
        BY <2>1, <4>1, <4>2, <4>3
    <3>. QED
      BY <3>1, <3>2
  <2>. QED
    BY <2>3, <2>4, <2>5, <2>6 DEF FlushOK
<1>11. ASSUME UNCHANGED vars \/ \E l1, l2 \in Lpas : GcRemap(l1, l2) PROVE FlushOK'
  <2>1. UNCHANGED <<wb, phase, fresh, table, pc, cnt>>
    BY <1>11 DEF vars, GcRemap, store, flush
  <2>. QED
    BY <1>2, <2>1
<1>. QED
  BY <1>3, <1>4, <1>5, <1>6, <1>7, <1>8, <1>9, <1>10, <1>11, Steps

\* A single key's entry stays where it is, and its version grows.
LEMMA EntryStays ==
    ASSUME IInv, NEW k \in Keys, Update(k), NEW j \in Single, NEW x \in Lpas,
           Holds(table, x, j)
    PROVE  IF j = k THEN x = At(k) ELSE x # At(k) /\ table'[x] = table[x]
<1>1. TableTypes /\ TableOK /\ FlushOK
  BY DEF IInv, Types
<1>2. CASE j = k
  <2>1. PICK c \in 0 .. max_try : x = Lpa(k, c) /\ Passed(table, k, c)
    BY <1>1, <1>2 DEF TableOK, Placed
  <2>2. Passed(table, k, cnt[k])
    BY <1>1, <1>2, UpdateFacts DEF FlushOK
  <2>3. c \in Nat /\ cnt[k] \in Nat
    BY <1>1, UpdateFacts DEF TableTypes
  <2>4. ~ c < cnt[k]
    BY <1>2, <2>1, <2>2, <2>3 DEF Passed, Holds
  <2>5. ~ cnt[k] < c
    <3>1. SUFFICES ASSUME cnt[k] < c PROVE FALSE
      OBVIOUS
    <3>2. table[At(k)] # NULL /\ FpOf[table[At(k)][1]] # FpOf[k]
      BY <2>1, <2>3, <3>1, UpdateFacts DEF Passed
    <3>. QED
      BY <3>2, UpdateFacts
  <2>6. c = cnt[k]
    BY <2>3, <2>4, <2>5
  <2>. QED
    BY <1>2, <2>1, <2>6, UpdateFacts
<1>3. CASE j # k
  <2>1. table'[x] = table[x] /\ table[x] # NULL /\ table[x][1] = j
    BY <1>3, UpdateFacts DEF Holds
  <2>2. x # At(k)
    BY <1>3, <2>1, UpdateFacts
  <2>. QED
    BY <1>3, <2>1, <2>2
<1>. QED
  BY <1>2, <1>3

\* The last version of a key is in the buffer or in the table.
LEMMA ReachedStep ==
    ASSUME IInv, [Next]_vars
    PROVE  Reached'
<1>1. /\ Types /\ StoreTypes /\ TableTypes /\ UserTypes /\ BufferOK /\ TableOK /\ FlushOK
      /\ Reached /\ Single \subseteq Keys /\ Keys \subseteq Users
      /\ Reqs \intersect Keys = {}
  BY CacheAssumption DEF IInv, Types, Single, Users
\* Nothing is asked for that was not there before.
<1>2. ASSUME UNCHANGED <<latest, table>>,
             \A k \in Single :
                (latest[k] > 0 /\ (k \in DOMAIN wb' => phase' = "map" /\ pc'[k] = "idle"))
                    => (k \in DOMAIN wb => phase = "map" /\ pc[k] = "idle")
      PROVE  Reached'
  BY <1>1, <1>2 DEF Reached
<1>3. ASSUME NEW k \in Keys, Set(k) PROVE Reached'
  <2>1. /\ phase' = "serve" /\ phase = "serve" /\ table' = table /\ pc' = pc
        /\ latest' = [latest EXCEPT ![k] = @ + 1] /\ DOMAIN wb' = DOMAIN wb \union {k}
    BY <1>3 DEF Set, flush
  <2>2. \A j \in Keys \ {k} : latest'[j] = latest[j]
    BY <1>1, <2>1 DEF StoreTypes
  <2>. QED
    BY <1>1, <2>1, <2>2 DEF Reached
<1>4. CASE BeginFlush \/ BeginMapping \/ EndFlush
  <2>1. UNCHANGED <<latest, table>>
    BY <1>4 DEF BeginFlush, BeginMapping, EndFlush, store
  <2>2. BeginFlush => phase' = "assign" /\ wb' = wb
    BY DEF BeginFlush, store
  <2>3. BeginMapping => wb' = wb /\ \A k \in DOMAIN wb : pc'[k] = "ready"
    BY <1>1 DEF BeginMapping, store, StoreTypes
  <2>4. EndFlush => phase = "map" /\ \A k \in DOMAIN wb : pc[k] = "idle"
    BY DEF EndFlush
  <2>. QED
    BY <1>2, <1>4, <2>1, <2>2, <2>3, <2>4
<1>5. ASSUME NEW u \in Users, OnTheWay(u) \/ NextProbe(u) PROVE Reached'
  <2>1. /\ UNCHANGED <<store, flush, table>> /\ pc[u] # "idle"
        /\ \E w \in Places \ {"idle"} : pc' = [pc EXCEPT ![u] = w]
    BY <1>1, <1>5, OnTheWayFacts, NextProbeFacts DEF Places
  <2>2. UNCHANGED <<latest, table, wb, phase>>
    BY <2>1 DEF store, flush
  <2>3. \A k \in Keys : pc'[k] = "idle" => pc[k] = "idle"
    BY <1>1, <2>1 DEF UserTypes
  <2>. QED
    BY <1>1, <1>2, <2>2, <2>3
<1>6. ASSUME NEW r \in Reqs, Ends(r) \/ NeverWritten(r) \/ \E k \in Keys : Read(r, k)
      PROVE  Reached'
  <2>1. UNCHANGED <<store, flush, table>> /\ \E w : pc' = [pc EXCEPT ![r] = w]
    <3>1. CASE Ends(r)
      BY <1>1, <3>1, EndsFacts
    <3>2. CASE NeverWritten(r)
      BY <3>2 DEF NeverWritten, Suspend
    <3>3. CASE \E k \in Keys : Read(r, k)
      BY <3>3 DEF Read
    <3>. QED
      BY <1>6, <3>1, <3>2, <3>3
  <2>2. UNCHANGED <<latest, table, wb, phase>>
    BY <2>1 DEF store, flush
  <2>3. \A k \in Keys : pc'[k] = pc[k]
    BY <1>1, <2>1 DEF UserTypes
  <2>. QED
    BY <1>1, <1>2, <2>2, <2>3
<1>7. ASSUME NEW k \in Keys, Update(k) PROVE Reached'
  <2>1. /\ UNCHANGED <<latest, wb, phase>> /\ pc' = [pc EXCEPT ![k] = "idle"]
    BY <1>7 DEF Update, store, Suspend
  <2>2. ASSUME NEW j \in Single, latest'[j] > 0,
               j \in DOMAIN wb' => phase' = "map" /\ pc'[j] = "idle"
        PROVE  \E l \in Lpas : table'[l] = <<j, latest'[j]>>
    <3>1. CASE j = k
      BY <1>7, <2>1, <3>1, UpdateFacts
    <3>2. CASE j # k
      <4>1. PICK l \in Lpas : table[l] = <<j, latest[j]>>
        BY <1>1, <2>1, <2>2, <3>2 DEF Reached, UserTypes
      <4>2. latest[j] \in 0 .. MaxVer
        BY <1>1 DEF StoreTypes
      <4>3. table[l] # NULL
        BY <1>1, <4>1, <4>2, CacheAssumption
      <4>4. Holds(table, l, j)
        BY <4>1, <4>3 DEF Holds
      <4>. QED
        BY <1>7, <2>1, <3>2, <4>1, <4>4, EntryStays
    <3>. QED
      BY <3>1, <3>2
  <2>. QED
    BY <2>2 DEF Reached
<1>8. ASSUME UNCHANGED vars \/ \E l1, l2 \in Lpas : GcRemap(l1, l2) PROVE Reached'
  <2>1. UNCHANGED <<latest, table, wb, phase, pc>>
    BY <1>8 DEF vars, GcRemap, store, flush
  <2>. QED
    BY <1>2, <2>1
<1>. QED
  BY <1>3, <1>4, <1>5, <1>6, <1>7, <1>8, Steps

\* What a read has passed over is not what it looks for.
LEMMA SoughtStep ==
    ASSUME IInv, [Next]_vars
    PROVE  Sought'
<1>1. /\ Types /\ StoreTypes /\ TableTypes /\ UserTypes /\ ReadTypes /\ Sought /\ Reached
      /\ ReadsOK /\ TableOK /\ Single \subseteq Keys /\ Keys \subseteq Users /\ Reqs \subseteq Users
      /\ Reqs \intersect Keys = {}
  BY CacheAssumption DEF IInv, Types, Single, Users
\* Nothing is past its first look that was not before.
<1>2. ASSUME UNCHANGED <<table, want, from>>,
             \A r \in Reqs : Past(r)' => Past(r) /\ cnt'[r] = cnt[r]
      PROVE  Sought'
  BY <1>1, <1>2 DEF Sought
<1>3. ASSUME NEW u \in Users, OnTheWay(u) PROVE Sought'
  <2>1. /\ UNCHANGED <<table, cnt, reads>> /\ pc[u] # "idle"
        /\ \E w \in {"loading", "evicting", "check"} : pc' = [pc EXCEPT ![u] = w]
        /\ u \in Reqs /\ pc[u] = "ready" => Looks(u)
    BY <1>1, <1>3, OnTheWayFacts
  <2>2. UNCHANGED <<want, from>>
    BY <2>1 DEF reads
  <2>3. \A r \in Reqs \ {u} : Past(r)' => Past(r)
    BY <1>1, <2>1 DEF Past, UserTypes
  <2>4. SUFFICES ASSUME u \in Reqs, want[u] \in Single, from[u] > 0
                 PROVE  /\ \E l \in Lpas : Holds(table, l, want[u]) /\ table[l][2] >= from[u]
                        /\ \A i \in 0 .. cnt[u] - 1 : ~Holds(table, Lpa(want[u], i), want[u])
    BY <1>1, <2>1, <2>2, <2>3 DEF Sought
  <2>5. CASE Past(u)
    BY <1>1, <2>4, <2>5 DEF Sought
  <2>6. CASE ~Past(u)
    <3>1. pc[u] = "ready" /\ cnt[u] = 0
      BY <1>1, <2>1, <2>6 DEF Past, UserTypes, Places
    <3>2. want[u] \notin DOMAIN wb
      BY <2>1, <2>4, <3>1 DEF Looks, InBuffer
    <3>3. /\ from[u] \in Nat /\ latest[want[u]] \in 0 .. MaxVer
          /\ from[u] <= latest[want[u]] /\ latest[want[u]] > 0
      <4>1. /\ from[u] \in Nat /\ latest[want[u]] \in 0 .. MaxVer
            /\ from[u] <= latest[want[u]]
        BY <1>1, <2>4 DEF ReadsOK, ReadTypes, StoreTypes
      <4>. QED
        BY <2>4, <4>1
    <3>4. PICK l \in Lpas : table[l] = <<want[u], latest[want[u]]>>
      BY <1>1, <2>4, <3>2, <3>3 DEF Reached
    <3>5. table[l] # NULL
      BY <1>1, <2>4, <3>3, <3>4, CacheAssumption
    <3>6. Holds(table, l, want[u]) /\ table[l][2] >= from[u]
      BY <3>3, <3>4, <3>5 DEF Holds
    <3>7. 0 .. cnt[u] - 1 = {}
      BY <3>1
    <3>. QED
      BY <3>6, <3>7
  <2>. QED
    BY <2>5, <2>6
<1>4. ASSUME NEW u \in Users, NextProbe(u) PROVE Sought'
  <2>1. /\ UNCHANGED <<table, reads>> /\ pc[u] \in {"check", "evicting"}
        /\ cnt' = [cnt EXCEPT ![u] = @ + 1] /\ pc' = [pc EXCEPT ![u] = "ready"]
        /\ u \in Reqs => ~Holds(table, At(u), want[u])
    BY <1>1, <1>4, NextProbeFacts
  <2>2. UNCHANGED <<want, from>>
    BY <2>1 DEF reads
  <2>3. \A r \in Reqs \ {u} : (Past(r)' => Past(r)) /\ cnt'[r] = cnt[r]
    BY <1>1, <2>1 DEF Past, UserTypes
  <2>4. SUFFICES ASSUME u \in Reqs, want[u] \in Single, from[u] > 0
                 PROVE  /\ \E l \in Lpas : Holds(table, l, want[u]) /\ table[l][2] >= from[u]
                        /\ \A i \in 0 .. cnt'[u] - 1 : ~Holds(table, Lpa(want[u], i), want[u])
    BY <1>1, <2>1, <2>2, <2>3 DEF Sought
  <2>5. /\ \E l \in Lpas : Holds(table, l, want[u]) /\ table[l][2] >= from[u]
        /\ \A i \in 0 .. cnt[u] - 1 : ~Holds(table, Lpa(want[u], i), want[u])
    BY <1>1, <2>1, <2>4 DEF Sought, Past
  <2>6. ~Holds(table, Lpa(want[u], cnt[u]), want[u])
    BY <2>1, <2>4 DEF At, KeyOf
  <2>7. cnt[u] \in Nat /\ cnt'[u] = cnt[u] + 1
    BY <1>1, <2>1 DEF UserTypes
  <2>8. \A i \in 0 .. cnt'[u] - 1 : i \in 0 .. cnt[u] - 1 \/ i = cnt[u]
    BY <2>7
  <2>. QED
    BY <2>5, <2>6, <2>8
<1>5. ASSUME NEW r \in Reqs, Ends(r) PROVE Sought'
  <2>1. UNCHANGED <<table, cnt, want, from>> /\ pc' = [pc EXCEPT ![r] = "idle"]
    BY <1>1, <1>5, EndsFacts
  <2>2. \A q \in Reqs : Past(q)' => Past(q) /\ cnt'[q] = cnt[q]
    BY <1>1, <2>1 DEF Past, UserTypes
  <2>. QED
    BY <1>2, <2>1, <2>2
<1>6. ASSUME NEW r \in Reqs, NeverWritten(r) PROVE Sought'
  <2>1. UNCHANGED <<table, cnt, want, from>> /\ pc[r] = "ready" /\ pc' = [pc EXCEPT ![r] = "ready"]
    BY <1>6 DEF NeverWritten, Suspend, Ready
  <2>2. \A q \in Reqs : Past(q)' => Past(q) /\ cnt'[q] = cnt[q]
    BY <1>1, <2>1 DEF Past, UserTypes
  <2>. QED
    BY <1>2, <2>1, <2>2
<1>7. ASSUME NEW r \in Reqs, NEW k \in Keys, Read(r, k) PROVE Sought'
  <2>1. /\ table' = table /\ cnt' = [cnt EXCEPT ![r] = 0] /\ pc' = [pc EXCEPT ![r] = "ready"]
        /\ want' = [want EXCEPT ![r] = k] /\ from' = [from EXCEPT ![r] = latest[k]]
    BY <1>7 DEF Read
  <2>2. ~Past(r)'
    BY <1>1, <2>1 DEF Past, UserTypes
  <2>3. \A q \in Reqs \ {r} : /\ Past(q)' => Past(q)
                             /\ cnt'[q] = cnt[q] /\ want'[q] = want[q] /\ from'[q] = from[q]
    BY <1>1, <2>1 DEF Past, UserTypes, ReadTypes
  <2>. QED
    BY <1>1, <2>1, <2>2, <2>3 DEF Sought
<1>8. ASSUME NEW k \in Keys, Update(k) PROVE Sought'
  <2>1. UNCHANGED <<cnt, reads>> /\ pc' = [pc EXCEPT ![k] = "idle"]
    BY <1>8 DEF Update, Suspend
  <2>2. UNCHANGED <<want, from>> /\ \A r \in Reqs : Past(r)' => Past(r)
    BY <1>1, <2>1 DEF Past, UserTypes, reads
  <2>3. SUFFICES ASSUME NEW r \in Reqs, want[r] \in Single, from[r] > 0, Past(r)
                 PROVE  /\ \E l \in Lpas : Holds(table', l, want[r]) /\ table'[l][2] >= from[r]
                        /\ \A i \in 0 .. cnt[r] - 1 : ~Holds(table', Lpa(want[r], i), want[r])
    BY <2>1, <2>2 DEF Sought
  <2>4. PICK x \in Lpas : Holds(table, x, want[r]) /\ table[x][2] >= from[r]
    BY <1>1, <2>3 DEF Sought
  <2>5. \A i \in 0 .. cnt[r] - 1 : ~Holds(table, Lpa(want[r], i), want[r])
    BY <1>1, <2>3 DEF Sought
  <2>6. CASE want[r] = k
    <3>1. x = At(k)
      BY <1>8, <2>3, <2>4, <2>6, EntryStays
    <3>2. table'[x] = <<k, latest[k]>> /\ table'[x] # NULL
      BY <1>8, <3>1, UpdateFacts
    <3>3. from[r] <= latest[k] /\ from[r] \in Nat /\ latest[k] \in Nat
      BY <1>1, <2>6 DEF ReadsOK, ReadTypes, StoreTypes
    <3>4. Holds(table', x, k) /\ table'[x][2] >= from[r]
      BY <3>2, <3>3 DEF Holds
    <3>5. ASSUME NEW i \in 0 .. cnt[r] - 1 PROVE ~Holds(table', Lpa(k, i), k)
      <4>1. ~Holds(table, Lpa(k, i), k) /\ Lpa(k, i) # x
        BY <2>4, <2>5, <2>6
      <4>2. Lpa(k, i) \in Lpas
        BY LpaFacts
      <4>3. table'[Lpa(k, i)] = table[Lpa(k, i)]
        BY <1>8, <3>1, <4>1, <4>2, UpdateFacts
      <4>. QED
        BY <4>1, <4>3 DEF Holds
    <3>. QED
      BY <2>6, <3>4, <3>5
  <2>7. CASE want[r] # k
    <3>1. table'[x] = table[x]
      BY <1>8, <2>3, <2>4, <2>7, EntryStays
    <3>2. ASSUME NEW i \in 0 .. cnt[r] - 1 PROVE ~Holds(table', Lpa(want[r], i), want[r])
      <4>1. Lpa(want[r], i) \in Lpas
        BY <1>1, <2>3, LpaFacts
      <4>2. CASE Lpa(want[r], i) = At(k)
        BY <1>8, <2>7, <4>2, UpdateFacts DEF Holds
      <4>3. CASE Lpa(want[r], i) # At(k)
        BY <1>8, <2>5, <4>1, <4>3, UpdateFacts DEF Holds
      <4>. QED
        BY <4>2, <4>3
    <3>. QED
      BY <2>4, <3>1, <3>2 DEF Holds
  <2>. QED
    BY <2>6, <2>7
<1>9. CASE BeginMapping
  <2>1. UNCHANGED <<table, want, from>>
    BY <1>9 DEF BeginMapping, reads
  <2>2. \A r \in Reqs : pc'[r] = pc[r] /\ cnt'[r] = cnt[r]
    BY <1>1, <1>9 DEF BeginMapping, StoreTypes, UserTypes
  <2>. QED
    BY <1>2, <2>1, <2>2 DEF Past
<1>10. ASSUME \/ UNCHANGED vars \/ \E l1, l2 \in Lpas : GcRemap(l1, l2)
              \/ BeginFlush \/ EndFlush \/ \E k \in Keys : Set(k)
       PROVE  Sought'
  <2>1. UNCHANGED <<table, want, from, pc, cnt>>
    BY <1>10 DEF vars, GcRemap, BeginFlush, EndFlush, Set, reads
  <2>. QED
    BY <1>2, <2>1 DEF Past
<1>. QED
  BY <1>3, <1>4, <1>5, <1>6, <1>7, <1>8, <1>9, <1>10, Steps

\* A version a read began at was set, and a read on its way has not ended once.
LEMMA ReadsStep ==
    ASSUME IInv, [Next]_vars
    PROVE  ReadsOK'
<1>1. /\ Types /\ StoreTypes /\ UserTypes /\ ReadTypes /\ ReadsOK
      /\ Keys \subseteq Users /\ Reqs \subseteq Users /\ Reqs \intersect Keys = {}
  BY CacheAssumption DEF IInv, Types, Users
<1>2. \A k \in Keys : latest[k] \in Nat /\ latest'[k] \in Nat /\ latest[k] <= latest'[k]
  BY LatestGrows
<1>3. ASSUME UNCHANGED <<want, from, ended>>, \A r \in Reqs : pc'[r] # "idle" => pc[r] # "idle"
      PROVE  ReadsOK'
  BY <1>1, <1>2, <1>3 DEF ReadsOK, ReadTypes
<1>4. ASSUME NEW u \in Users, OnTheWay(u) \/ NextProbe(u) PROVE ReadsOK'
  <2>1. UNCHANGED reads /\ pc[u] # "idle" /\ \E w : pc' = [pc EXCEPT ![u] = w]
    BY <1>1, <1>4, OnTheWayFacts, NextProbeFacts
  <2>2. UNCHANGED <<want, from, ended>> /\ \A r \in Reqs : pc'[r] # "idle" => pc[r] # "idle"
    BY <1>1, <2>1 DEF UserTypes, reads
  <2>. QED
    BY <1>3, <2>2
<1>5. ASSUME NEW r \in Reqs, Ends(r) PROVE ReadsOK'
  <2>1. /\ want' = want /\ from' = from /\ pc' = [pc EXCEPT ![r] = "idle"]
        /\ ended' = [ended EXCEPT ![r] = @ + 1]
    BY <1>1, <1>5, EndsFacts
  <2>2. \A q \in Reqs : want[q] \in Keys => from[q] <= latest'[want[q]]
    BY <1>1, <1>2 DEF ReadsOK, ReadTypes
  <2>3. \A q \in Reqs : pc'[q] # "idle" => ended'[q] # 1
    BY <1>1, <2>1 DEF ReadsOK, ReadTypes, UserTypes
  <2>. QED
    BY <2>1, <2>2, <2>3 DEF ReadsOK
<1>6. ASSUME NEW r \in Reqs, NeverWritten(r) PROVE ReadsOK'
  <2>1. /\ want' = want /\ from' = from /\ pc[r] = "ready" /\ pc' = [pc EXCEPT ![r] = "ready"]
        /\ ended' = [ended EXCEPT ![r] = @ + 2]
    BY <1>6 DEF NeverWritten, Suspend, Ready
  <2>2. \A q \in Reqs : want[q] \in Keys => from[q] <= latest'[want[q]]
    BY <1>1, <1>2 DEF ReadsOK, ReadTypes
  <2>3. \A q \in Reqs : pc'[q] # "idle" => ended'[q] # 1
    BY <1>1, <2>1 DEF ReadsOK, ReadTypes, UserTypes
  <2>. QED
    BY <2>1, <2>2, <2>3 DEF ReadsOK
<1>7. ASSUME NEW r \in Reqs, NEW k \in Keys, Read(r, k) PROVE ReadsOK'
  <2>1. /\ pc' = [pc EXCEPT ![r] = "ready"] /\ ended' = [ended EXCEPT ![r] = 0]
        /\ want' = [want EXCEPT ![r] = k] /\ from' = [from EXCEPT ![r] = latest[k]]
    BY <1>7 DEF Read
  <2>2. \A q \in Reqs : want'[q] \in Keys => from'[q] <= latest'[want'[q]]
    BY <1>1, <1>2, <2>1 DEF ReadsOK, ReadTypes
  <2>3. \A q \in Reqs : pc'[q] # "idle" => ended'[q] # 1
    BY <1>1, <2>1 DEF ReadsOK, ReadTypes, UserTypes
  <2>. QED
    BY <2>2, <2>3 DEF ReadsOK
<1>8. ASSUME BeginMapping \/ \E k \in Keys : Update(k) PROVE ReadsOK'
  <2>1. UNCHANGED <<want, from, ended>>
    BY <1>8 DEF BeginMapping, Update, reads
  <2>2. BeginMapping => \A r \in Reqs : pc'[r] # "idle" => pc[r] # "idle"
    BY <1>1 DEF BeginMapping, StoreTypes
  <2>3. ASSUME NEW k \in Keys, Update(k) PROVE \A r \in Reqs : pc'[r] # "idle" => pc[r] # "idle"
    BY <1>1, <2>3 DEF Update, Suspend, UserTypes
  <2>. QED
    BY <1>3, <1>8, <2>1, <2>2, <2>3
<1>9. ASSUME \/ UNCHANGED vars \/ \E l1, l2 \in Lpas : GcRemap(l1, l2)
             \/ BeginFlush \/ EndFlush \/ \E k \in Keys : Set(k)
      PROVE  ReadsOK'
  <2>1. UNCHANGED <<want, from, ended, pc>>
    BY <1>9 DEF vars, GcRemap, BeginFlush, EndFlush, Set, reads
  <2>. QED
    BY <1>3, <2>1
<1>. QED
  BY <1>4, <1>5, <1>6, <1>7, <1>8, <1>9, Steps

\* What a read finds, of a key without a twin, is current.
LEMMA FoundIsCurrent ==
    ASSUME IInv, NEW r \in Reqs, Ends(r), want[r] \in Single, got'[r] > 0
    PROVE  got'[r] \in from[r] .. latest[want[r]]
<1>1. /\ Types /\ StoreTypes /\ TableTypes /\ UserTypes /\ ReadTypes /\ Sought /\ BufferOK
      /\ ReadsOK /\ TableOK /\ Single \subseteq Keys /\ r \in Users
  BY DEF IInv, Types, Single, Users
<1>2. want[r] \in Keys /\ from[r] \in Nat /\ latest[want[r]] \in Nat /\ from[r] <= latest[want[r]]
  BY <1>1 DEF ReadTypes, ReadsOK, StoreTypes
<1>3. CASE FoundInBuffer(r)
  <2>1. want[r] \in DOMAIN wb /\ got' = [got EXCEPT ![r] = wb[want[r]]]
    BY <1>3 DEF FoundInBuffer, Finish, InBuffer
  <2>2. got'[r] = latest[want[r]]
    BY <1>1, <2>1 DEF BufferOK, ReadTypes
  <2>. QED
    BY <1>2, <2>2
<1>4. CASE NotFound(r)
  BY <1>1, <1>4 DEF NotFound, Finish, ReadTypes
<1>5. CASE Found(r)
  <2>1. /\ pc[r] \in {"check", "evicting"} /\ Holds(table, At(r), want[r])
        /\ got' = [got EXCEPT ![r] = table[At(r)][2]]
    BY <1>5 DEF Found, Checks, SameFp, Finish, Holds
  <2>2. At(r) \in Lpas
    BY <1>1, <2>1, AtFacts
  <2>3. got'[r] = table[At(r)][2]
    BY <1>1, <2>1 DEF ReadTypes
  <2>4. table[At(r)][2] \in Nat /\ table[At(r)][2] <= latest[want[r]]
    <3>1. table[At(r)] \in Entries
      BY <1>1, <2>1, <2>2 DEF TableTypes, Holds
    <3>. QED
      BY <1>1, <2>1, <2>2, <3>1 DEF TableOK, Holds, Entries
  <2>5. table[At(r)][2] >= from[r]
    <3>1. CASE from[r] = 0
      BY <2>4, <3>1
    <3>2. CASE from[r] > 0
      <4>1. PICK x \in Lpas : Holds(table, x, want[r]) /\ table[x][2] >= from[r]
        BY <1>1, <2>1, <3>2 DEF Sought, Past
      <4>2. x = At(r)
        BY <1>1, <2>1, <2>2, <4>1, OneEntry DEF TableOK, TableTypes
      <4>. QED
        BY <4>1, <4>2
    <3>. QED
      BY <1>2, <3>1, <3>2
  <2>. QED
    BY <1>2, <2>3, <2>4, <2>5
<1>. QED
  BY <1>3, <1>4, <1>5 DEF Ends

\* It stays so until the next read.
LEMMA CurrentStep ==
    ASSUME IInv, [Next]_vars
    PROVE  ReadsCurrent'
<1>1. /\ Types /\ StoreTypes /\ UserTypes /\ ReadTypes /\ ReadsCurrent /\ ReadsOK
  BY DEF IInv, Types
<1>2. \A k \in Keys : latest[k] \in Nat /\ latest'[k] \in Nat /\ latest[k] <= latest'[k]
  BY LatestGrows
<1>3. SUFFICES ASSUME NEW q \in Reqs, ended'[q] > 0, got'[q] > 0, ~Twin(want'[q])
               PROVE  got'[q] \in from'[q] .. latest'[want'[q]]
  BY DEF ReadsCurrent
<1>4. ASSUME ended'[q] = ended[q], got'[q] = got[q], want'[q] = want[q], from'[q] = from[q]
      PROVE  got'[q] \in from'[q] .. latest'[want'[q]]
  <2>1. got[q] \in from[q] .. latest[want[q]] /\ want[q] \in Keys
    BY <1>1, <1>3, <1>4 DEF ReadsCurrent, ReadTypes
  <2>2. from[q] \in Nat /\ latest[want[q]] \in Nat
    BY <1>1, <1>2, <2>1 DEF ReadTypes
  <2>. QED
    BY <1>2, <1>4, <2>1, <2>2
<1>5. ASSUME NEW r \in Reqs, Ends(r) PROVE got'[q] \in from'[q] .. latest'[want'[q]]
  <2>1. /\ want' = want /\ from' = from /\ latest' = latest
        /\ ended' = [ended EXCEPT ![r] = @ + 1] /\ pc[r] # "idle"
        /\ \E v \in 0 .. MaxVer : got' = [got EXCEPT ![r] = v]
    BY <1>1, <1>5, EndsFacts DEF store
  <2>2. CASE q = r
    <3>1. want[r] \in Single
      BY <1>1, <1>3, <2>1, <2>2 DEF ReadTypes, Single
    <3>. QED
      BY <1>3, <1>5, <2>1, <2>2, <3>1, FoundIsCurrent
  <2>3. CASE q # r
    BY <1>1, <1>4, <2>1, <2>3 DEF ReadTypes
  <2>. QED
    BY <2>2, <2>3
<1>6. ASSUME NEW r \in Reqs, NeverWritten(r) PROVE got'[q] \in from'[q] .. latest'[want'[q]]
  <2>1. /\ want' = want /\ from' = from /\ ended' = [ended EXCEPT ![r] = @ + 2]
        /\ got' = [got EXCEPT ![r] = 0]
    BY <1>6 DEF NeverWritten
  <2>. QED
    BY <1>1, <1>3, <1>4, <2>1 DEF ReadTypes
<1>7. ASSUME NEW r \in Reqs, NEW k \in Keys, Read(r, k)
      PROVE  got'[q] \in from'[q] .. latest'[want'[q]]
  BY <1>1, <1>3, <1>4, <1>7 DEF Read, ReadTypes
<1>8. ASSUME UNCHANGED reads PROVE got'[q] \in from'[q] .. latest'[want'[q]]
  BY <1>4, <1>8 DEF reads
<1>9. ASSUME NEW u \in Users, OnTheWay(u) \/ NextProbe(u) PROVE UNCHANGED reads
  BY <1>1, <1>9, OnTheWayFacts, NextProbeFacts
<1>. QED
  BY <1>5, <1>6, <1>7, <1>8, <1>9, Steps
     DEF vars, Set, Update, BeginFlush, BeginMapping, EndFlush, GcRemap

\* A read of a single key that was set, at a probe that it may look at, has the
\* key's entry before it: the entry at hand is in use.
LEMMA NotBehind ==
    ASSUME IInv, NEW r \in Reqs, want[r] \in Single, from[r] > 0,
           Past(r) \/ (cnt[r] = 0 /\ want[r] \notin DOMAIN wb)
    PROVE  cnt[r] <= max_try /\ table[At(r)] # NULL
<1>1. /\ Types /\ StoreTypes /\ TableTypes /\ UserTypes /\ ReadTypes /\ Sought /\ Reached
      /\ ReadsOK /\ TableOK /\ Single \subseteq Keys /\ r \in Users
  BY DEF IInv, Types, Single, Users
<1>2. /\ from[r] \in Nat /\ latest[want[r]] \in 0 .. MaxVer /\ from[r] <= latest[want[r]]
      /\ cnt[r] \in Nat /\ max_try \in Nat
  BY <1>1 DEF ReadTypes, ReadsOK, StoreTypes, UserTypes, TableTypes
<1>3. /\ \E l \in Lpas : Holds(table, l, want[r])
      /\ \A i \in 0 .. cnt[r] - 1 : ~Holds(table, Lpa(want[r], i), want[r])
  <2>1. CASE Past(r)
    BY <1>1, <2>1 DEF Sought
  <2>2. CASE cnt[r] = 0 /\ want[r] \notin DOMAIN wb
    <3>1. PICK l \in Lpas : table[l] = <<want[r], latest[want[r]]>>
      BY <1>1, <1>2, <2>2 DEF Reached
    <3>2. table[l] # NULL
      BY <1>1, <1>2, <3>1, CacheAssumption
    <3>3. 0 .. cnt[r] - 1 = {}
      BY <2>2
    <3>4. Holds(table, l, want[r])
      BY <3>1, <3>2 DEF Holds
    <3>. QED
      BY <3>3, <3>4
  <2>. QED
    BY <2>1, <2>2
<1>4. PICK c \in 0 .. max_try : Holds(table, Lpa(want[r], c), want[r]) /\ Passed(table, want[r], c)
  BY <1>1, <1>3 DEF TableOK, Placed
<1>5. ~ c < cnt[r]
  BY <1>2, <1>3, <1>4
<1>6. At(r) = Lpa(want[r], cnt[r])
  BY DEF At, KeyOf
<1>7. CASE cnt[r] = c
  BY <1>2, <1>4, <1>6, <1>7 DEF Holds
<1>8. CASE cnt[r] < c
  BY <1>2, <1>4, <1>6, <1>8 DEF Passed
<1>. QED
  BY <1>2, <1>5, <1>7, <1>8

\* A read that ends without the value of a key set before it, or twice, met a
\* lost page, if nobody else takes the key's entry.
LEMMA FoundOnceStep ==
    ASSUME IInv, [Next]_vars, NEW r \in Reqs
    PROVE  /\ (from[r] > 0 /\ got'[r] = 0 /\ ended'[r] > ended[r])
                  => AtLost(r) \/ Twin(want[r])
           /\ ended[r] <= 1 /\ ended'[r] > 1
                  => AtLost(r) \/ (AtNoPage(r) /\ (from[r] = 0 \/ Twin(want[r])))
<1>1. /\ Types /\ StoreTypes /\ TableTypes /\ UserTypes /\ ReadTypes /\ BufferOK
      /\ ReadsOK /\ Single \subseteq Keys /\ Reqs \subseteq Users
  BY DEF IInv, Types, Single, Users
<1>. DEFINE Once == /\ (from[r] > 0 /\ got'[r] = 0 /\ ended'[r] > ended[r])
                           => AtLost(r) \/ Twin(want[r])
                    /\ ended[r] <= 1 /\ ended'[r] > 1
                           => AtLost(r) \/ (AtNoPage(r) /\ (from[r] = 0 \/ Twin(want[r])))
<1>2. ended[r] \in Nat /\ from[r] \in Nat
  BY <1>1 DEF ReadTypes
<1>3. ended'[r] = ended[r] \/ ended'[r] = 0 => Once
  BY <1>2
<1>4. ASSUME NEW q \in Reqs, Ends(q) PROVE Once
  <2>1. /\ ended' = [ended EXCEPT ![q] = @ + 1] /\ pc[q] # "idle"
        /\ \E v \in 0 .. MaxVer : got' = [got EXCEPT ![q] = v]
    BY <1>1, <1>4, EndsFacts
  <2>2. CASE q # r
    BY <1>1, <1>3, <2>1, <2>2 DEF ReadTypes
  <2>3. CASE q = r
    <3>1. ended[r] # 1 /\ ended'[r] = ended[r] + 1
      BY <1>1, <2>1, <2>3 DEF ReadsOK, ReadTypes
    <3>2. ~ (ended[r] <= 1 /\ ended'[r] > 1)
      BY <1>2, <3>1
    <3>3. ASSUME from[r] > 0, got'[r] = 0, want[r] \in Single PROVE FALSE
      <4>1. CASE FoundInBuffer(r)
        <5>1. want[r] \in DOMAIN wb /\ got' = [got EXCEPT ![r] = wb[want[r]]]
          BY <4>1 DEF FoundInBuffer, Finish, InBuffer
        <5>2. wb[want[r]] > 0 /\ wb[want[r]] \in Nat
          BY <1>1, <5>1 DEF BufferOK, StoreTypes
        <5>. QED
          BY <1>1, <3>3, <5>1, <5>2 DEF ReadTypes
      <4>2. CASE NotFound(r)
        <5>1. pc[r] = "ready" /\ cnt[r] > max_try
          BY <4>2 DEF NotFound, Ready, GivesUp
        <5>2. cnt[r] \in Nat /\ max_try \in Nat
          BY <1>1 DEF UserTypes, TableTypes
        <5>3. Past(r)
          BY <5>1, <5>2 DEF Past
        <5>4. cnt[r] <= max_try
          BY <3>3, <5>3, NotBehind
        <5>. QED
          BY <5>1, <5>2, <5>4
      <4>3. CASE Found(r)
        <5>1. /\ pc[r] # "idle" /\ table[At(r)] # NULL
              /\ got' = [got EXCEPT ![r] = table[At(r)][2]]
          BY <4>3 DEF Found, Checks, SameFp, Finish
        <5>2. table[At(r)] \in Entries
          BY <1>1, <5>1, AtFacts DEF TableTypes
        <5>3. table[At(r)][2] > 0
          BY <5>2, CacheAssumption DEF Entries
        <5>. QED
          BY <1>1, <3>3, <5>1, <5>3 DEF ReadTypes
      <4>. QED
        BY <1>4, <2>3, <4>1, <4>2, <4>3 DEF Ends
    <3>4. want[r] \in Keys
      BY <1>1, <2>1, <2>3 DEF ReadTypes
    <3>. QED
      BY <3>2, <3>3, <3>4 DEF Single
  <2>. QED
    BY <2>2, <2>3
<1>5. ASSUME NEW q \in Reqs, NeverWritten(q) PROVE Once
  <2>1. ended' = [ended EXCEPT ![q] = @ + 2] /\ pc[q] = "ready" /\ Looks(q)
        /\ ~Listed(Page(q), lru) /\ Page(q) \notin onFlash
    BY <1>5 DEF NeverWritten, Ready
  <2>2. CASE q # r
    BY <1>1, <1>3, <2>1, <2>2 DEF ReadTypes
  <2>3. CASE q = r
    <3>1. AtNoPage(r) /\ want[r] \in Keys
      BY <1>1, <2>1, <2>3 DEF AtNoPage, ReadTypes
    <3>2. ASSUME from[r] > 0, want[r] \in Single PROVE AtLost(r)
      <4>1. cnt[r] \in Nat
        BY <1>1 DEF UserTypes
      <4>2. Past(r) \/ (cnt[r] = 0 /\ want[r] \notin DOMAIN wb)
        BY <2>1, <2>3, <4>1 DEF Past, Looks, InBuffer
      <4>3. table[At(r)] # NULL
        BY <3>2, <4>2, NotBehind
      <4>. QED
        BY <3>1, <4>3 DEF AtLost
    <3>. QED
      BY <1>2, <3>1, <3>2 DEF Single
  <2>. QED
    BY <2>2, <2>3
<1>6. ASSUME NEW q \in Reqs, NEW k \in Keys, Read(q, k) PROVE Once
  <2>1. ended' = [ended EXCEPT ![q] = 0]
    BY <1>6 DEF Read
  <2>2. ended'[r] = ended[r] \/ ended'[r] = 0
    BY <1>1, <2>1 DEF ReadTypes
  <2>. QED
    BY <1>3, <2>2
<1>7. ASSUME UNCHANGED reads PROVE Once
  BY <1>3, <1>7 DEF reads
<1>8. ASSUME NEW u \in Users, OnTheWay(u) \/ NextProbe(u) PROVE UNCHANGED reads
  BY <1>1, <1>8, OnTheWayFacts, NextProbeFacts
<1>9. Once
  <2>. HIDE DEF Once
  <2>. QED
    BY <1>4, <1>5, <1>6, <1>7, <1>8, Steps
       DEF vars, Set, Update, BeginFlush, BeginMapping, EndFlush, GcRemap
<1>. QED
  BY <1>9

-----------------------------------------------------------------------------
(* The theorems. *)

LEMMA InitSound == Init => IInv
<1>. SUFFICES ASSUME Init PROVE IInv
  OBVIOUS
<1>1. StoreTypes /\ TableTypes
  BY CacheAssumption DEF Init, StoreTypes, TableTypes
<1>2. UserTypes /\ ReadTypes
  BY DEF Init, UserTypes, ReadTypes, Places, Users
<1>3. CacheOK
  <2>1. lru = <<>> /\ dirty = {} /\ onFlash = {}
    BY DEF Init
  <2>2. <<>> \in Seq(Nodes) /\ Len(<<>>) = 0 /\ 0 <= Capacity
    BY CacheAssumption
  <2>. QED
    BY <2>1, <2>2 DEF CacheOK, Sound, Cache
<1>4. BufferOK
  BY DEF Init, BufferOK
<1>5. \A l \in Lpas : table[l] = NULL
  BY DEF Init
<1>6. TableOK
  BY <1>5 DEF TableOK, OnPath, Placed, Holds
<1>7. FlushOK
  BY DEF Init, FlushOK, Single, Users
<1>8. Reached
  BY DEF Init, Reached, Single
<1>9. Sought /\ ReadsOK /\ ReadsCurrent
  <2>1. /\ from = [r \in Reqs |-> 0] /\ pc = [u \in Users |-> "idle"]
        /\ latest = [k \in Keys |-> 0] /\ ended = [r \in Reqs |-> 0]
    BY DEF Init
  <2>2. Sought
    BY <2>1 DEF Sought
  <2>3. ReadsOK
    BY <2>1 DEF ReadsOK
  <2>4. ReadsCurrent
    BY <2>1 DEF ReadsCurrent
  <2>. QED
    BY <2>2, <2>3, <2>4
<1>. QED
  BY <1>1, <1>2, <1>3, <1>4, <1>6, <1>7, <1>8, <1>9 DEF IInv, Types

\* The inductive invariant holds in every reachable state: each key is where its
\* probes come first, and buffer, table and reads under way agree on versions.
THEOREM Invariance == Spec => []IInv
<1>1. IInv /\ [Next]_vars => IInv'
  BY StoreTypesStep, TableTypesStep, UserTypesStep, ReadTypesStep, CacheStep, BufferStep,
     TableStep, FlushStep, ReachedStep, SoughtStep, ReadsStep, CurrentStep
     DEF IInv, Types
<1>. QED
  BY <1>1, InitSound, PTL DEF Spec

\* Variables keep their types, and the cache its size.
THEOREM TypeCorrect == Spec => []TypeOK
<1>1. IInv => TypeOK
  <2>. SUFFICES ASSUME IInv PROVE TypeOK
    OBVIOUS
  <2>1. lru \in Seq(Nodes) /\ Len(lru) <= Capacity /\ dirty \subseteq Tpages /\ onFlash \subseteq Tpages
    BY DEF IInv, CacheOK, Sound, Cache
  <2>2. \A i \in DOMAIN lru : lru[i] \in Tpages \X BOOLEAN
    BY <2>1, ListedFacts, ElementOfSeq DEF Nodes
  <2>. QED
    BY <2>1, <2>2 DEF IInv, Types, StoreTypes, TableTypes, UserTypes, Places, TypeOK
<1>. QED
  BY <1>1, Invariance, PTL

\* A page with updates that are not on flash is cached, and gave up its old page.
THEOREM DirtyCorrect == Spec => []DirtyIsListed
<1>1. IInv => DirtyIsListed
  BY DEF IInv, CacheOK, Sound, Cache, DirtyIsListed
<1>. QED
  BY <1>1, Invariance, PTL

\* What a read returns was current at some moment of the read.
THEOREM ReadsCorrect == Spec => []ReadsCurrent
<1>1. IInv => ReadsCurrent
  BY DEF IInv
<1>. QED
  BY <1>1, Invariance, PTL

\* A key that was set before the read is found, and once, unless the read meets a
\* page whose updates were lost or the key has a twin.
THEOREM FoundCorrect == Spec => FoundOnceUnlessLost
<1>1. IInv /\ [Next]_vars =>
        [\A r \in Reqs :
           /\ (from[r] > 0 /\ got'[r] = 0 /\ ended'[r] > ended[r])
                  => AtLost(r) \/ Twin(want[r])
           /\ ended[r] <= 1 /\ ended'[r] > 1
                  => AtLost(r) \/ (AtNoPage(r) /\ (from[r] = 0 \/ Twin(want[r])))]_vars
  BY FoundOnceStep
<1>. QED
  BY <1>1, Invariance, PTL DEF Spec, FoundOnceUnlessLost

=============================================================================

---------------------------- MODULE NumberFacts ----------------------------
(***************************************************************************)
(* Facts about natural numbers that the proofs of several modules need:    *)
(* minima, induction over sets of naturals, recursive functions, division  *)
(* with remainder; and about finite sets and functions that are sequences. *)
(***************************************************************************)
EXTENDS Integers, SequenceTheorems, FiniteSetTheorems, FunctionTheorems,
        WellFoundedInduction, TLAPS

\* A set of naturals that is not empty has a least member.
LEMMA LeastNatural ==
    ASSUME NEW S, S \subseteq Nat, S # {}
    PROVE  \E m \in S : \A n \in S : m <= n
<1>1. PICK m \in S : \A n \in S : ~ (<<n, m>> \in OpToRel(<, Nat))
  BY NatLessThanWellFounded, WFMin, Zenon
<1>2. \A n \in S : ~ (n < m)
  BY <1>1, Zenon DEF OpToRel
<1>. QED
  BY <1>2

\* Induction: a set with 0 that has each successor of a member has all of 0 .. n.
LEMMA Induction ==
    ASSUME NEW S, NEW n \in Nat, 0 \in S,
           \A i \in 0 .. n - 1 : i \in S => i + 1 \in S
    PROVE  0 .. n \subseteq S
<1> DEFINE missing == {i \in 0 .. n : i \notin S}
<1>1. SUFFICES ASSUME missing # {} PROVE FALSE
  OBVIOUS
<1>2. PICK m \in missing : \A i \in missing : m <= i
  <2>1. missing \subseteq Nat
    OBVIOUS
  <2>. HIDE DEF missing
  <2>. QED
    BY <1>1, <2>1, LeastNatural
<1>3. m \in 0 .. n /\ m # 0
  BY <1>2
<1>4. m - 1 \in 0 .. n - 1 /\ m - 1 \notin missing /\ (m - 1) + 1 = m
  BY <1>2, <1>3
<1>5. m - 1 \in S
  BY <1>4
<1>. QED
  BY <1>2, <1>4, <1>5

\* A function defined by recursion on 0 .. n exists, when the steps F[1] to F[n]
\* stay in one set.
LEMMA Iteration ==
    ASSUME NEW T, NEW a \in T, NEW n \in Nat, NEW F \in [1 .. n -> [T -> T]]
    PROVE  \E g \in [0 .. n -> T] :
               g[0] = a /\ \A i \in 1 .. n : g[i] = F[i][g[i - 1]]
<1> DEFINE Good(m, g) == g[0] = a /\ \A i \in 1 .. m : g[i] = F[i][g[i - 1]]
           S == {m \in 0 .. n : \E g \in [0 .. m -> T] : Good(m, g)}
<1>1. 0 \in S
  <2> DEFINE g == [i \in 0 .. 0 |-> a]
  <2>1. g \in [0 .. 0 -> T] /\ g[0] = a /\ 1 .. 0 = {} /\ 0 \in 0 .. n
    OBVIOUS
  <2>. HIDE DEF g
  <2>2. Good(0, g)
    BY <2>1
  <2>. HIDE DEF Good
  <2>. QED
    BY <2>1, <2>2
<1>2. ASSUME NEW m \in 0 .. n - 1, m \in S PROVE m + 1 \in S
  <2>1. PICK h \in [0 .. m -> T] : Good(m, h)
    BY <1>2
  <2> DEFINE g == [i \in 0 .. m + 1 |-> IF i <= m THEN h[i] ELSE F[m + 1][h[m]]]
  <2>2. F[m + 1] \in [T -> T] /\ h[m] \in T /\ F[m + 1][h[m]] \in T
    OBVIOUS
  <2>3. g \in [0 .. m + 1 -> T]
    BY <2>2
  <2>4. \A i \in 0 .. m : g[i] = h[i]
    OBVIOUS
  <2>5. g[m + 1] = F[m + 1][h[m]]
    OBVIOUS
  <2>. HIDE DEF g
  <2>6. g[0] = a
    BY <2>1, <2>4
  <2>7. ASSUME NEW i \in 1 .. m + 1 PROVE g[i] = F[i][g[i - 1]]
    <3>1. CASE i = m + 1
      BY <2>4, <2>5, <3>1
    <3>2. CASE i # m + 1
      BY <2>1, <2>4, <3>2
    <3>. QED
      BY <3>1, <3>2
  <2>8. Good(m + 1, g) /\ m + 1 \in 0 .. n
    BY <2>6, <2>7
  <2>. QED
    BY <2>3, <2>8
<1>. HIDE DEF S
<1>3. 0 .. n \subseteq S
  BY <1>1, <1>2, Induction
<1>4. n \in S
  BY <1>3
<1>. QED
  BY <1>4 DEF S

\* Quotient and remainder.
LEMMA Division ==
    ASSUME NEW a \in Int, NEW n \in Nat \ {0}
    PROVE  /\ a % n \in 0 .. n - 1 /\ a \div n \in Int
           /\ a = n * (a \div n) + (a % n)
<1>1. a % n \in 0 .. n - 1
  OBVIOUS
<1>2. a \div n \in Int
  OBVIOUS
<1>3. a = n * (a \div n) + (a % n)
  OBVIOUS
<1>. QED
  BY <1>1, <1>2, <1>3

\* They are the only ones.
LEMMA DivisionUnique ==
    ASSUME NEW n \in Nat \ {0}, NEW q \in Int, NEW r \in 0 .. n - 1
    PROVE  (n * q + r) % n = r /\ (n * q + r) \div n = q
<1> DEFINE a == n * q + r
           p == a \div n
           s == a % n
<1>1. a \in Int
  OBVIOUS
<1>2. p \in Int /\ s \in 0 .. n - 1 /\ a = n * p + s
  BY <1>1, Division
<1>3. n * (q - p) = s - r
  BY <1>2
<1>4. ~(q - p >= 1)
  <2>1. SUFFICES ASSUME q - p >= 1 PROVE FALSE
    OBVIOUS
  <2>2. n * (q - p) >= n
    BY <1>2, <2>1
  <2>. QED
    BY <1>2, <1>3, <2>2
<1>5. ~(p - q >= 1)
  <2>1. SUFFICES ASSUME p - q >= 1 PROVE FALSE
    OBVIOUS
  <2>2. n * (p - q) >= n
    BY <1>2, <2>1
  <2>. QED
    BY <1>2, <1>3, <2>2
<1>6. p = q
  BY <1>2, <1>4, <1>5
<1>. QED
  BY <1>2, <1>6

\* A multiple of n makes no difference to the remainder.
LEMMA ModShift ==
    ASSUME NEW a \in Int, NEW n \in Nat \ {0}, NEW t \in Int
    PROVE  (a + n * t) % n = a % n
<1> DEFINE q == a \div n
           r == a % n
<1>1. q \in Int /\ r \in 0 .. n - 1 /\ a = n * q + r
  BY Division
<1>. HIDE DEF q, r
<1>2. a + n * t = n * (q + t) + r
  BY <1>1
<1>3. (n * (q + t) + r) % n = r
  <2>1. q + t \in Int
    BY <1>1
  <2>. QED
    BY <1>1, <2>1, DivisionUnique
<1>. QED
  BY <1>2, <1>3 DEF r

\* A finite set of naturals that is not empty has a greatest member.
LEMMA FiniteGreatest ==
    ASSUME NEW S, S \subseteq Nat, IsFiniteSet(S), S # {}
    PROVE  \E m \in S : \A n \in S : n <= m
<1> DEFINE Bounded(T) == \E m \in T : \A n \in T : n <= m
           N == {c \in Nat : \A T \in SUBSET S :
                                T # {} /\ Cardinality(T) = c => Bounded(T)}
<1>1. \A T \in SUBSET S : IsFiniteSet(T) /\ Cardinality(T) \in Nat
  BY FS_Subset, FS_CardinalityType
<1>2. 0 \in N
  BY <1>1, FS_EmptySet
<1>3. ASSUME NEW c \in Nat, c \in N PROVE c + 1 \in N
  <2>1. ASSUME NEW T \in SUBSET S, T # {}, Cardinality(T) = c + 1
        PROVE  Bounded(T)
    <3>1. PICK x : x \in T
      BY <2>1
    <3>2. Cardinality(T \ {x}) = c /\ T \ {x} \in SUBSET S
      <4>1. IsFiniteSet(T) /\ Cardinality(T) = c + 1
        BY <1>1, <2>1
      <4>2. Cardinality(T \ {x}) = Cardinality(T) - 1
        BY <3>1, <4>1, FS_RemoveElement
      <4>3. T \ {x} \in SUBSET S
        BY Zenon
      <4>. HIDE DEF N, Bounded
      <4>. QED
        BY <4>1, <4>2, <4>3
    <3>3. CASE T \ {x} = {}
      <4>1. T = {x} /\ x \in Nat
        BY <3>1, <3>3
      <4>. QED
        BY <4>1
    <3>4. CASE T \ {x} # {}
      <4>1. PICK m \in T \ {x} : \A n \in T \ {x} : n <= m
        BY <1>3, <3>2, <3>4
      <4>2. m \in Nat /\ x \in Nat /\ T \subseteq Nat
        BY <3>1
      <4>3. CASE m <= x
        BY <3>1, <4>1, <4>2, <4>3
      <4>4. CASE x <= m
        BY <3>1, <4>1, <4>2, <4>4
      <4>. QED
        BY <4>2, <4>3, <4>4
    <3>. QED
      BY <3>3, <3>4
  <2>. QED
    BY <2>1
<1>4. Cardinality(S) \in Nat
  BY FS_CardinalityType
<1>5. Cardinality(S) \in N
  <2>1. 0 .. Cardinality(S) \subseteq N
    <3> HIDE DEF N
    <3>. QED
      BY <1>2, <1>3, <1>4, Induction
  <2>. QED
    BY <1>4, <2>1
<1>. QED
  BY <1>5

\* The values of a function on a finite set are finitely many.
LEMMA FiniteImage ==
    ASSUME NEW S, IsFiniteSet(S), NEW f, DOMAIN f = S
    PROVE  IsFiniteSet({f[x] : x \in S})
<1> DEFINE T == {f[x] : x \in S}
           g == [x \in S |-> f[x]]
<1>1. g \in Surjection(S, T)
  <2>1. g \in [S -> T] /\ \A t \in T : \E x \in S : g[x] = t
    OBVIOUS
  <2>. HIDE DEF g, T
  <2>. QED
    BY <2>1, Fun_IsSurj
<1>. HIDE DEF g, T
<1>2. IsFiniteSet(T)
  BY <1>1, FS_Surjection
<1>. QED
  BY <1>2 DEF T

\* A function on 1 .. n is a sequence.
LEMMA FunctionIsSeq ==
    ASSUME NEW S, NEW n \in Nat, NEW f \in [1 .. n -> S]
    PROVE  f \in Seq(S) /\ Len(f) = n
<1>1. f \in Seq(S)
  BY SeqDef
<1>2. Len(f) \in Nat /\ 1 .. Len(f) = 1 .. n
  BY <1>1, LenProperties
<1>3. ~ Len(f) < n
  <2>1. Len(f) < n => Len(f) + 1 \in 1 .. n /\ Len(f) + 1 \notin 1 .. Len(f)
    BY <1>2
  <2>. QED
    BY <1>2, <2>1
<1>4. ~ n < Len(f)
  <2>1. n < Len(f) => n + 1 \in 1 .. Len(f) /\ n + 1 \notin 1 .. n
    BY <1>2
  <2>. QED
    BY <1>2, <2>1
<1>. QED
  BY <1>1, <1>2, <1>3, <1>4

=============================================================================

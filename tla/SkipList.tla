----------------------------- MODULE SkipList ------------------------------
(***************************************************************************)
(* tools/skiplist.c, link by link: the write buffer's index.  Keys are     *)
(* numbers, ordered as KEYCMP orders the strings; the header's key_max is  *)
(* above them all.  Nodes come from malloc; what a freed one holds is Junk.*)
(* A value is a version of its key's value.  The back links, which nothing *)
(* reads, and data_size, which is never initialised, are left out.         *)
(***************************************************************************)
EXTENDS Integers, Sequences, FiniteSets

CONSTANTS Nodes, Header, Junk,
          Keys,      \* a set of naturals
          MAX_L,     \* levels go up to MAX_L - 1
          MaxVer     \* bound: versions of a value

Cells == Nodes \union {Header}
Levels == 1 .. MAX_L - 1

SkipAssumption ==
    /\ IsFiniteSet(Nodes) /\ IsFiniteSet(Keys)
    /\ Keys \subseteq Nat /\ Keys # {} /\ MAX_L \in Nat \ {0, 1} /\ MaxVer \in Nat \ {0}
    /\ Header \notin Nodes /\ Junk \notin Cells \union Keys

KeyMax == 1 + CHOOSE k \in Keys : \A j \in Keys : j <= k

VARIABLES level, size,   \* of the list
          list,          \* cell -> its links, one for each level up to its own
          key, value

vars == <<level, size, list, key, value>>

Free == {n \in Nodes : key[n] = Junk}

\* skiplist_init; the header's value stays NULL.
Init ==
    /\ level = 1 /\ size = 0
    /\ list = [c \in Cells |-> IF c = Header THEN [i \in Levels |-> Header] ELSE <<>>]
    /\ key = [c \in Cells |-> IF c = Header THEN KeyMax ELSE Junk]
    /\ value = [n \in Nodes |-> Junk]

-----------------------------------------------------------------------------
\* From cell c along level i to the last cell below key k.
Before(c, i, k) ==
    LET f[x \in {d \in Cells : i \in DOMAIN list[d]}] ==
            IF key[list[x][i]] < k THEN f[list[x][i]] ELSE x
    IN  f[c]

\* The path of a search: for each level the cell where it goes down.
Path(k) ==
    LET update[i \in Levels] ==
            IF i > level THEN Header ELSE Before(IF i = level THEN Header ELSE update[i + 1], i, k)
    IN  update

\* The node a search for k ends at; the header when no key is as large.
Reached(k) == list[IF level = 0 THEN Header ELSE Path(k)[1]][1]

skiplist_find_lowerbound(k) == IF size = 0 THEN Junk ELSE Reached(k)

skiplist_find(k) ==
    IF size # 0 /\ key[Reached(k)] = k THEN Reached(k) ELSE Junk

-----------------------------------------------------------------------------
\* KEYTEST of the node reached: its value is replaced.
Replace(k) ==
    LET x == Reached(k) IN
    /\ key[x] = k
    /\ value[x] < MaxVer
    /\ value' = [value EXCEPT ![x] = @ + 1]
    /\ UNCHANGED <<level, size, list, key>>

\* n, of level l, put into the list behind the cells of path p.
Linked(n, l, p) ==
    [c \in Cells |->
        IF c = n THEN [i \in 1 .. l |-> list[p[i]][i]]
        ELSE [i \in DOMAIN list[c] |-> IF i <= l /\ p[i] = c THEN n ELSE list[c][i]]]

\* A fault: the list's level is not raised.
HigherNever(l) == level

\* The list is as high as its highest node.
Higher(l) == IF l > level THEN l ELSE level

InsertNew(n, k, l) ==
    /\ key[Reached(k)] # k
    /\ n \in Free
    /\ list' = Linked(n, l, Path(k))
    /\ key' = [key EXCEPT ![n] = k]
    /\ value' = [value EXCEPT ![n] = 1]
    /\ level' = Higher(l)
    /\ size' = size + 1

Unlinked(n, p) ==
    [c \in Cells |->
        IF c = n THEN <<>>
        ELSE [i \in DOMAIN list[c] |->
                IF i \in DOMAIN list[n] /\ p[i] = c THEN list[n][i] ELSE list[c][i]]]

\* The levels that only the header is left on come off.
skiplist_delete(k) ==
    LET p == Path(k)
        x == Reached(k) IN
    /\ size # 0 /\ key[x] = k
    /\ list' = Unlinked(x, p)
    /\ level' = level - Cardinality({i \in DOMAIN list[x] : p[i] = list[x][i]})
    /\ key' = [key EXCEPT ![x] = Junk] /\ value' = [value EXCEPT ![x] = Junk]
    /\ size' = size - 1

\* skiplist_clear: level 0, not 1 as at first.
skiplist_clear ==
    /\ size > 0
    /\ list' = [c \in Cells |-> IF c = Header THEN [i \in Levels |-> Header] ELSE <<>>]
    /\ key' = [c \in Cells |-> IF c = Header THEN KeyMax ELSE Junk]
    /\ value' = [n \in Nodes |-> Junk]
    /\ level' = 0 /\ size' = 0

skiplist_insert(k) ==
    \/ Replace(k)
    \/ \E n \in Nodes, l \in Levels : InsertNew(n, k, l)

Next ==
    \/ \E k \in Keys : skiplist_insert(k) \/ skiplist_delete(k)
    \/ skiplist_clear

Spec == Init /\ [][Next]_vars

-----------------------------------------------------------------------------
\* skiplist_get_next until it returns NULL; and the same on another level.
Iterated(i) ==
    LET walk[m \in 0 .. Cardinality(Nodes)] ==
            IF m = 0 THEN <<>>
            ELSE LET w == walk[m - 1]
                     x == list[IF w = <<>> THEN Header ELSE w[Len(w)]][i]
                 IN  IF Len(w) = m - 1 /\ x \in Nodes /\ i \in DOMAIN list[x]
                     THEN Append(w, x) ELSE w
    IN  walk[Cardinality(Nodes)]

TypeOK ==
    /\ level \in 0 .. MAX_L - 1 /\ size \in 0 .. Cardinality(Nodes)
    /\ \A c \in Cells : DOMAIN list[c] \in {1 .. l : l \in 0 .. MAX_L - 1}
                        /\ \A i \in DOMAIN list[c] : list[c][i] \in Cells
    /\ value \in [Nodes -> 1 .. MaxVer \union {Junk}]

\* However inserts, deletions and clearing alternate, each level holds exactly
\* the nodes that are as high, in the order of their keys; no link leads to a
\* freed node; and no level above the list's own is in use, nor is the list
\* higher than its highest node but for the first level.
LevelsSorted ==
    /\ \A i \in Levels :
          LET w == Iterated(i)
          IN  /\ {w[a] : a \in DOMAIN w} = {n \in Nodes \ Free : i \in DOMAIN list[n]}
              /\ \A a, b \in DOMAIN w : a < b => key[w[a]] < key[w[b]]
              /\ list[IF w = <<>> THEN Header ELSE w[Len(w)]][i] = Header
              /\ i > level => list[Header][i] = Header
              /\ i \in 2 .. level => list[Header][i] # Header
    /\ size = Cardinality(Nodes \ Free)

\* A search on the levels finds what a walk along the lowest one finds: the
\* node of the key, and else the first with a larger key.
SearchFinds ==
    size > 0 =>
    \A k \in Keys :
        LET found == skiplist_find(k)
            bound == skiplist_find_lowerbound(k)
        IN  /\ \A n \in Nodes \ Free : key[n] = k => found = n
            /\ found # Junk => key[found] = k
            /\ key[bound] >= k
            /\ \A n \in Nodes \ Free : key[n] >= k => key[bound] <= key[n]

Abstract == INSTANCE SortedMap WITH
    map <- [k \in {key[n] : n \in Nodes \ Free} |->
               value[CHOOSE n \in Nodes \ Free : key[n] = k]],
    order <- [i \in DOMAIN Iterated(1) |-> key[Iterated(1)[i]]]

\* The list is a map from keys to the values last inserted, and its iterator
\* meets every key once, in order: what a flush relies on.
ImplementsMap == Abstract!Spec

=============================================================================

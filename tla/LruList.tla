------------------------------ MODULE LruList ------------------------------
(***************************************************************************)
(* tools/lru_list.c, node by node: the doubly linked list in which the     *)
(* mapping cache keeps its pages by recency.  malloc may return any node   *)
(* that is not in use; what a freed node holds is Junk.                    *)
(***************************************************************************)
EXTENDS Integers, Sequences, FiniteSets

CONSTANTS Nodes, Data, NULL, Junk

LruAssumption ==
    /\ IsFiniteSet(Nodes)
    /\ NULL \notin Nodes
    /\ Junk \notin Nodes \union Data \union {NULL}

VARIABLES head, tail, size,
          prev, next, data,   \* fields of each node
          result              \* what the last pop returned

lru == <<head, tail, size>>
vars == <<lru, prev, next, data, result>>

Used == {n \in Nodes : data[n] # Junk}

\* free(n), after the other assignments to the links.
Freed(links, n) == [links EXCEPT ![n] = Junk]

-----------------------------------------------------------------------------
Init ==
    /\ head = NULL /\ tail = NULL /\ size = 0
    /\ prev = [n \in Nodes |-> Junk] /\ next = [n \in Nodes |-> Junk]
    /\ data = [n \in Nodes |-> Junk]
    /\ result = NULL

lru_push(n, d) ==
    /\ n \notin Used
    /\ data' = [data EXCEPT ![n] = d]
    /\ head' = n
    /\ tail' = IF size = 0 THEN n ELSE tail
    /\ next' = [next EXCEPT ![n] = IF size = 0 THEN NULL ELSE head]
    /\ prev' = IF size = 0 THEN [prev EXCEPT ![n] = NULL]
               ELSE [prev EXCEPT ![n] = NULL, ![head] = n]
    /\ size' = size + 1
    /\ UNCHANGED result

lru_pop ==
    /\ head # NULL /\ size # 0
    /\ result' = data[tail]
    /\ tail' = prev[tail]
    /\ head' = IF prev[tail] = NULL THEN NULL ELSE head
    /\ next' = IF prev[tail] = NULL THEN Freed(next, tail)
               ELSE Freed([next EXCEPT ![prev[tail]] = NULL], tail)
    /\ prev' = Freed(prev, tail) /\ data' = Freed(data, tail)
    /\ size' = size - 1

\* n taken out between its neighbours, or at the tail; n is not the head.
Unlinked(n) ==
    [next |-> [next EXCEPT ![prev[n]] = IF n = tail THEN NULL ELSE next[n]],
     prev |-> IF n = tail THEN prev ELSE [prev EXCEPT ![next[n]] = prev[n]],
     tail |-> IF n = tail THEN prev[n] ELSE tail]

\* A fault: a node that was the tail stays the tail.
lru_updateTail(n) ==
    /\ n \in Used /\ n # head
    /\ LET u == Unlinked(n) IN
        /\ next' = [u.next EXCEPT ![n] = head]
        /\ prev' = [u.prev EXCEPT ![n] = NULL, ![head] = n]
        /\ head' = n /\ tail' = tail
    /\ UNCHANGED <<size, data, result>>

\* Of the head, and of NULL, nothing is done.
lru_update(n) ==
    /\ n \in Used /\ n # head
    /\ LET u == Unlinked(n) IN
        /\ next' = [u.next EXCEPT ![n] = head]
        /\ prev' = [u.prev EXCEPT ![n] = NULL, ![head] = n]
        /\ head' = n /\ tail' = u.tail
    /\ UNCHANGED <<size, data, result>>

DeleteHead(n) ==
    /\ n \in Used /\ n = head
    /\ head' = next[n]
    /\ tail' = IF next[n] = NULL THEN NULL ELSE tail
    /\ prev' = IF next[n] = NULL THEN Freed(prev, n)
               ELSE Freed([prev EXCEPT ![next[n]] = NULL], n)
    /\ next' = Freed(next, n) /\ data' = Freed(data, n)
    /\ size' = size - 1
    /\ UNCHANGED result

DeleteInner(n) ==
    /\ n \in Used /\ n # head
    /\ LET u == Unlinked(n) IN
        /\ next' = Freed(u.next, n) /\ prev' = Freed(u.prev, n)
        /\ tail' = u.tail
    /\ data' = Freed(data, n)
    /\ size' = size - 1
    /\ UNCHANGED <<head, result>>

lru_delete(n) == DeleteHead(n) \/ DeleteInner(n)

lru_pop_top ==
    /\ head # NULL /\ size # 0
    /\ result' = data[head]
    /\ head' = IF head = tail THEN NULL ELSE next[head]
    /\ tail' = IF head = tail THEN NULL ELSE tail
    /\ prev' = IF head = tail THEN Freed(prev, head)
               ELSE Freed([prev EXCEPT ![next[head]] = NULL], head)
    /\ next' = Freed(next, head) /\ data' = Freed(data, head)
    /\ size' = size - 1

Next ==
    \/ \E n \in Nodes, d \in Data : lru_push(n, d)
    \/ lru_pop \/ lru_pop_top
    \/ \E n \in Nodes : lru_update(n) \/ lru_delete(n)

Spec == Init /\ [][Next]_vars

-----------------------------------------------------------------------------
\* The nodes met from n along the links, size of them or up to NULL or Junk.
Walk(n, links) ==
    LET walk[i \in 0 .. size] ==
            IF i = 0 THEN <<>>
            ELSE LET w == walk[i - 1]
                     at == IF w = <<>> THEN n ELSE links[w[Len(w)]]
                 IN  IF Len(w) = i - 1 /\ at \in Nodes THEN Append(w, at) ELSE w
    IN  walk[size]

TypeOK ==
    /\ {head, tail} \subseteq Nodes \union {NULL} /\ size \in 0 .. Cardinality(Nodes)
    /\ prev \in [Nodes -> Nodes \union {NULL, Junk}]
    /\ next \in [Nodes -> Nodes \union {NULL, Junk}]
    /\ data \in [Nodes -> Data \union {Junk}]
    /\ result \in Data \union {NULL}

\* However pushes, uses, pops and deletions alternate, the two directions of
\* the list name the same nodes, all of them in use, as many as size says, and
\* a walk ends: no link leads to a freed node.
LinksAgree ==
    /\ Len(Walk(head, next)) = size /\ Cardinality(Used) = size
    /\ LET w == Walk(head, next)
       IN  /\ Walk(tail, prev) = [i \in DOMAIN w |-> w[Len(w) + 1 - i]]
           /\ {w[i] : i \in DOMAIN w} = Used
    /\ size > 0 => prev[head] = NULL /\ next[tail] = NULL
    /\ size = 0 => head = NULL /\ tail = NULL

Abstract == INSTANCE Recency WITH order <- Walk(head, next), holds <- data

\* The list is a recency order: a use moves one node to the front and leaves
\* the order of the others, and a pop returns and takes out the node that was
\* used longest ago, the cache's victim.
ImplementsRecency == Abstract!Spec

=============================================================================

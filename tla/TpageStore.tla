----------------------------- MODULE TpageStore -----------------------------
(***************************************************************************)
(* What the mapping area of the flash promises to the mapping cache: it    *)
(* keeps one copy of each translation page that was written and not        *)
(* dropped since, and reclaiming space neither loses nor revives a copy.   *)
(***************************************************************************)
CONSTANT TPages

VARIABLE stored    \* the translation pages flash holds the current copy of

Init == stored = {}

\* An eviction or a mapping rewrite writes page d, whose old copy was dropped.
Store(d) == d \notin stored /\ stored' = stored \union {d}

\* An update in the cache makes the copy on flash out of date.
Drop(d) == d \in stored /\ stored' = stored \ {d}

Next == \E d \in TPages : Store(d) \/ Drop(d)

Spec == Init /\ [][Next]_stored

=============================================================================

---------------------------- MODULE MCFlushPath ----------------------------
(***************************************************************************)
(* Small instances of FlushPath: a value is a pair of its grains and a     *)
(* letter that tells it from another of the same length.                   *)
(***************************************************************************)
EXTENDS FlushPath

MCLenOf == [v \in Vals |-> v[1]]

\* One grain each, two contents.
MCUnitVals == {<<1, "a">>, <<1, "b">>}

\* One grain, one content; two grains, one content.
MCOneVal == {<<1, "a">>}
MCPairVal == {<<2, "a">>}

\* One and two grains.
MCMixedVals == {<<1, "a">>, <<2, "b">>}

MCNotFound == <<0, "-">>

\* Keys 1 and 2 share their first entry, key 3 the one they probe next.
MCHashOf == [k \in Keys |-> IF k <= 2 THEN 0 ELSE 2]

\* Keys 1 and 2 share their path, each other key has its own.
MCHashPair == [k \in Keys |-> IF k <= 2 THEN 0 ELSE k]

\* Every key its own fingerprint.
MCFpOf == [k \in Keys |-> k]

=============================================================================

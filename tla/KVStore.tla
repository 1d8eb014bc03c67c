------------------------------ MODULE KVStore ------------------------------
(***************************************************************************)
(* What the key-value FTL promises its callers: a key reads as the value   *)
(* last set for it.  Buffering, flushing, hash probing, fingerprints and   *)
(* garbage collection are not to be seen.                                  *)
(***************************************************************************)
CONSTANTS Keys, Vals, NotFound

VARIABLE kv    \* key -> the value last set, NotFound before the first

Init == kv = [k \in Keys |-> NotFound]

Set(k, v) == kv' = [kv EXCEPT ![k] = v]

Next == \E k \in Keys, v \in Vals : Set(k, v)

Spec == Init /\ [][Next]_kv

=============================================================================

--------------------------- MODULE MCDemandCache ---------------------------
(* Small instances of DemandCache. *)
EXTENDS DemandCache

\* Keys 1 and 2 share their first entry; key 3 has its own.
MCHashOf == [k \in Keys |-> IF k <= 2 THEN 0 ELSE 1]

\* Every key its own fingerprint.
MCFpOf == [k \in Keys |-> k]

\* All keys on one path, two of them with the same fingerprint.
MCOneHash == [k \in Keys |-> 0]
MCTwins == [k \in Keys |-> IF k <= 2 THEN 1 ELSE 2]

=============================================================================

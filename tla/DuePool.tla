------------------------------ MODULE DuePool ------------------------------
(***************************************************************************)
(* What a queue of timed requests promises its user: a request put in is   *)
(* handed back once, and not before it is due.                             *)
(***************************************************************************)
EXTENDS Naturals, Functions

CONSTANTS Reqs, Times

VARIABLES due,    \* the requests put in and not handed back, each with its time
          clock

vars == <<due, clock>>

Init == due = <<>> /\ clock = 0

Put(r) ==
    /\ r \notin DOMAIN due
    /\ \E t \in Times :
          due' = [q \in DOMAIN due \union {r} |-> IF q = r THEN t ELSE due[q]]
    /\ UNCHANGED clock

Take(r) ==
    /\ r \in DOMAIN due
    /\ due[r] <= clock
    /\ due' = Restrict(due, DOMAIN due \ {r})
    /\ UNCHANGED clock

Pass == clock' \in {t \in Times : clock < t} /\ UNCHANGED due

Next == Pass \/ \E r \in Reqs : Put(r) \/ Take(r)

Spec == Init /\ [][Next]_vars

=============================================================================

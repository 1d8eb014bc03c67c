----------------------------- MODULE LunQueues -----------------------------
(***************************************************************************)
(* What the NAND emulator promises about time: each LUN serves what it is  *)
(* given one after the other, without a gap, and a caller is told when the *)
(* last LUN that works for it will be done.                                *)
(***************************************************************************)
EXTENDS Integers, FiniteSetsExt

CONSTANTS Luns, Costs, Never, MostPerLun

VARIABLES work,    \* LUN -> the time it still needs for what it was given
          told     \* the longest time the caller was told, or Never

Init == work = [l \in Luns |-> 0] /\ told = 0

\* Each LUN of T gets up to MostPerLun operations of the cost c.
Give(T, c) ==
    /\ \A l \in T : \E k \in 1 .. MostPerLun : work'[l] = work[l] + k * c
    /\ \A l \in Luns \ T : work'[l] = work[l]

\* A call is served and its answer is noted, or nobody waits for it.
Serve ==
    \E T \in (SUBSET Luns) \ {{}}, c \in Costs :
        /\ Give(T, c)
        /\ \/ UNCHANGED told
           \/ \E longest \in {told, 0} \ {Never} :
                 told' = Max({work'[l] : l \in T} \union {longest})

\* A call is given up on the way.
GiveUp ==
    /\ \E T \in SUBSET Luns, c \in Costs : Give(T, c)
    /\ told' \in {told, Never}

Tick == work' = [l \in Luns |-> Max({work[l] - 1, 0})] /\ UNCHANGED told

Next == Serve \/ GiveUp \/ Tick

Spec == Init /\ [][Next]_<<work, told>>

=============================================================================

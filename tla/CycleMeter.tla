----------------------------- MODULE CycleMeter -----------------------------
(***************************************************************************)
(* What the flight recorder promises of its cycle count, abstractly: a     *)
(* meter that only counts up, by at most one full cycle at a time          *)
(* (src/src/cycles.rs, the doc of compute_estimated_cycles), and that a    *)
(* loss of power sets back to no less than a reading already on disk       *)
(* (src/src/db.rs, the comment on synchronous=NORMAL).                     *)
(***************************************************************************)
EXTENDS Naturals

CONSTANT CycleUnits

VARIABLES wear,     \* the meter, 0 before the first reading
          durable   \* what of it has reached the disk

vars == <<wear, durable>>

Init == wear = 0 /\ durable = 0

Count ==
    /\ wear' \in wear .. (wear + CycleUnits)
    /\ UNCHANGED durable

Persist ==
    /\ durable' = wear
    /\ UNCHANGED wear

LosePower ==
    /\ wear' = durable
    /\ UNCHANGED durable

\* An empty recorder takes over the count the permanent history has.
Resume ==
    /\ wear = 0
    /\ wear' \in Nat
    /\ UNCHANGED durable

Next == Count \/ Persist \/ LosePower \/ Resume

Spec == Init /\ [][Next]_vars
=============================================================================

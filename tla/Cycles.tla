------------------------------- MODULE Cycles -------------------------------
(***************************************************************************)
(* Software cycle counting by energy throughput (src/src/cycles.rs).       *)
(*                                                                         *)
(* Energies are whole watt-hours.  A cycle count is a natural number of    *)
(* units, CycleUnits of which are one full cycle, so that the code's       *)
(* carried + delta_wh / energy_design_wh is exact for every design         *)
(* capacity of Designs.                                                    *)
(***************************************************************************)
EXTENDS Naturals

CONSTANTS
    Designs,     \* the design capacities packs have, in Wh
    CycleUnits,  \* how many units of the cycle count one full cycle is
    None         \* an absent value (Rust's Option::None)

ASSUME DesignsAssumption ==
    /\ CycleUnits \in Nat \ {0}
    /\ Designs \subseteq Nat \ {0}
    /\ \A d \in Designs : d * (CycleUnits \div d) = CycleUnits

PowerStates == {"Charging", "Discharging", "AcIdle", "Unknown"}

\* The part of a Sample the count is computed from.  An unreadable design
\* capacity reads as 0.
Samples == [ energy : Nat,
             design : Designs \cup {0},
             state  : PowerStates,
             boot   : Nat \cup {None},
             uptime : Nat \cup {None} ]

\* The part of an earlier Sample the integration reads back.
Anchors == [ energy : Nat,
             boot   : Nat \cup {None},
             uptime : Nat \cup {None},
             count  : Nat ]

ASSUME NoneAssumption ==
    None \notin Nat /\ None \notin Samples /\ None \notin Anchors

\* A sample that has been given its count, as later samples see it.
Anchor(sample, count) ==
    [ energy |-> sample.energy, boot |-> sample.boot,
      uptime |-> sample.uptime, count |-> count ]

\* What delta Wh through a pack of that design capacity adds to the count.
Wear(delta, design) == delta * (CycleUnits \div design)

\* Mutant: without an uptime to compare, a reboot goes unseen.
BootGuardByUptime(curr, prev) ==
    /\ prev.uptime # None /\ curr.uptime # None
    /\ curr.uptime < prev.uptime

CrossedBootBoundary(curr, prev) ==
    \/ /\ prev.boot # None /\ curr.boot # None
       /\ prev.boot # curr.boot
    \/ /\ prev.uptime # None /\ curr.uptime # None
       /\ curr.uptime < prev.uptime

\* Mutant: a rise in energy is integrated as well.
SignedDelta(curr, prev) ==
    /\ curr.design > 0
    /\ ~ CrossedBootBoundary(curr, prev)
    /\ curr.state = "Discharging"
    /\ prev.energy - curr.energy <= curr.design

\* The discharge between the two samples that may be integrated at all.
Integrable(curr, prev) ==
    /\ curr.design > 0
    /\ ~ CrossedBootBoundary(curr, prev)
    /\ curr.state = "Discharging"
    /\ curr.energy < prev.energy
    /\ prev.energy - curr.energy <= curr.design

\* Mutant: an unreadable design capacity voids the history.
VoidedByDesign(curr, prev) ==
    IF prev = None \/ curr.design = 0 THEN 0
    ELSE IF Integrable(curr, prev)
         THEN prev.count + Wear(prev.energy - curr.energy, curr.design)
         ELSE prev.count

\* Mutant: a reboot voids the history.
VoidedByReboot(curr, prev) ==
    IF prev = None THEN 0
    ELSE IF CrossedBootBoundary(curr, prev) THEN 0
    ELSE IF Integrable(curr, prev)
         THEN prev.count + Wear(prev.energy - curr.energy, curr.design)
         ELSE prev.count

ComputeEstimatedCycles(curr, prev) ==
    IF prev = None THEN 0
    ELSE IF Integrable(curr, prev)
         THEN prev.count + Wear(prev.energy - curr.energy, curr.design)
         ELSE prev.count
=============================================================================

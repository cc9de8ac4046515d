---------------------------- MODULE CyclesProofs ----------------------------
(***************************************************************************)
(* What the cycle integration returns, for every design capacity and every *)
(* unit of the count.                                                      *)
(***************************************************************************)
EXTENDS Cycles, TLAPS

\* A watt-hour of wear is a natural number of units, and a design capacity's
\* worth of it is one full cycle.
LEMMA WearOfDesign ==
    ASSUME NEW d \in Designs
    PROVE  /\ CycleUnits \div d \in Nat
           /\ d * (CycleUnits \div d) = CycleUnits
  BY DesignsAssumption

LEMMA Scaling ==
    ASSUME NEW a \in Nat, NEW b \in Nat, NEW k \in Nat, a <= b
    PROVE  a * k \in Nat /\ a * k <= b * k
<1>1. b * k = a * k + (b - a) * k
  OBVIOUS
<1>2. (b - a) * k \in Nat
  OBVIOUS
<1> QED
  BY <1>1, <1>2

\* An increment is never negative, and within one design capacity it is at
\* most one cycle.
LEMMA WearBounds ==
    ASSUME NEW d \in Designs, NEW delta \in Nat
    PROVE  /\ Wear(delta, d) \in Nat
           /\ delta <= d => Wear(delta, d) <= CycleUnits
<1>1. d \in Nat
  BY DesignsAssumption
<1>2. CycleUnits \div d \in Nat /\ d * (CycleUnits \div d) = CycleUnits
  BY WearOfDesign
<1>3. delta * (CycleUnits \div d) \in Nat
  BY <1>2, Scaling
<1>4. delta <= d => delta * (CycleUnits \div d) <= CycleUnits
  BY <1>1, <1>2, Scaling
<1> QED
  BY <1>3, <1>4 DEF Wear

\* With no earlier sample the count is zero.
LEMMA FirstCount ==
    ASSUME NEW curr
    PROVE  ComputeEstimatedCycles(curr, None) = 0
  BY DEF ComputeEstimatedCycles

\* The carried count is a floor, and one tick adds at most one full cycle: what
\* the doc of compute_estimated_cycles promises of every path through it.
THEOREM CountRises ==
    ASSUME NEW curr \in Samples, NEW prev \in Anchors
    PROVE  /\ ComputeEstimatedCycles(curr, prev) \in Nat
           /\ prev.count <= ComputeEstimatedCycles(curr, prev)
           /\ ComputeEstimatedCycles(curr, prev) <= prev.count + CycleUnits
<1> DEFINE delta == prev.energy - curr.energy
<1>1. prev.count \in Nat /\ prev.energy \in Nat
  BY DEF Anchors
<1>2. curr.energy \in Nat /\ curr.design \in Designs \cup {0}
  BY DEF Samples
<1>3. CycleUnits \in Nat
  BY DesignsAssumption
<1>4. CASE Integrable(curr, prev) /\ prev # None
  <2>1. curr.design \in Designs /\ delta \in Nat /\ delta <= curr.design
    BY <1>1, <1>2, <1>4, DesignsAssumption DEF Integrable
  <2>2. Wear(delta, curr.design) \in Nat /\ Wear(delta, curr.design) <= CycleUnits
    BY <2>1, WearBounds
  <2>3. ComputeEstimatedCycles(curr, prev) = prev.count + Wear(delta, curr.design)
    BY <1>4 DEF ComputeEstimatedCycles
  <2> QED
    BY <1>1, <1>3, <2>2, <2>3
<1>5. CASE ~ Integrable(curr, prev) /\ prev # None
  <2>1. ComputeEstimatedCycles(curr, prev) = prev.count
    BY <1>5 DEF ComputeEstimatedCycles
  <2> QED
    BY <1>1, <1>3, <2>1
<1>6. prev # None
  BY NoneAssumption
<1> QED
  BY <1>4, <1>5, <1>6
=============================================================================

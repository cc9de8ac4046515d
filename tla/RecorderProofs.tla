--------------------------- MODULE RecorderProofs ---------------------------
(***************************************************************************)
(* What holds of Recorder for every schedule, every set of design          *)
(* capacities and every bound of its environment.                          *)
(***************************************************************************)
EXTENDS Recorder, CyclesProofs, Induction, FiniteSetTheorems

-----------------------------------------------------------------------------
(***************************************************************************)
(* Tables.  A table that has rows has a newest one; no statement of the    *)
(* store takes that away.                                                  *)
(***************************************************************************)
HasNewest(table) ==
    DOMAIN table # {} => \E id \in DOMAIN table : IsNewest(table, id)

TableInv(table) == IsTable(table) /\ HasNewest(table)

LEMMA EmptyTable == TableInv(Empty) /\ DOMAIN Empty = {}
  BY DEF TableInv, IsTable, HasNewest, Empty

LEMMA LatestRow ==
    ASSUME NEW t, TableInv(t), DOMAIN t # {}
    PROVE  /\ LastId(t) \in DOMAIN t /\ IsNewest(t, LastId(t))
           /\ LastId(t) \in Nat
           /\ Latest(t) = t[LastId(t)] /\ Latest(t) \in Anchors
           /\ Latest(t) # None
<1>1. PICK id \in DOMAIN t : IsNewest(t, id)
  BY DEF TableInv, HasNewest
<1>2. LastId(t) = CHOOSE i \in DOMAIN t : IsNewest(t, i)
  BY DEF LastId
<1>3. LastId(t) \in DOMAIN t /\ IsNewest(t, LastId(t))
  BY <1>1, <1>2
<1> QED
  BY <1>3, NoneAssumption DEF Latest, TableInv, IsTable

LEMMA LatestType ==
    ASSUME NEW t, TableInv(t)
    PROVE  /\ LastId(t) \in Nat
           /\ Latest(t) \in Anchors \cup {None}
           /\ Latest(t) = None <=> DOMAIN t = {}
<1>1. CASE DOMAIN t = {}
  BY <1>1 DEF LastId, Latest
<1>2. CASE DOMAIN t # {}
  BY <1>2, LatestRow
<1> QED
  BY <1>1, <1>2

LEMMA NewestIsLast ==
    ASSUME NEW t, TableInv(t), NEW id, IsNewest(t, id)
    PROVE  LastId(t) = id /\ Latest(t) = t[id] /\ DOMAIN t # {}
<1>1. DOMAIN t # {} /\ id \in DOMAIN t /\ DOMAIN t \subseteq Nat
  BY DEF IsNewest, TableInv, IsTable
<1>2. IsNewest(t, LastId(t)) /\ LastId(t) \in DOMAIN t
  BY <1>1, LatestRow
<1>3. LastId(t) <= id /\ id <= LastId(t)
  BY <1>1, <1>2 DEF IsNewest
<1>4. LastId(t) = id
  BY <1>1, <1>2, <1>3
<1> QED
  BY <1>1, <1>4 DEF Latest

LEMMA InsertedRow ==
    ASSUME NEW t, TableInv(t), NEW row \in Anchors
    PROVE  /\ TableInv(Inserted(t, row))
           /\ DOMAIN Inserted(t, row) = DOMAIN t \cup {LastId(t) + 1}
           /\ DOMAIN Inserted(t, row) # {}
           /\ Latest(Inserted(t, row)) = row
<1> DEFINE new == LastId(t) + 1
           u == Inserted(t, row)
<1>1. LastId(t) \in Nat /\ new \in Nat \ {0}
  BY LatestType
<1>2. DOMAIN u = DOMAIN t \cup {new} /\ u[new] = row
  BY DEF Inserted
<1>3. IsTable(u)
  BY <1>1 DEF TableInv, IsTable, Inserted
<1>4. \A other \in DOMAIN t : other <= LastId(t)
  BY LatestRow DEF IsNewest
<1>5. IsNewest(u, new)
  <2>1. \A other \in DOMAIN u : other <= new
    BY <1>1, <1>2, <1>4 DEF TableInv, IsTable
  <2> QED
    BY <1>2, <2>1 DEF IsNewest
<1>6. TableInv(u)
  BY <1>2, <1>3, <1>5 DEF TableInv, HasNewest
<1>7. Latest(u) = u[new]
  BY <1>5, <1>6, NewestIsLast
<1> QED
  BY <1>2, <1>6, <1>7

LEMMA TrimmedRow ==
    ASSUME NEW t, TableInv(t), NEW id \in DOMAIN t
    PROVE  /\ TableInv(TrimmedBelow(t, id))
           /\ DOMAIN TrimmedBelow(t, id) \subseteq DOMAIN t
           /\ DOMAIN TrimmedBelow(t, id) # {}
           /\ Latest(TrimmedBelow(t, id)) = Latest(t)
           /\ \A i \in DOMAIN TrimmedBelow(t, id) : TrimmedBelow(t, id)[i] = t[i]
<1> DEFINE u == TrimmedBelow(t, id)
<1>1. DOMAIN t \subseteq Nat /\ IsNewest(t, LastId(t)) /\ LastId(t) \in DOMAIN t
  BY LatestRow DEF TableInv, IsTable
<1>2. /\ DOMAIN u \subseteq DOMAIN t
      /\ \A i \in DOMAIN u : u[i] = t[i]
      /\ DOMAIN u = {i \in DOMAIN t : i >= id}
  BY DEF TrimmedBelow
<1>3. id <= LastId(t)
  BY <1>1 DEF IsNewest
<1>4. LastId(t) \in DOMAIN u
  BY <1>1, <1>2, <1>3
<1>5. IsNewest(u, LastId(t))
  BY <1>1, <1>2, <1>4 DEF IsNewest
<1>6. IsTable(u)
  BY <1>2 DEF TableInv, IsTable, TrimmedBelow
<1>7. TableInv(u)
  BY <1>4, <1>5, <1>6 DEF TableInv, HasNewest
<1>8. Latest(u) = u[LastId(t)]
  BY <1>5, <1>7, NewestIsLast
<1> QED
  BY <1>2, <1>4, <1>7, <1>8, LatestRow

-----------------------------------------------------------------------------
(***************************************************************************)
(* Types.  TypeOK is not inductive: a step that uses the sample, its count *)
(* or the boundary needs it to be there, and the newest row to exist.      *)
(***************************************************************************)
Sampled  == {"adoptDebug", "adoptHistory", "record", "alert", "history", "append"}
Recorded == {"alert", "history", "append"}

TablesInv ==
    TableInv(debug) /\ TableInv(history) /\ TableInv(debugSynced) /\ TableInv(historySynced)

LocalsInv ==
    /\ pc \in Sampled => sample \in Samples
    /\ pc \in Recorded => count \in Nat
    /\ pc = "trim" => boundary \in DOMAIN debug
    /\ shotPc # "none" => shot \in Samples

TypeInv == WorldOK /\ TablesInv /\ DaemonOK /\ OneShotOK /\ LocalsInv

LEMMA InitTypeInv == Init => TypeInv
<1> SUFFICES ASSUME Init PROVE TypeInv
  OBVIOUS
<1>1. WorldOK
  BY EnvironmentAssumption DEF Init, WorldOK
<1>2. TablesInv
  BY EmptyTable DEF Init, TablesInv
<1>3. DaemonOK /\ OneShotOK /\ LocalsInv
  BY DEF Init, DaemonOK, OneShotOK, LocalsInv, Steps, ShotSteps, Sampled, Recorded
<1> QED
  BY <1>1, <1>2, <1>3 DEF TypeInv

LEMMA Difference ==
    ASSUME NEW a \in Nat, NEW b \in Nat, b <= a
    PROVE  a - b \in Nat
  OBVIOUS

LEMMA IntervalType ==
    ASSUME WorldOK, Interval, UNCHANGED boot
    PROVE  WorldOK'
<1>1. CASE Used
  <2>1. energy' \in 0 .. MaxEnergy
    BY <1>1, EnvironmentAssumption DEF Used, WorldOK
  <2>2. drained' \in Nat
    <3>1. CASE energy' \in 0 .. energy /\ drained' = drained + Wear(energy - energy', design)
      <4> DEFINE delta == energy - energy'
      <4>1. energy \in Nat
        BY EnvironmentAssumption DEF WorldOK
      <4>2. delta \in Nat
        <5>1. energy' \in 0 .. energy
          BY <3>1
        <5>2. energy' \in Nat /\ energy' <= energy
          BY <4>1, <5>1
        <5> QED
          BY <4>1, <5>2, Difference
      <4>3. Wear(delta, design) \in Nat
        BY <4>2, WearBounds DEF WorldOK
      <4> QED
        BY <3>1, <4>3 DEF WorldOK
    <3>2. CASE UNCHANGED drained
      BY <3>2 DEF WorldOK
    <3> QED
      BY <1>1, <3>1, <3>2 DEF Used
  <2> QED
    BY <1>1, <2>1, <2>2 DEF Used, WorldOK
<1>2. CASE Removed
  BY <1>2 DEF Removed, WorldOK
<1>3. CASE Seated
  BY <1>3 DEF Seated, WorldOK
<1> QED
  BY <1>1, <1>2, <1>3 DEF Interval

LEMMA ReadingType ==
    ASSUME WorldOK, NEW reading \in Readings
    PROVE  reading \in Samples
  BY EnvironmentAssumption
     DEF WorldOK, Readings, Samples, RailStates, PowerStates

LEMMA AnchorType ==
    ASSUME NEW s \in Samples, NEW c \in Nat
    PROVE  Anchor(s, c) \in Anchors /\ Anchor(s, c).count = c
  BY DEF Samples, Anchors, Anchor

LEMMA CountType ==
    ASSUME NEW curr \in Samples, NEW prev \in Anchors \cup {None}
    PROVE  ComputeEstimatedCycles(curr, prev) \in Nat
  BY CountRises, FirstCount

\* A step that ends the tick keeps the types of the daemon's variables.
LEMMA EndTickType ==
    ASSUME DaemonOK, EndTick, previous' \in Anchors \cup {None},
           batteryWasAbsent' \in BOOLEAN, latched' \in BOOLEAN,
           rearmed' \in BOOLEAN
    PROVE  DaemonOK' /\ pc' = "asleep"
<1>1. HistoryInterval * PruneInterval \in Nat \ {0}
  BY ScheduleAssumption
<1>2. tickCount' \in Nat
  BY <1>1 DEF EndTick, DaemonOK
<1> QED
  BY <1>2 DEF EndTick, DaemonOK, Steps

\* So does a step that starts it anew.
LEMMA FreshType ==
    ASSUME Fresh, pc' = "down"
    PROVE  DaemonOK'
  BY DEF Fresh, DaemonOK, Steps

LEMMA FailedTickType ==
    ASSUME TypeInv, NEW kind, FailedTick(kind), batteryWasAbsent' \in BOOLEAN
    PROVE  TypeInv'
<1> USE DEF TypeInv, FailedTick, world, tables, synced, oneShot
<1>1. DaemonOK' /\ pc' = "asleep"
  BY EndTickType DEF DaemonOK
<1>2. WorldOK' /\ TablesInv' /\ OneShotOK'
  BY DEF WorldOK, TablesInv, OneShotOK
<1>3. LocalsInv'
  BY <1>1 DEF LocalsInv, Sampled, Recorded
<1> QED
  BY <1>1, <1>2, <1>3

LEMMA TickTypeInv ==
    ASSUME TypeInv, Tick
    PROVE  TypeInv'
<1> USE DEF TypeInv, world, tables, synced, oneShot, local
<1>1. CASE Wake
  <2>1. WorldOK'
    BY <1>1, IntervalType DEF Wake
  <2>2. TablesInv' /\ DaemonOK' /\ OneShotOK'
    BY <1>1 DEF Wake, TablesInv, DaemonOK, OneShotOK, Steps
  <2>3. LocalsInv'
    BY <1>1 DEF Wake, LocalsInv, Sampled, Recorded
  <2> QED
    BY <2>1, <2>2, <2>3
<1>2. CASE FindBoundary
  <2>1. CASE FailedTick("prune") /\ UNCHANGED batteryWasAbsent
    BY <2>1, FailedTickType DEF DaemonOK
  <2>2. CASE ~ (FailedTick("prune") /\ UNCHANGED batteryWasAbsent)
    <3>1. boundary' = None \/ boundary' \in DOMAIN debug
      BY <1>2, <2>2 DEF FindBoundary, Boundary
    <3>2. boundary' \in Nat \cup {None}
      BY <3>1 DEF TablesInv, TableInv, IsTable
    <3>3. DaemonOK'
      BY <1>2, <2>2, <3>2 DEF FindBoundary, DaemonOK, Steps
    <3>4. LocalsInv'
      BY <1>2, <2>2, <3>1 DEF FindBoundary, LocalsInv, Sampled, Recorded
    <3>5. WorldOK' /\ TablesInv' /\ OneShotOK'
      BY <1>2, <2>2 DEF FindBoundary, WorldOK, TablesInv, OneShotOK
    <3> QED
      BY <3>3, <3>4, <3>5
  <2> QED
    BY <2>1, <2>2
<1>3. CASE Trim
  <2>1. CASE FailedTick("prune") /\ UNCHANGED batteryWasAbsent
    BY <2>1, FailedTickType DEF DaemonOK
  <2>2. CASE ~ (FailedTick("prune") /\ UNCHANGED batteryWasAbsent)
    <3>1. debug' = TrimmedBelow(debug, boundary) /\ boundary \in DOMAIN debug
      BY <1>3, <2>2 DEF Trim, LocalsInv
    <3>2. TableInv(debug')
      BY <3>1, TrimmedRow DEF TablesInv
    <3>3. TablesInv'
      BY <1>3, <2>2, <3>2 DEF Trim, TablesInv
    <3>4. DaemonOK'
      BY <1>3, <2>2 DEF Trim, DaemonOK, Steps
    <3>5. LocalsInv' /\ WorldOK' /\ OneShotOK'
      BY <1>3, <2>2 DEF Trim, LocalsInv, WorldOK, OneShotOK, Sampled, Recorded
    <3> QED
      BY <3>3, <3>4, <3>5
  <2> QED
    BY <2>1, <2>2
<1>4. CASE SampleUnreadable
  <2>1. DaemonOK' /\ pc' = "asleep"
    BY <1>4, EndTickType DEF SampleUnreadable, DaemonOK
  <2>2. WorldOK' /\ TablesInv' /\ OneShotOK' /\ LocalsInv'
    BY <1>4, <2>1 DEF SampleUnreadable, WorldOK, TablesInv, OneShotOK, LocalsInv,
                      Sampled, Recorded
  <2> QED
    BY <2>1, <2>2
<1>5. CASE SampleAbsent
  <2>1. DaemonOK' /\ pc' = "asleep"
    BY <1>5, EndTickType DEF SampleAbsent, DaemonOK
  <2>2. WorldOK' /\ TablesInv' /\ OneShotOK' /\ LocalsInv'
    BY <1>5, <2>1 DEF SampleAbsent, WorldOK, TablesInv, OneShotOK, LocalsInv,
                      Sampled, Recorded
  <2> QED
    BY <2>1, <2>2
<1>6. CASE SamplePresent
  <2>1. sample' \in Samples
    BY <1>6, ReadingType DEF SamplePresent
  <2>2. DaemonOK'
    BY <1>6, <2>1 DEF SamplePresent, DaemonOK, Steps
  <2>3. LocalsInv'
    BY <1>6, <2>1 DEF SamplePresent, LocalsInv, Recorded
  <2>4. WorldOK' /\ TablesInv' /\ OneShotOK'
    BY <1>6 DEF SamplePresent, WorldOK, TablesInv, OneShotOK
  <2> QED
    BY <2>2, <2>3, <2>4
<1>7. CASE AdoptDebug \/ AdoptHistory
  <2>1. CASE FailedTick("adopt") /\ UNCHANGED batteryWasAbsent
    BY <2>1, FailedTickType DEF DaemonOK
  <2>2. CASE ~ (FailedTick("adopt") /\ UNCHANGED batteryWasAbsent)
    <3>1. previous' \in Anchors \cup {None}
      BY <1>7, <2>2, LatestType DEF AdoptDebug, AdoptHistory, Adopt, TablesInv
    <3>2. sample \in Samples /\ UNCHANGED sample
      BY <1>7, <2>2 DEF AdoptDebug, AdoptHistory, Adopt, LocalsInv, Sampled
    <3>3. DaemonOK' /\ pc' \in {"adoptHistory", "record"}
      BY <1>7, <2>2, <3>1 DEF AdoptDebug, AdoptHistory, Adopt, DaemonOK, Steps
    <3>4. LocalsInv'
      BY <1>7, <2>2, <3>2, <3>3 DEF AdoptDebug, AdoptHistory, Adopt, LocalsInv, Recorded
    <3>5. WorldOK' /\ TablesInv' /\ OneShotOK'
      BY <1>7, <2>2 DEF AdoptDebug, AdoptHistory, Adopt, WorldOK, TablesInv, OneShotOK
    <3> QED
      BY <3>3, <3>4, <3>5
  <2> QED
    BY <2>1, <2>2
<1>8. CASE Record
  <2>1. CASE FailedTick("debug")
    BY <1>8, <2>1, FailedTickType DEF Record
  <2>2. CASE ~ FailedTick("debug")
    <3>1. sample \in Samples /\ previous \in Anchors \cup {None}
      BY <1>8 DEF Record, LocalsInv, Sampled, DaemonOK
    <3>2. CarriedCount \in Nat
      BY <3>1 DEF CarriedCount, Anchors
    <3>3. NextCount \in Nat
      BY <3>1, <3>2, CountType DEF NextCount
    <3>4. count' = NextCount /\ debug' = Inserted(debug, Anchor(sample, NextCount))
      BY <1>8, <2>2 DEF Record
    <3>5. TableInv(debug')
      BY <3>1, <3>3, <3>4, AnchorType, InsertedRow DEF TablesInv
    <3>6. TablesInv'
      BY <1>8, <2>2, <3>5 DEF Record, TablesInv
    <3>7. DaemonOK'
      BY <1>8, <2>2, <3>3 DEF Record, DaemonOK, Steps
    <3>8. LocalsInv'
      BY <1>8, <2>2, <3>1, <3>3 DEF Record, LocalsInv
    <3>9. WorldOK' /\ OneShotOK'
      BY <1>8, <2>2 DEF Record, WorldOK, OneShotOK
    <3> QED
      BY <3>6, <3>7, <3>8, <3>9
  <2> QED
    BY <2>1, <2>2
<1>9. CASE Alert
  <2>1. sample \in Samples /\ count \in Nat
    BY <1>9 DEF Alert, LocalsInv, Sampled, Recorded
  <2>2. latched' \in BOOLEAN /\ rearmed' \in BOOLEAN
    BY <1>9 DEF Alert
  <2>3. WorldOK' /\ TablesInv' /\ OneShotOK'
    BY <1>9 DEF Alert, WorldOK, TablesInv, OneShotOK
  <2>4. CASE IsDue(HistoryInterval)
    <3>1. DaemonOK'
      BY <1>9, <2>2, <2>4 DEF Alert, DaemonOK, Steps
    <3>2. LocalsInv'
      BY <1>9, <2>1, <2>4 DEF Alert, LocalsInv
    <3> QED
      BY <2>3, <3>1, <3>2
  <2>5. CASE ~ IsDue(HistoryInterval)
    <3>1. EndTick /\ previous' = Anchor(sample, count) /\ UNCHANGED batteryWasAbsent
      BY <1>9, <2>5 DEF Alert, Succeed
    <3>2. DaemonOK' /\ pc' = "asleep"
      BY <2>1, <2>2, <3>1, AnchorType, EndTickType DEF DaemonOK
    <3>3. LocalsInv'
      BY <1>9, <3>2 DEF Alert, LocalsInv, Sampled, Recorded
    <3> QED
      BY <2>3, <3>2, <3>3
  <2> QED
    BY <2>4, <2>5
<1>10. CASE FindHistory
  <2>1. CASE FailedTick("history") /\ UNCHANGED batteryWasAbsent
    BY <2>1, FailedTickType DEF DaemonOK
  <2>2. CASE ~ (FailedTick("history") /\ UNCHANGED batteryWasAbsent)
    <3>1. found' \in Anchors \cup {None}
      BY <1>10, <2>2, LatestType DEF FindHistory, TablesInv
    <3>2. DaemonOK'
      BY <1>10, <2>2, <3>1 DEF FindHistory, DaemonOK, Steps
    <3>3. LocalsInv'
      BY <1>10, <2>2 DEF FindHistory, LocalsInv, Sampled, Recorded
    <3>4. WorldOK' /\ TablesInv' /\ OneShotOK'
      BY <1>10, <2>2 DEF FindHistory, WorldOK, TablesInv, OneShotOK
    <3> QED
      BY <3>2, <3>3, <3>4
  <2> QED
    BY <2>1, <2>2
<1>11. CASE Append
  <2>1. CASE FailedTick("history") /\ UNCHANGED batteryWasAbsent
    BY <2>1, FailedTickType DEF DaemonOK
  <2>2. CASE ~ (FailedTick("history") /\ UNCHANGED batteryWasAbsent)
    <3> DEFINE row == Anchor(sample, ComputeEstimatedCycles(sample, found))
    <3>1. sample \in Samples /\ count \in Nat /\ found \in Anchors \cup {None}
      BY <1>11 DEF Append, LocalsInv, Sampled, Recorded, DaemonOK
    <3>2. row \in Anchors
      BY <3>1, CountType, AnchorType
    <3>3. history' = Inserted(history, row)
      BY <1>11, <2>2 DEF Append
    <3>4. TableInv(history')
      BY <3>2, <3>3, InsertedRow DEF TablesInv
    <3>5. TablesInv' /\ WorldOK' /\ OneShotOK'
      BY <1>11, <2>2, <3>4 DEF Append, TablesInv, WorldOK, OneShotOK
    <3>6. EndTick /\ previous' = Anchor(sample, count)
          /\ UNCHANGED <<batteryWasAbsent, latched, rearmed>>
      BY <1>11, <2>2 DEF Append, Succeed
    <3>7. DaemonOK' /\ pc' = "asleep"
      BY <3>1, <3>6, AnchorType, EndTickType DEF DaemonOK
    <3>8. LocalsInv'
      BY <1>11, <2>2, <3>7 DEF Append, LocalsInv, Sampled, Recorded
    <3> QED
      BY <3>5, <3>7, <3>8
  <2> QED
    BY <2>1, <2>2
<1> QED
  BY <1>1, <1>2, <1>3, <1>4, <1>5, <1>6, <1>7, <1>8, <1>9, <1>10, <1>11 DEF Tick

LEMMA LifeTypeInv ==
    ASSUME TypeInv, Life
    PROVE  TypeInv'
<1> USE DEF TypeInv, world, tables, synced, oneShot, local
<1>1. CASE Start
  <2>1. DaemonOK'
    BY <1>1 DEF Start, DaemonOK, Steps
  <2>2. WorldOK' /\ TablesInv' /\ OneShotOK' /\ LocalsInv'
    BY <1>1 DEF Start, WorldOK, TablesInv, OneShotOK, LocalsInv, Sampled, Recorded
  <2> QED
    BY <2>1, <2>2
<1>2. CASE Stop
  <2>1. DaemonOK'
    BY <1>2, FreshType DEF Stop
  <2>2. WorldOK' /\ TablesInv' /\ OneShotOK' /\ LocalsInv'
    BY <1>2 DEF Stop, Checkpointed, WorldOK, TablesInv, OneShotOK, LocalsInv,
                Sampled, Recorded
  <2> QED
    BY <2>1, <2>2
<1>3. CASE Kill
  <2>1. DaemonOK'
    BY <1>3, FreshType DEF Kill
  <2>2. WorldOK' /\ TablesInv' /\ OneShotOK' /\ LocalsInv'
    BY <1>3 DEF Kill, WorldOK, TablesInv, OneShotOK, LocalsInv, Sampled, Recorded
  <2> QED
    BY <2>1, <2>2
<1>4. CASE IdleInterval
  <2>1. WorldOK'
    BY <1>4, IntervalType DEF IdleInterval
  <2>2. DaemonOK' /\ TablesInv' /\ OneShotOK' /\ LocalsInv'
    BY <1>4 DEF IdleInterval, daemon, DaemonOK, TablesInv, OneShotOK, LocalsInv
  <2> QED
    BY <2>1, <2>2
<1>5. CASE Writeback
  <2>1. TablesInv'
    BY <1>5 DEF Writeback, TablesInv
  <2>2. WorldOK' /\ DaemonOK' /\ OneShotOK' /\ LocalsInv'
    BY <1>5 DEF Writeback, daemon, WorldOK, DaemonOK, OneShotOK, LocalsInv
  <2> QED
    BY <2>1, <2>2
<1>6. CASE Off /\ TablesInv'
  <2>1. DaemonOK' /\ pc' = "down"
    BY <1>6, FreshType DEF Off
  <2>2. WorldOK' /\ OneShotOK' /\ LocalsInv'
    BY <1>6 DEF Off, WorldOK, OneShotOK, ShotSteps, LocalsInv, Sampled, Recorded
  <2> QED
    BY <1>6, <2>1, <2>2
<1>7. CASE Reboot
  <2>1. TablesInv'
    BY <1>7 DEF Reboot, Checkpointed, TablesInv
  <2> QED
    BY <1>6, <1>7, <2>1 DEF Reboot
<1>8. CASE PowerLoss
  <2>1. TablesInv'
    BY <1>8 DEF PowerLoss, TablesInv
  <2> QED
    BY <1>6, <1>8, <2>1 DEF PowerLoss
<1> QED
  BY <1>1, <1>2, <1>3, <1>4, <1>5, <1>7, <1>8 DEF Life

LEMMA OneShotTypeInv ==
    ASSUME TypeInv, OneShot
    PROVE  TypeInv'
<1> USE DEF TypeInv, world, tables, synced, daemon, local
<1>1. CASE ShotSample
  <2>1. shot' \in Samples
    BY <1>1, ReadingType DEF ShotSample
  <2> QED
    BY <1>1, <2>1 DEF ShotSample, WorldOK, TablesInv, DaemonOK, OneShotOK,
                      ShotSteps, LocalsInv
<1>2. CASE \/ ShotFind(history, "findHistory", "appendHistory")
           \/ ShotFind(debug, "findDebug", "record")
  <2>1. shotFound' \in Anchors \cup {None}
    BY <1>2, LatestType DEF ShotFind, TablesInv
  <2> QED
    BY <1>2, <2>1 DEF ShotFind, WorldOK, TablesInv, DaemonOK, OneShotOK,
                      ShotSteps, LocalsInv
<1>3. ASSUME shotPc # "none"
      PROVE  ShotRow \in Anchors
  <2>1. shot \in Samples /\ shotFound \in Anchors \cup {None}
    BY <1>3 DEF LocalsInv, OneShotOK
  <2> QED
    BY <2>1, CountType, AnchorType DEF ShotRow
<1>4. CASE ShotAppend
  <2>1. TableInv(history')
    BY <1>3, <1>4, InsertedRow DEF ShotAppend, TablesInv
  <2> QED
    BY <1>4, <2>1 DEF ShotAppend, WorldOK, TablesInv, DaemonOK, OneShotOK,
                      ShotSteps, LocalsInv
<1>5. CASE ShotRecord
  <2>1. TableInv(debug') /\ DOMAIN debug \subseteq DOMAIN debug'
    BY <1>3, <1>5, InsertedRow DEF ShotRecord, TablesInv
  <2> QED
    BY <1>5, <2>1 DEF ShotRecord, WorldOK, TablesInv, DaemonOK, OneShotOK,
                      ShotSteps, LocalsInv
<1>6. CASE ShotCheckpoint
  BY <1>6 DEF ShotCheckpoint, Checkpointed, WorldOK, TablesInv, DaemonOK,
              OneShotOK, ShotSteps, LocalsInv
<1>7. CASE ShotFails
  BY <1>7 DEF ShotFails, WorldOK, TablesInv, DaemonOK, OneShotOK, ShotSteps,
              LocalsInv
<1> QED
  BY <1>1, <1>2, <1>4, <1>5, <1>6, <1>7 DEF OneShot

LEMMA StutterTypeInv == TypeInv /\ UNCHANGED vars => TypeInv'
  BY DEF TypeInv, vars, world, tables, synced, daemon, local, oneShot, WorldOK,
         TablesInv, DaemonOK, OneShotOK, LocalsInv

THEOREM TypeInvariant == Spec => []TypeInv
<1>1. Init => TypeInv
  BY InitTypeInv
<1>2. TypeInv /\ [Next]_vars => TypeInv'
  BY TickTypeInv, LifeTypeInv, OneShotTypeInv, StutterTypeInv DEF Next
<1> QED
  BY <1>1, <1>2, PTL DEF Spec

\* Every variable keeps its type through failures, restarts, losses of power and
\* one-shot recordings: no step uses a sample, a count or a row that is not there.
THEOREM TypeCorrect == Spec => []TypeOK
<1>1. TypeInv => TypeOK
  BY DEF TypeInv, TypeOK, TablesInv, TableInv, TablesOK
<1> QED
  BY <1>1, TypeInvariant, PTL

-----------------------------------------------------------------------------
(***************************************************************************)
(* The series.  That the flight recorder's count never falls is inductive  *)
(* only together with what the daemon remembers of it: between two ticks   *)
(* previous carries the count of the newest row.  An insert into the       *)
(* history that fails, and a row another process adds, break exactly that. *)
(***************************************************************************)
Undisturbed == "history" \notin Faults /\ "oneshot" \notin Events

SeriesInv ==
    /\ NeverFalls(debug) /\ NeverFalls(debugSynced)
    /\ shotPc = "none"
    /\ pc \in Recorded => DOMAIN debug # {} /\ Latest(debug).count = count
    /\ pc \notin Recorded /\ previous # None /\ DOMAIN debug # {}
          => previous.count = Latest(debug).count
    /\ pc = "adoptHistory" => DOMAIN debug = {}
    /\ pc = "record" /\ previous = None => DOMAIN debug = {}

LEMMA InsertedNeverFalls ==
    ASSUME NEW t, TableInv(t), NeverFalls(t), NEW row \in Anchors,
           DOMAIN t # {} => Latest(t).count <= row.count
    PROVE  NeverFalls(Inserted(t, row))
<1> DEFINE new == LastId(t) + 1
           u == Inserted(t, row)
<1> SUFFICES ASSUME NEW i \in DOMAIN u, NEW j \in DOMAIN u, i < j
             PROVE  u[i].count <= u[j].count
  BY DEF NeverFalls
<1>1. DOMAIN u = DOMAIN t \cup {new} /\ u[new] = row
  BY DEF Inserted
<1>2. \A k \in DOMAIN t : k \in Nat /\ k <= LastId(t) /\ LastId(t) \in Nat /\ k # new
  BY LatestRow DEF IsNewest, TableInv, IsTable
<1>3. \A k \in DOMAIN t : u[k] = t[k]
  BY <1>2 DEF Inserted
<1>4. LastId(t) \in Nat
  BY LatestType
<1>5. i \in DOMAIN t
  BY <1>1, <1>2, <1>4
<1>6. CASE j \in DOMAIN t
  BY <1>3, <1>5, <1>6 DEF NeverFalls
<1>7. CASE j = new
  <2>1. u[i].count \in Nat /\ row.count \in Nat /\ Latest(t).count \in Nat
    BY <1>3, <1>5, LatestRow DEF TableInv, IsTable, Anchors
  <2>2. Latest(t) = t[LastId(t)] /\ LastId(t) \in DOMAIN t
    BY <1>5, LatestRow
  <2>3. u[i].count <= Latest(t).count
    <3>1. CASE i = LastId(t)
      BY <1>3, <1>5, <2>1, <2>2, <3>1
    <3>2. CASE i < LastId(t)
      BY <1>3, <1>5, <2>2, <3>2 DEF NeverFalls
    <3> QED
      BY <1>2, <1>5, <3>1, <3>2
  <2> QED
    BY <1>1, <1>5, <1>7, <2>1, <2>3
<1> QED
  BY <1>1, <1>6, <1>7

\* What a tick is about to record is no less than the newest row, and at most
\* one cycle more.
LEMMA RecordedCount ==
    ASSUME TypeInv, SeriesInv, pc = "record"
    PROVE  /\ NextCount \in Nat
           /\ Anchor(sample, NextCount) \in Anchors
           /\ Anchor(sample, NextCount).count = NextCount
           /\ DOMAIN debug # {} =>
                 /\ Latest(debug).count \in Nat
                 /\ Latest(debug).count <= NextCount
                 /\ NextCount <= Latest(debug).count + CycleUnits
<1>1. sample \in Samples /\ previous \in Anchors \cup {None}
  BY DEF TypeInv, LocalsInv, DaemonOK, Sampled
<1>2. CycleUnits \in Nat
  BY DesignsAssumption
<1>3. CASE previous = None
  <2>1. DOMAIN debug = {}
    BY <1>3 DEF SeriesInv
  <2>2. NextCount = 0
    BY <1>3, FirstCount DEF NextCount, CarriedCount
  <2> QED
    BY <1>1, <2>1, <2>2, AnchorType
<1>4. CASE previous # None
  <2>1. previous \in Anchors /\ previous.count \in Nat
    BY <1>1, <1>4 DEF Anchors
  <2>2. DOMAIN debug # {} => previous.count = Latest(debug).count
    BY <1>4 DEF SeriesInv, Recorded
  <2>3. NextCount \in Nat /\ previous.count <= NextCount
        /\ NextCount <= previous.count + CycleUnits
    <3>1. CASE batteryWasAbsent
      BY <1>2, <1>4, <2>1, <3>1 DEF NextCount, CarriedCount
    <3>2. CASE ~ batteryWasAbsent
      BY <1>1, <2>1, <3>2, CountRises DEF NextCount
    <3> QED
      BY <3>1, <3>2
  <2> QED
    BY <1>1, <2>1, <2>2, <2>3, AnchorType
<1> QED
  BY <1>3, <1>4

LEMMA InitSeriesInv == Init => SeriesInv
  BY EmptyTable DEF Init, SeriesInv, NeverFalls, Recorded

\* A step that records nothing and ends between two readings.
LEMMA QuietStep ==
    ASSUME SeriesInv, pc \notin Recorded,
           UNCHANGED <<debug, debugSynced, previous, shotPc>>,
           pc' \notin Recorded \cup {"adoptHistory", "record"}
    PROVE  SeriesInv'
  BY DEF SeriesInv, NeverFalls

LEMMA FailedTickSeries ==
    ASSUME SeriesInv, pc \notin Recorded, NEW kind, FailedTick(kind)
    PROVE  SeriesInv'
  BY QuietStep DEF FailedTick, EndTick, tables, synced, oneShot, Recorded

LEMMA TickSeriesInv ==
    ASSUME Undisturbed, TypeInv, SeriesInv, Tick
    PROVE  SeriesInv'
<1> USE DEF world, tables, synced, oneShot, local
<1>1. CASE Wake
  BY <1>1, QuietStep DEF Wake, Recorded
<1>2. CASE FindBoundary
  <2>1. CASE FailedTick("prune")
    BY <1>2, <2>1, FailedTickSeries DEF FindBoundary, Recorded
  <2>2. CASE ~ FailedTick("prune")
    BY <1>2, <2>2, QuietStep DEF FindBoundary, Recorded
  <2> QED
    BY <2>1, <2>2
<1>3. CASE Trim
  <2>1. CASE FailedTick("prune")
    BY <1>3, <2>1, FailedTickSeries DEF Trim, Recorded
  <2>2. CASE ~ FailedTick("prune")
    <3>1. debug' = TrimmedBelow(debug, boundary) /\ boundary \in DOMAIN debug
      BY <1>3, <2>2 DEF Trim, TypeInv, LocalsInv
    <3>2. /\ DOMAIN debug' \subseteq DOMAIN debug
          /\ Latest(debug') = Latest(debug)
          /\ \A i \in DOMAIN debug' : debug'[i] = debug[i]
      BY <3>1, TrimmedRow DEF TypeInv, TablesInv
    <3>3. NeverFalls(debug')
      BY <3>2 DEF SeriesInv, NeverFalls
    <3>4. UNCHANGED <<debugSynced, previous, shotPc>> /\ pc = "trim" /\ pc' = "sample"
      BY <1>3, <2>2 DEF Trim
    <3> QED
      BY <3>1, <3>2, <3>3, <3>4 DEF SeriesInv, Recorded, NeverFalls
  <2> QED
    BY <2>1, <2>2
<1>4. CASE SampleUnreadable
  BY <1>4, QuietStep DEF SampleUnreadable, EndTick, Recorded
<1>5. CASE SampleAbsent
  BY <1>5, QuietStep DEF SampleAbsent, EndTick, Recorded
<1>6. CASE SamplePresent
  BY <1>6 DEF SamplePresent, SeriesInv, NeverFalls, Recorded
<1>7. CASE AdoptDebug
  <2>1. CASE FailedTick("adopt")
    BY <1>7, <2>1, FailedTickSeries DEF AdoptDebug, Recorded
  <2>2. CASE ~ FailedTick("adopt")
    <3>1. previous' = Latest(debug) /\ UNCHANGED <<debug, debugSynced, shotPc>>
          /\ pc' = IF previous' = None THEN "adoptHistory" ELSE "record"
      BY <1>7, <2>2 DEF AdoptDebug, Adopt
    <3>2. previous' = None <=> DOMAIN debug = {}
      BY <3>1, LatestType DEF TypeInv, TablesInv
    <3> QED
      BY <3>1, <3>2 DEF SeriesInv, NeverFalls, Recorded
  <2> QED
    BY <2>1, <2>2
<1>8. CASE AdoptHistory
  <2>1. CASE FailedTick("adopt")
    BY <1>8, <2>1, FailedTickSeries DEF AdoptHistory, Recorded
  <2>2. CASE ~ FailedTick("adopt")
    <3>1. pc' = "record" /\ UNCHANGED <<debug, debugSynced, shotPc>> /\ DOMAIN debug = {}
      BY <1>8, <2>2 DEF AdoptHistory, Adopt, SeriesInv
    <3> QED
      BY <3>1 DEF SeriesInv, NeverFalls, Recorded
  <2> QED
    BY <2>1, <2>2
<1>9. CASE Record
  <2>1. CASE FailedTick("debug")
    BY <1>9, <2>1, FailedTickSeries DEF Record, Recorded
  <2>2. CASE ~ FailedTick("debug")
    <3> DEFINE row == Anchor(sample, NextCount)
    <3>1. debug' = Inserted(debug, row) /\ count' = NextCount /\ pc = "record"
          /\ pc' = "alert" /\ UNCHANGED <<debugSynced, shotPc>>
      BY <1>9, <2>2 DEF Record
    <3>2. /\ row \in Anchors /\ row.count = NextCount
          /\ DOMAIN debug # {} => Latest(debug).count <= row.count
      BY <3>1, RecordedCount
    <3>3. NeverFalls(Inserted(debug, row))
      BY <3>2, InsertedNeverFalls DEF TypeInv, TablesInv, SeriesInv
    <3>4. DOMAIN debug' # {} /\ Latest(debug').count = count'
      BY <3>1, <3>2, InsertedRow DEF TypeInv, TablesInv
    <3> HIDE DEF row
    <3> QED
      BY <3>1, <3>3, <3>4 DEF SeriesInv, NeverFalls, Recorded
  <2> QED
    BY <2>1, <2>2
<1>10. ASSUME pc \in Recorded, Succeed, UNCHANGED <<debug, debugSynced, shotPc>>
       PROVE  SeriesInv'
  <2>1. sample \in Samples /\ count \in Nat
    BY <1>10 DEF TypeInv, LocalsInv, Sampled, Recorded
  <2>2. previous'.count = count /\ pc' = "asleep"
    BY <1>10, <2>1, AnchorType DEF Succeed, EndTick
  <2> QED
    BY <1>10, <2>2 DEF SeriesInv, NeverFalls, Recorded
<1>11. CASE Alert
  <2>1. CASE IsDue(HistoryInterval)
    BY <1>11, <2>1 DEF Alert, SeriesInv, NeverFalls, Recorded
  <2>2. CASE ~ IsDue(HistoryInterval)
    BY <1>10, <1>11, <2>2 DEF Alert, Recorded
  <2> QED
    BY <2>1, <2>2
<1>12. CASE FindHistory
  <2>1. ~ FailedTick("history")
    BY DEF FailedTick, Undisturbed
  <2> QED
    BY <1>12, <2>1 DEF FindHistory, SeriesInv, NeverFalls, Recorded
<1>13. CASE Append
  <2>1. ~ FailedTick("history")
    BY DEF FailedTick, Undisturbed
  <2> QED
    BY <1>10, <1>13, <2>1 DEF Append, Recorded
<1> QED
  BY <1>1, <1>2, <1>3, <1>4, <1>5, <1>6, <1>7, <1>8, <1>9, <1>11, <1>12, <1>13 DEF Tick

\* A step that starts the daemon anew, over tables that each keep their rows.
LEMMA FreshSeries ==
    ASSUME SeriesInv, Fresh, pc' \notin Sampled, shotPc' = "none",
           NeverFalls(debug'), NeverFalls(debugSynced')
    PROVE  SeriesInv'
  BY DEF SeriesInv, Fresh, NeverFalls, Recorded, Sampled

LEMMA LifeSeriesInv ==
    ASSUME SeriesInv, Life
    PROVE  SeriesInv'
<1> USE DEF world, tables, synced, oneShot, local
<1>1. CASE Start
  BY <1>1, QuietStep DEF Start, Recorded
<1>2. CASE Stop
  <2>1. NeverFalls(debug') /\ NeverFalls(debugSynced')
    BY <1>2 DEF Stop, Checkpointed, SeriesInv
  <2> QED
    BY <1>2, <2>1, FreshSeries DEF Stop, SeriesInv, Sampled
<1>3. CASE Kill
  <2>1. NeverFalls(debug') /\ NeverFalls(debugSynced')
    BY <1>3 DEF Kill, SeriesInv
  <2> QED
    BY <1>3, <2>1, FreshSeries DEF Kill, SeriesInv, Sampled
<1>4. CASE IdleInterval
  BY <1>4 DEF IdleInterval, daemon, SeriesInv
<1>5. CASE Writeback
  BY <1>5 DEF Writeback, daemon, SeriesInv
<1>6. CASE Reboot
  <2>1. NeverFalls(debug') /\ NeverFalls(debugSynced')
    BY <1>6 DEF Reboot, Checkpointed, SeriesInv
  <2> QED
    BY <1>6, <2>1, FreshSeries DEF Reboot, Off, Sampled
<1>7. CASE PowerLoss
  <2>1. NeverFalls(debug') /\ NeverFalls(debugSynced')
    BY <1>7 DEF PowerLoss, SeriesInv
  <2> QED
    BY <1>7, <2>1, FreshSeries DEF PowerLoss, Off, Sampled
<1> QED
  BY <1>1, <1>2, <1>3, <1>4, <1>5, <1>6, <1>7 DEF Life

LEMMA NoOneShot == Undisturbed /\ SeriesInv => ~ OneShot
  BY DEF Undisturbed, SeriesInv, OneShot, ShotSample, ShotFind, ShotAppend,
         ShotRecord, ShotCheckpoint, ShotFails

LEMMA StutterSeriesInv == SeriesInv /\ UNCHANGED vars => SeriesInv'
  BY DEF SeriesInv, vars, tables, synced, daemon, local, oneShot

LEMMA SeriesInvariant ==
    ASSUME Undisturbed
    PROVE  Spec => [](TypeInv /\ SeriesInv)
<1>1. Init => SeriesInv
  BY InitSeriesInv
<1>2. TypeInv /\ SeriesInv /\ [Next]_vars => SeriesInv'
  BY TickSeriesInv, LifeSeriesInv, NoOneShot, StutterSeriesInv DEF Next
<1> QED
  BY <1>1, <1>2, TypeInvariant, PTL DEF Spec

\* The cycle count of the flight recorder never falls, whatever statement of it
\* fails, the daemon being killed at any step and power being lost, as long as
\* no insert into the history fails and no one-shot recording runs beside it.
THEOREM SeriesNeverFalls ==
    ASSUME Undisturbed
    PROVE  Spec => []DebugSeriesNeverFalls
<1>1. SeriesInv => DebugSeriesNeverFalls
  BY DEF SeriesInv, DebugSeriesNeverFalls
<1> QED
  BY <1>1, SeriesInvariant, PTL

-----------------------------------------------------------------------------
(***************************************************************************)
(* The history's series.  It needs nothing of what the daemon remembers:   *)
(* every row is integrated against the row the same tick found newest, and *)
(* only a one-shot recording can come between the two.                     *)
(***************************************************************************)
HistoryInv ==
    /\ NeverFalls(history) /\ NeverFalls(historySynced)
    /\ shotPc = "none"
    /\ pc = "append" => found = Latest(history)

\* A step that leaves the history alone and is not about to append to it.
LEMMA QuietHistory ==
    ASSUME HistoryInv, UNCHANGED <<history, historySynced, shotPc>>, pc' # "append"
    PROVE  HistoryInv'
  BY DEF HistoryInv

LEMMA FailedTickHistory ==
    ASSUME HistoryInv, NEW kind, FailedTick(kind)
    PROVE  HistoryInv'
  BY QuietHistory DEF FailedTick, EndTick, tables, synced, oneShot

LEMMA AppendHistoryInv ==
    ASSUME TypeInv, HistoryInv, Append
    PROVE  HistoryInv'
<1>1. CASE FailedTick("history")
  BY <1>1, FailedTickHistory
<1>2. CASE ~ FailedTick("history")
  <2> DEFINE next == ComputeEstimatedCycles(sample, found)
             row  == Anchor(sample, next)
  <2>1. /\ history' = Inserted(history, row) /\ pc = "append" /\ pc' = "asleep"
        /\ UNCHANGED <<historySynced, shotPc>>
    BY <1>2 DEF Append, Succeed, EndTick, synced, oneShot
  <2>2. found = Latest(history) /\ TableInv(history)
    BY <2>1 DEF HistoryInv, TypeInv, TablesInv
  <2>3. sample \in Samples /\ found \in Anchors \cup {None}
    BY <2>1 DEF TypeInv, LocalsInv, DaemonOK, Sampled
  <2>4. next \in Nat
    BY <2>3, CountType
  <2>5. row \in Anchors /\ row.count = next
    BY <2>3, <2>4, AnchorType
  <2>6. DOMAIN history # {} => found \in Anchors
    BY <2>2, LatestRow
  <2>7. DOMAIN history # {} => Latest(history).count <= row.count
    BY <2>2, <2>3, <2>5, <2>6, CountRises
  <2>8. NeverFalls(history')
    BY <2>1, <2>2, <2>5, <2>7, InsertedNeverFalls DEF HistoryInv
  <2> QED
    BY <2>1, <2>8 DEF HistoryInv, NeverFalls
<1> QED
  BY <1>1, <1>2

LEMMA TickHistoryInv ==
    ASSUME TypeInv, HistoryInv, Tick
    PROVE  HistoryInv'
<1> USE DEF tables, synced, oneShot
<1>1. CASE \E kind : FailedTick(kind)
  BY <1>1, FailedTickHistory
<1>2. CASE Wake \/ FindBoundary \/ Trim
  BY <1>1, <1>2, QuietHistory DEF Wake, FindBoundary, Trim
<1>3. CASE SampleUnreadable \/ SampleAbsent \/ SamplePresent
  BY <1>3, QuietHistory DEF SampleUnreadable, SampleAbsent, SamplePresent, EndTick
<1>4. CASE AdoptDebug \/ AdoptHistory
  BY <1>1, <1>4, QuietHistory DEF AdoptDebug, AdoptHistory, Adopt
<1>5. CASE Record
  BY <1>1, <1>5, QuietHistory DEF Record
<1>6. CASE Alert
  BY <1>6, QuietHistory DEF Alert, Succeed, EndTick
<1>7. CASE FindHistory
  BY <1>1, <1>7 DEF FindHistory, HistoryInv
<1>8. CASE Append
  BY <1>8, AppendHistoryInv
<1> QED
  BY <1>2, <1>3, <1>4, <1>5, <1>6, <1>7, <1>8 DEF Tick

LEMMA LifeHistoryInv ==
    ASSUME HistoryInv, Life
    PROVE  HistoryInv'
<1> USE DEF HistoryInv, tables, synced, oneShot, daemon, local
<1>1. CASE Start \/ Stop \/ Kill
  BY <1>1 DEF Start, Stop, Kill, Checkpointed
<1>2. CASE IdleInterval \/ Writeback
  BY <1>2 DEF IdleInterval, Writeback
<1>3. CASE Reboot
  BY <1>3 DEF Reboot, Off, Checkpointed
<1>4. CASE PowerLoss
  BY <1>4 DEF PowerLoss, Off
<1> QED
  BY <1>1, <1>2, <1>3, <1>4 DEF Life

\* The cycle count of the history never falls, whichever statements fail, the
\* daemon being killed at any step and power being lost, as long as no one-shot
\* recording runs beside the daemon.
THEOREM HistoryNeverFalls ==
    ASSUME "oneshot" \notin Events
    PROVE  Spec => []HistorySeriesNeverFalls
<1>1. Init => HistoryInv
  BY EmptyTable DEF Init, HistoryInv, NeverFalls
<1>2. TypeInv /\ HistoryInv /\ [Next]_vars => HistoryInv'
  <2>1. "oneshot" \notin Events /\ HistoryInv => ~ OneShot
    BY DEF HistoryInv, OneShot, ShotSample, ShotFind, ShotAppend, ShotRecord,
           ShotCheckpoint, ShotFails
  <2>2. HistoryInv /\ UNCHANGED vars => HistoryInv'
    BY DEF HistoryInv, vars, tables, synced, daemon, local, oneShot
  <2> QED
    BY <2>1, <2>2, TickHistoryInv, LifeHistoryInv DEF Next
<1>3. HistoryInv => HistorySeriesNeverFalls
  BY DEF HistoryInv, HistorySeriesNeverFalls
<1> QED
  BY <1>1, <1>2, <1>3, TypeInvariant, PTL DEF Spec

-----------------------------------------------------------------------------
(***************************************************************************)
(* The flight recorder implements the meter.                               *)
(***************************************************************************)
MeterStep == [Meter!Next]_(Meter!vars)

LEMMA ReachedType ==
    ASSUME NEW t, TableInv(t)
    PROVE  Reached(t) \in Nat
  BY LatestRow DEF Reached, Anchors

LEMMA MeterInit == Init => Meter!Init
  BY EmptyTable DEF Init, Meter!Init, Reached

\* A step that leaves the flight recorder's tables alone leaves the meter alone.
LEMMA MeterStutter ==
    ASSUME UNCHANGED <<debug, debugSynced>>
    PROVE  MeterStep
  BY DEF MeterStep, Meter!vars

\* A table reaching the disk, or not, is the reading reaching it, or not.
LEMMA MeterPersist ==
    ASSUME UNCHANGED debug, debugSynced' \in {debugSynced, debug}
    PROVE  MeterStep
<1>1. CASE debugSynced' = debugSynced
  BY <1>1, MeterStutter
<1>2. CASE debugSynced' = debug
  BY <1>2 DEF MeterStep, Meter!Next, Meter!Persist
<1> QED
  BY <1>1, <1>2

LEMMA TickImplementsMeter ==
    ASSUME TypeInv, SeriesInv, Tick
    PROVE  MeterStep
<1> USE DEF tables, synced
<1>1. CASE Trim /\ ~ FailedTick("prune")
  <2>1. debug' = TrimmedBelow(debug, boundary) /\ boundary \in DOMAIN debug
        /\ UNCHANGED debugSynced
    BY <1>1 DEF Trim, TypeInv, LocalsInv
  <2>2. Latest(debug') = Latest(debug) /\ DOMAIN debug' # {} /\ DOMAIN debug # {}
    BY <2>1, TrimmedRow DEF TypeInv, TablesInv
  <2>3. Reached(debug') = Reached(debug)
    BY <2>2 DEF Reached
  <2> QED
    BY <2>1, <2>3 DEF MeterStep, Meter!vars
<1>2. CASE Record /\ ~ FailedTick("debug")
  <2> DEFINE row == Anchor(sample, NextCount)
  <2>1. debug' = Inserted(debug, row) /\ pc = "record" /\ UNCHANGED debugSynced
    BY <1>2 DEF Record
  <2>2. row \in Anchors /\ row.count = NextCount /\ NextCount \in Nat
    BY <2>1, RecordedCount
  <2>3. DOMAIN debug' # {} /\ Latest(debug') = row
    BY <2>1, <2>2, InsertedRow DEF TypeInv, TablesInv
  <2> HIDE DEF row
  <2>4. Reached(debug)' = NextCount
    BY <2>2, <2>3 DEF Reached
  <2>5. CASE DOMAIN debug = {}
    <3>1. Reached(debug) = 0
      BY <2>5 DEF Reached
    <3>2. Meter!Resume
      BY <2>1, <2>2, <2>4, <3>1 DEF Meter!Resume
    <3> QED
      BY <3>2 DEF MeterStep, Meter!Next
  <2>6. CASE DOMAIN debug # {}
    <3>1. Reached(debug) = Latest(debug).count
      BY <2>6 DEF Reached
    <3>2. NextCount \in Reached(debug) .. (Reached(debug) + CycleUnits)
      BY <2>1, <2>2, <2>6, <3>1, RecordedCount, DesignsAssumption
    <3>3. Meter!Count
      BY <2>1, <2>4, <3>2 DEF Meter!Count
    <3> QED
      BY <3>3 DEF MeterStep, Meter!Next
  <2> QED
    BY <2>5, <2>6
<1>3. CASE \E kind : FailedTick(kind)
  BY <1>3, MeterStutter DEF FailedTick
<1>4. CASE Append /\ ~ FailedTick("history")
  BY <1>4, MeterStutter DEF Append
<1>5. CASE Wake \/ FindBoundary \/ SampleUnreadable \/ SampleAbsent \/ SamplePresent
  BY <1>3, <1>5, MeterStutter
     DEF Wake, FindBoundary, SampleUnreadable, SampleAbsent, SamplePresent
<1>6. CASE AdoptDebug \/ AdoptHistory \/ Alert \/ FindHistory
  BY <1>3, <1>6, MeterStutter
     DEF AdoptDebug, AdoptHistory, Adopt, Alert, FindHistory
<1> QED
  BY <1>1, <1>2, <1>3, <1>4, <1>5, <1>6 DEF Tick

LEMMA LifeImplementsMeter ==
    ASSUME Life
    PROVE  MeterStep
<1> USE DEF tables, synced
<1>1. CASE Start \/ Kill \/ IdleInterval
  BY <1>1, MeterStutter DEF Start, Kill, IdleInterval
<1>2. CASE Stop \/ Writeback \/ Reboot
  BY <1>2, MeterPersist DEF Stop, Writeback, Reboot, Checkpointed
<1>3. CASE PowerLoss
  <2>1. debug' = debugSynced /\ UNCHANGED debugSynced
    BY <1>3 DEF PowerLoss
  <2>2. Reached(debug)' = Reached(debugSynced)
    BY <2>1
  <2>3. Reached(debugSynced)' = Reached(debugSynced)
    BY <2>1
  <2>4. Meter!LosePower
    BY <2>2, <2>3 DEF Meter!LosePower
  <2> QED
    BY <2>4 DEF MeterStep, Meter!Next
<1> QED
  BY <1>1, <1>2, <1>3 DEF Life

\* The count of the flight recorder's newest row is a meter: every step counts
\* up, by at most one cycle, or makes a reading durable, or is a loss of power
\* that sets it back to the durable one.
THEOREM RecorderImplementsMeter ==
    ASSUME Undisturbed
    PROVE  Spec => ImplementsCycleMeter
<1>1. Init => Meter!Init
  BY MeterInit
<1>2. TypeInv /\ SeriesInv /\ [Next]_vars => [Meter!Next]_(Meter!vars)
  <2>1. UNCHANGED vars => MeterStep
    BY MeterStutter DEF vars, tables, synced
  <2>2. TypeInv /\ SeriesInv /\ Next => MeterStep
    BY TickImplementsMeter, LifeImplementsMeter, NoOneShot DEF Next
  <2> QED
    BY <2>1, <2>2 DEF MeterStep
<1> QED
  BY <1>1, <1>2, SeriesInvariant, PTL DEF Spec, ImplementsCycleMeter, Meter!Spec

-----------------------------------------------------------------------------
(***************************************************************************)
(* The prune.  Between its two statements the row it found stays one that  *)
(* RetentionRows rows reach back to: rows only come, until its DELETE.     *)
(***************************************************************************)
Reaching(table, id) == {other \in DOMAIN table : id <= other}

PruneInv ==
    /\ IsFiniteSet(DOMAIN debug) /\ IsFiniteSet(DOMAIN debugSynced)
    /\ pc = "trim" => Cardinality(Reaching(debug, boundary)) >= RetentionRows

LEMMA InitPruneInv == Init => PruneInv
  BY FS_EmptySet DEF Init, PruneInv, Empty

\* A step that changes no table, and does not arrive at the DELETE.
LEMMA QuietPrune ==
    ASSUME PruneInv, UNCHANGED debug, debugSynced' \in {debug, debugSynced},
           pc' # "trim" \/ UNCHANGED <<pc, boundary>>
    PROVE  PruneInv'
  BY DEF PruneInv, Reaching

\* An insert, whoever makes it.
LEMMA InsertPrune ==
    ASSUME TypeInv, PruneInv, NEW row, debug' = Inserted(debug, row), UNCHANGED debugSynced,
           pc' # "trim" \/ UNCHANGED <<pc, boundary>>
    PROVE  PruneInv'
<1>1. DOMAIN debug' = DOMAIN debug \cup {LastId(debug) + 1}
  BY DEF Inserted
<1>2. IsFiniteSet(DOMAIN debug')
  BY <1>1, FS_AddElement DEF PruneInv
<1>3. ASSUME pc' = "trim" PROVE Cardinality(Reaching(debug', boundary')) >= RetentionRows
  <2>1. boundary' = boundary /\ pc = "trim"
    BY <1>3
  <2>2. Reaching(debug, boundary) \in SUBSET Reaching(debug', boundary)
    BY <1>1 DEF Reaching
  <2>3. Reaching(debug', boundary) \in SUBSET DOMAIN debug'
    BY DEF Reaching
  <2>4. IsFiniteSet(Reaching(debug', boundary))
    BY <1>2, <2>3, FS_Subset
  <2>5. /\ IsFiniteSet(Reaching(debug, boundary))
        /\ Cardinality(Reaching(debug, boundary)) <= Cardinality(Reaching(debug', boundary))
    BY <2>2, <2>4, FS_Subset
  <2>6. /\ Cardinality(Reaching(debug, boundary)) \in Nat
        /\ Cardinality(Reaching(debug', boundary)) \in Nat
    BY <2>4, <2>5, FS_CardinalityType
  <2>7. Cardinality(Reaching(debug, boundary)) >= RetentionRows
    BY <2>1 DEF PruneInv
  <2> QED
    BY <2>1, <2>5, <2>6, <2>7, ScheduleAssumption
<1> QED
  BY <1>2, <1>3 DEF PruneInv

LEMMA FindBoundaryPrune ==
    ASSUME TypeInv, PruneInv, FindBoundary
    PROVE  PruneInv'
<1>1. UNCHANGED <<debug, debugSynced>>
  BY DEF FindBoundary, FailedTick, tables, synced
<1>2. CASE pc' # "trim"
  BY <1>1, <1>2, QuietPrune
<1>3. CASE pc' = "trim"
  <2>1. boundary' = Boundary(debug) /\ boundary' # None
    BY <1>3 DEF FindBoundary, FailedTick, EndTick
  <2> DEFINE nth == {id \in DOMAIN debug :
                       Cardinality({other \in DOMAIN debug : id <= other}) = RetentionRows}
  <2>2. boundary' \in nth
    BY <2>1 DEF Boundary
  <2>3. Cardinality(Reaching(debug, boundary')) = RetentionRows
    BY <2>2 DEF Reaching
  <2> QED
    BY <1>1, <2>3, ScheduleAssumption DEF PruneInv, Reaching
<1> QED
  BY <1>2, <1>3

LEMMA TrimPrune ==
    ASSUME TypeInv, PruneInv, Trim
    PROVE  PruneInv'
<1>1. CASE UNCHANGED debug
  BY <1>1, QuietPrune DEF Trim, FailedTick, EndTick, synced
<1>2. CASE debug' = TrimmedBelow(debug, boundary) /\ pc' = "sample" /\ UNCHANGED synced
  <2>1. DOMAIN debug' \in SUBSET DOMAIN debug
    BY <1>2 DEF TrimmedBelow
  <2>2. IsFiniteSet(DOMAIN debug')
    BY <2>1, FS_Subset DEF PruneInv
  <2> QED
    BY <1>2, <2>2 DEF PruneInv, synced
<1> QED
  BY <1>1, <1>2 DEF Trim, FailedTick, tables

LEMMA TickPruneInv ==
    ASSUME TypeInv, PruneInv, Tick
    PROVE  PruneInv'
<1> USE DEF tables, synced
<1>1. CASE Wake
  BY <1>1, QuietPrune DEF Wake
<1>2. CASE FindBoundary
  BY <1>2, FindBoundaryPrune
<1>3. CASE Trim
  BY <1>3, TrimPrune
<1>4. CASE SampleUnreadable \/ SampleAbsent
  BY <1>4, QuietPrune DEF SampleUnreadable, SampleAbsent, EndTick
<1>5. CASE SamplePresent
  BY <1>5, QuietPrune DEF SamplePresent
<1>6. CASE AdoptDebug \/ AdoptHistory
  BY <1>6, QuietPrune DEF AdoptDebug, AdoptHistory, Adopt, FailedTick, EndTick
<1>7. CASE Record
  <2>1. CASE FailedTick("debug")
    BY <2>1, QuietPrune DEF FailedTick, EndTick
  <2>2. CASE ~ FailedTick("debug")
    BY <1>7, <2>2, InsertPrune DEF Record
  <2> QED
    BY <2>1, <2>2
<1>8. CASE Alert
  BY <1>8, QuietPrune DEF Alert, Succeed, EndTick
<1>9. CASE FindHistory
  BY <1>9, QuietPrune DEF FindHistory, FailedTick, EndTick
<1>10. CASE Append
  BY <1>10, QuietPrune DEF Append, Succeed, FailedTick, EndTick
<1> QED
  BY <1>1, <1>2, <1>3, <1>4, <1>5, <1>6, <1>7, <1>8, <1>9, <1>10 DEF Tick

LEMMA LifePruneInv ==
    ASSUME TypeInv, PruneInv, Life
    PROVE  PruneInv'
<1> USE DEF tables, synced, daemon, local, Checkpointed
<1>1. CASE Start
  BY <1>1, QuietPrune DEF Start
<1>2. CASE Stop
  BY <1>2, QuietPrune DEF Stop
<1>3. CASE Kill
  BY <1>3, QuietPrune DEF Kill
<1>4. CASE IdleInterval
  BY <1>4, QuietPrune DEF IdleInterval
<1>5. CASE Writeback
  BY <1>5, QuietPrune DEF Writeback
<1>6. CASE Reboot
  BY <1>6, QuietPrune DEF Reboot, Off
<1>7. CASE PowerLoss
  BY <1>7 DEF PowerLoss, Off, PruneInv
<1> QED
  BY <1>1, <1>2, <1>3, <1>4, <1>5, <1>6, <1>7 DEF Life

LEMMA OneShotPruneInv ==
    ASSUME TypeInv, PruneInv, OneShot
    PROVE  PruneInv'
<1> USE DEF tables, synced, daemon, local, Checkpointed
<1>1. CASE ShotRecord
  BY <1>1, InsertPrune DEF ShotRecord
<1>2. CASE ShotSample \/ ShotFails \/ ShotCheckpoint \/ ShotAppend
  BY <1>2, QuietPrune DEF ShotSample, ShotFails, ShotCheckpoint, ShotAppend
<1>3. CASE \/ ShotFind(history, "findHistory", "appendHistory")
           \/ ShotFind(debug, "findDebug", "record")
  BY <1>3, QuietPrune DEF ShotFind
<1> QED
  BY <1>1, <1>2, <1>3 DEF OneShot

THEOREM PruneInvariant == Spec => []PruneInv
<1>1. Init => PruneInv
  BY InitPruneInv
<1>2. TypeInv /\ PruneInv /\ [Next]_vars => PruneInv'
  <2>1. PruneInv /\ UNCHANGED vars => PruneInv'
    BY DEF PruneInv, vars, tables, synced, daemon, local, Reaching
  <2> QED
    BY <2>1, TickPruneInv, LifePruneInv, OneShotPruneInv DEF Next
<1> QED
  BY <1>1, <1>2, TypeInvariant, PTL DEF Spec

\* The row a DELETE takes is older than the boundary, and so than RetentionRows
\* others.
LEMMA TrimKeepsNewest ==
    ASSUME TypeInv, PruneInv, Trim, NEW id \in DOMAIN debug \ DOMAIN debug'
    PROVE  Cardinality({i \in DOMAIN debug : i > id}) >= RetentionRows
<1> DEFINE newer == {i \in DOMAIN debug : i > id}
<1>1. debug' = TrimmedBelow(debug, boundary)
  BY DEF Trim, FailedTick, tables
<1>2. pc = "trim" /\ boundary \in DOMAIN debug /\ DOMAIN debug \subseteq Nat
  BY DEF Trim, TypeInv, LocalsInv, TablesInv, TableInv, IsTable
<1>3. id < boundary
  BY <1>1, <1>2 DEF TrimmedBelow
<1>4. Reaching(debug, boundary) \in SUBSET newer
  BY <1>2, <1>3 DEF Reaching
<1>5. newer \in SUBSET DOMAIN debug
  OBVIOUS
<1> HIDE DEF newer
<1>6. IsFiniteSet(newer)
  BY <1>5, FS_Subset DEF PruneInv
<1>7. /\ IsFiniteSet(Reaching(debug, boundary))
      /\ Cardinality(Reaching(debug, boundary)) <= Cardinality(newer)
  BY <1>4, <1>6, FS_Subset
<1>8. Cardinality(newer) \in Nat /\ Cardinality(Reaching(debug, boundary)) \in Nat
  BY <1>6, <1>7, FS_CardinalityType
<1>9. Cardinality(Reaching(debug, boundary)) >= RetentionRows
  BY <1>2 DEF PruneInv
<1>10. Cardinality(newer) >= RetentionRows
  BY <1>7, <1>8, <1>9, ScheduleAssumption
<1> QED
  BY <1>10 DEF newer

\* No row of the retention window is ever pruned, whatever fails, whoever dies
\* and whatever another process inserts between the two statements: only a loss
\* of power takes rows that RetentionRows newer ones do not follow.
THEOREM WindowKept == Spec => PruneKeepsNewest
<1> DEFINE Kept == \A id \in DOMAIN debug \ DOMAIN debug' :
                      \/ boot' # boot
                      \/ Cardinality({i \in DOMAIN debug : i > id}) >= RetentionRows
<1>1. ASSUME TypeInv, PruneInv, Next PROVE Kept
  <2> USE DEF tables, synced, daemon, local
  <2>1. CASE UNCHANGED debug
    BY <2>1
  <2>2. ASSUME NEW row, debug' = Inserted(debug, row) PROVE Kept
    BY <2>2 DEF Inserted
  <2>3. CASE Trim
    BY <1>1, <2>3, TrimKeepsNewest
  <2>4. CASE PowerLoss
    <3>1. boot \in Nat /\ boot' = boot + 1
      BY <1>1, <2>4 DEF PowerLoss, Off, TypeInv, WorldOK
    <3> QED
      BY <3>1
  <2> HIDE DEF Kept
  <2>5. CASE Record
    BY <2>1, <2>2, <2>5 DEF Record, FailedTick
  <2>6. CASE ShotRecord
    BY <2>2, <2>6 DEF ShotRecord
  <2>7. CASE Tick /\ ~ Trim /\ ~ Record
    BY <2>1, <2>7 DEF Tick, Wake, FindBoundary, SampleUnreadable, SampleAbsent,
          SamplePresent, AdoptDebug, AdoptHistory, Adopt, Alert, FindHistory, Append, FailedTick
  <2>8. CASE Life /\ ~ PowerLoss
    BY <2>1, <2>8 DEF Life, Start, Stop, Kill, IdleInterval, Writeback, Reboot
  <2>9. CASE OneShot /\ ~ ShotRecord
    BY <2>1, <2>9 DEF OneShot, ShotSample, ShotFind, ShotAppend, ShotCheckpoint, ShotFails
  <2> QED
    BY <1>1, <2>3, <2>4, <2>5, <2>6, <2>7, <2>8, <2>9 DEF Next
<1>2. UNCHANGED vars => UNCHANGED debug
  BY DEF vars, tables
<1>3. TypeInv /\ PruneInv /\ [Next]_vars => [Kept]_debug
  BY <1>1, <1>2
<1> QED
  BY <1>3, TypeInvariant, PruneInvariant, PTL DEF Spec, PruneKeepsNewest

-----------------------------------------------------------------------------
(***************************************************************************)
(* The announcements.  A latch that is not set has been released: the      *)
(* failures and the gaps in between leave it alone.                        *)
(***************************************************************************)
LatchInv ==
    /\ pc \in {"adoptDebug", "adoptHistory", "record", "alert"} => alarm \in Alarms
    /\ latched \/ rearmed

LEMMA LatchStep == TypeInv /\ LatchInv /\ [Next]_vars => LatchInv'
<1> SUFFICES ASSUME TypeInv, LatchInv, [Next]_vars PROVE LatchInv'
  OBVIOUS
<1> USE DEF LatchInv, local, oneShot
<1>1. CASE Wake \/ FindBoundary \/ Trim \/ SampleUnreadable \/ FindHistory
  BY <1>1 DEF Wake, FindBoundary, Trim, SampleUnreadable, FindHistory, FailedTick, EndTick
<1>2. CASE SampleAbsent \/ SamplePresent
  BY <1>2 DEF SampleAbsent, SamplePresent, EndTick
<1>3. CASE AdoptDebug \/ AdoptHistory
  BY <1>3 DEF AdoptDebug, AdoptHistory, Adopt, FailedTick, EndTick
<1>4. CASE Record
  BY <1>4 DEF Record, FailedTick, EndTick
<1>5. CASE Alert
  <2>1. alarm \in {"raised", "held", "clear"}
    BY <1>5, EnvironmentAssumption DEF Alert
  <2>2. pc' \in {"history", "asleep"}
    BY <1>5 DEF Alert, Succeed, EndTick
  <2>3. latched' \/ rearmed'
    <3>1. latched' <=> (alarm = "raised" \/ (latched /\ alarm = "held"))
      BY <1>5, Zenon DEF Alert
    <3>2. rearmed' <=> (~ Announces /\ (rearmed \/ alarm = "clear"))
      BY <1>5, Zenon DEF Alert
    <3> QED
      BY <2>1, <3>1, <3>2 DEF Announces
  <2> QED
    BY <2>2, <2>3
<1>6. CASE Append
  BY <1>6 DEF Append, Succeed, FailedTick, EndTick
<1>7. CASE Start \/ Stop \/ Kill \/ Reboot \/ PowerLoss
  BY <1>7 DEF Start, Stop, Kill, Reboot, PowerLoss, Off, Fresh
<1>8. CASE IdleInterval \/ Writeback \/ OneShot \/ UNCHANGED vars
  BY <1>8 DEF IdleInterval, Writeback, OneShot, ShotSample, ShotFind, ShotAppend, ShotRecord,
              ShotCheckpoint, ShotFails, daemon, vars
<1> QED
  BY <1>1, <1>2, <1>3, <1>4, <1>5, <1>6, <1>7, <1>8 DEF Next, Tick, Life

\* An announcement is only ever repeated after a recorded reading released it,
\* the pack was away, or the daemon was restarted, whatever fails and however
\* long the pack is unreadable.
THEOREM AnnouncementsReleased == Spec => []AnnouncedOnce
<1>1. Init => LatchInv
  BY DEF Init, LatchInv
<1>2. LatchInv => AnnouncedOnce
  BY DEF LatchInv, AnnouncedOnce, Announces
<1> QED
  BY <1>1, <1>2, LatchStep, TypeInvariant, PTL DEF Spec

-----------------------------------------------------------------------------
(***************************************************************************)
(* The wear.  That no count exceeds what really went through a load is not *)
(* inductive: the next tick may integrate from any row, so that every row  *)
(* has to be backed by the wear it says and what a discharge down to the   *)
(* present energy would add to it.                                         *)
(***************************************************************************)
OnePack == Events \cap {"swap", "drift", "oneshot"} = {}

\* a, at boot b, with e left in a pack of capacity d, after w units of wear.
Backed(a, b, e, d, w) ==
    /\ a.boot \in Nat /\ a.boot <= b
    /\ a.count <= w
    /\ a.boot = b /\ e < a.energy => a.count + Wear(a.energy - e, d) <= w

BackedRows(table, b, e, d, w) == \A id \in DOMAIN table : Backed(table[id], b, e, d, w)

WearTables ==
    /\ BackedRows(debug, boot, energy, design, drained)
    /\ BackedRows(history, boot, energy, design, drained)
    /\ BackedRows(debugSynced, boot, energy, design, drained)
    /\ BackedRows(historySynced, boot, energy, design, drained)

WearLocals ==
    /\ previous # None => Backed(previous, boot, energy, design, drained)
    /\ found # None => Backed(found, boot, energy, design, drained)
    /\ pc \in Sampled => sample \in Readings
    /\ pc \in Recorded => count <= drained

WearInv == seat = "present" /\ shotPc = "none" /\ WearTables /\ WearLocals

LEMMA InitWearInv == Init => WearInv
  BY DEF Init, WearInv, WearTables, WearLocals, BackedRows, Empty, Sampled, Recorded

LEMMA WearAdds ==
    ASSUME NEW d \in Designs, NEW x \in Nat, NEW y \in Nat
    PROVE  /\ Wear(x, d) \in Nat /\ Wear(y, d) \in Nat
           /\ Wear(x + y, d) = Wear(x, d) + Wear(y, d)
<1>1. CycleUnits \div d \in Nat
  BY WearOfDesign
<1>2. x * (CycleUnits \div d) \in Nat /\ y * (CycleUnits \div d) \in Nat
  BY <1>1, Scaling
<1>3. (x + y) * (CycleUnits \div d) = x * (CycleUnits \div d) + y * (CycleUnits \div d)
  BY <1>1
<1> QED
  BY <1>2, <1>3 DEF Wear

LEMMA Telescope ==
    ASSUME NEW x \in Nat, NEW y \in Nat, NEW z \in Nat
    PROVE  x - z = (x - y) + (y - z)
  OBVIOUS

\* More energy leaves less to integrate.
LEMMA WearRises ==
    ASSUME NEW d \in Designs, NEW x \in Nat, NEW y \in Nat, x <= y
    PROVE  Wear(x, d) \in Nat /\ Wear(y, d) \in Nat /\ Wear(x, d) <= Wear(y, d)
<1>1. y - x \in Nat /\ y = x + (y - x)
  OBVIOUS
<1>2. Wear(x, d) \in Nat /\ Wear(y - x, d) \in Nat /\ Wear(y, d) = Wear(x, d) + Wear(y - x, d)
  BY <1>1, WearAdds
<1> QED
  BY <1>2

\* What is backed stays backed, whatever the pack goes through.
Later ==
    \A a \in Anchors :
        Backed(a, boot, energy, design, drained) => Backed(a, boot', energy', design', drained')

LEMMA WearMonotone ==
    ASSUME WorldOK, Used
    PROVE  drained <= drained'
<1>1. CASE UNCHANGED drained
  BY <1>1 DEF WorldOK
<1>2. CASE energy' \in 0 .. energy /\ drained' = drained + Wear(energy - energy', design)
  <2>1. energy - energy' \in Nat
    <3>1. energy \in Nat /\ energy' \in Nat /\ energy' <= energy
      BY <1>2, EnvironmentAssumption DEF WorldOK
    <3> QED
      BY <3>1, Difference
  <2>2. Wear(energy - energy', design) \in Nat
    BY <2>1, WearBounds DEF WorldOK
  <2> QED
    BY <1>2, <2>2 DEF WorldOK
<1> QED
  BY <1>1, <1>2 DEF Used

LEMMA UsedBacks ==
    ASSUME WorldOK, WorldOK', Used, UNCHANGED boot, rail' = "Discharging" \/ ~ Drifts
    PROVE  Later
<1>1. design' = design
  BY DEF Used
<1> SUFFICES ASSUME NEW a \in Anchors, Backed(a, boot, energy, design, drained),
                    a.boot = boot, energy' < a.energy
             PROVE  a.count + Wear(a.energy - energy', design) <= drained'
  <2>1. drained <= drained' /\ drained \in Nat /\ drained' \in Nat
    BY WearMonotone DEF WorldOK
  <2> QED
    BY <1>1, <2>1 DEF Later, Backed, Anchors
<1>2. /\ a.energy \in Nat /\ a.count \in Nat /\ a.count <= drained
      /\ energy \in Nat /\ energy' \in Nat /\ design \in Designs
      /\ drained \in Nat /\ drained' \in Nat
      /\ energy < a.energy => a.count + Wear(a.energy - energy, design) <= drained
  BY EnvironmentAssumption DEF Anchors, Backed, WorldOK
<1>3. a.energy - energy' \in Nat /\ Wear(a.energy - energy', design) \in Nat
  <2>1. a.energy - energy' \in Nat
    BY <1>2
  <2> QED
    BY <1>2, <2>1, WearBounds
<1>4. CASE energy' \in 0 .. energy /\ drained' = drained + Wear(energy - energy', design)
  <2>1. energy' <= energy /\ energy - energy' \in Nat
    <3>1. energy' <= energy
      BY <1>2, <1>4
    <3> QED
      BY <1>2, <3>1, Difference
  <2>2. Wear(energy - energy', design) \in Nat
    BY <1>2, <2>1, WearBounds
  <2>3. CASE energy < a.energy
    <3> DEFINE before == a.energy - energy
               since == energy - energy'
    <3>1. before \in Nat /\ since \in Nat /\ a.energy - energy' = before + since
      <4>1. before \in Nat
        BY <1>2, <2>3, Difference
      <4>2. a.energy - energy' = before + since
        BY <1>2, Telescope
      <4> QED
        BY <2>1, <4>1, <4>2
    <3>2. /\ Wear(before, design) \in Nat
          /\ Wear(a.energy - energy', design) = Wear(before, design) + Wear(since, design)
      <4> HIDE DEF before, since
      <4>1. /\ Wear(before, design) \in Nat
            /\ Wear(before + since, design) = Wear(before, design) + Wear(since, design)
        BY <1>2, <3>1, WearAdds
      <4> QED
        BY <3>1, <4>1
    <3>3. a.count + Wear(a.energy - energy, design) <= drained
      BY <1>2, <2>3
    <3> QED
      BY <1>2, <1>4, <2>2, <3>2, <3>3
  <2>4. CASE ~ (energy < a.energy)
    <3>1. a.energy - energy' <= energy - energy'
      BY <1>2, <2>1, <2>4
    <3>2. Wear(a.energy - energy', design) <= Wear(energy - energy', design)
      BY <1>2, <1>3, <2>1, <3>1, WearRises
    <3> QED
      BY <1>2, <1>3, <1>4, <2>2, <3>2
  <2> QED
    BY <2>3, <2>4
<1>5. CASE energy <= energy' /\ UNCHANGED drained
  <2>1. energy < a.energy /\ a.energy - energy \in Nat
        /\ a.energy - energy' <= a.energy - energy
    BY <1>2, <1>5
  <2>2. /\ Wear(a.energy - energy, design) \in Nat
        /\ Wear(a.energy - energy', design) <= Wear(a.energy - energy, design)
    BY <1>2, <1>3, <2>1, WearRises
  <2>3. a.count + Wear(a.energy - energy, design) <= drained
    BY <1>2, <2>1
  <2> QED
    BY <1>2, <1>3, <1>5, <2>2, <2>3
<1>6. \/ energy' \in 0 .. energy /\ drained' = drained + Wear(energy - energy', design)
      \/ energy' >= energy /\ UNCHANGED drained
      \/ energy' = energy /\ UNCHANGED drained
  BY DEF Used
<1> QED
  BY <1>2, <1>4, <1>5, <1>6

LEMMA IntervalBacks ==
    ASSUME WorldOK, WorldOK', OnePack, seat = "present", Interval, UNCHANGED boot
    PROVE  Later /\ seat' = "present"
<1>1. Used /\ seat' = "present" /\ ~ Drifts
  BY DEF Interval, Removed, Seated, OnePack, Used, Drifts
<1> QED
  BY <1>1, UsedBacks

LEMMA OffBacks ==
    ASSUME WorldOK, boot' = boot + 1, UNCHANGED drained
    PROVE  Later
  BY DEF Later, Backed, WorldOK

LEMMA SameBacks ==
    ASSUME UNCHANGED world
    PROVE  Later
  BY DEF Later, world

LEMMA LaterRows ==
    ASSUME Later, NEW t, TableInv(t), BackedRows(t, boot, energy, design, drained)
    PROVE  BackedRows(t, boot', energy', design', drained')
  BY DEF Later, BackedRows, TableInv, IsTable

\* What a sample may be given: all it integrates went through a load.
LEMMA IntegratesBacked ==
    ASSUME WorldOK, NEW s \in Readings, NEW prev \in Anchors \cup {None},
           prev # None => Backed(prev, boot, energy, design, drained)
    PROVE  ComputeEstimatedCycles(s, prev) <= drained
<1>1. drained \in Nat /\ boot \in Nat
  BY DEF WorldOK
<1>2. CASE prev = None
  BY <1>1, <1>2, FirstCount
<1>3. CASE prev # None /\ ~ Integrable(s, prev)
  BY <1>3 DEF ComputeEstimatedCycles, Backed
<1>4. CASE prev # None /\ Integrable(s, prev)
  <2>1. s.energy = energy /\ s.boot = boot /\ s.design \in {design, 0}
    BY DEF Readings
  <2>2. prev.boot = boot /\ energy < prev.energy /\ s.design = design
    <3>1. prev.boot \in Nat
      BY <1>4 DEF Backed
    <3>2. prev.boot # None /\ s.boot # None
      BY <1>1, <2>1, <3>1, NoneAssumption
    <3> QED
      BY <1>4, <2>1, <3>2 DEF Integrable, CrossedBootBoundary
  <2>3. ComputeEstimatedCycles(s, prev) = prev.count + Wear(prev.energy - energy, design)
    BY <1>4, <2>1, <2>2 DEF ComputeEstimatedCycles
  <2> QED
    BY <1>4, <2>2, <2>3 DEF Backed
<1> QED
  BY <1>2, <1>3, <1>4

LEMMA RowBacked ==
    ASSUME WorldOK, NEW s \in Readings, NEW c \in Nat, c <= drained
    PROVE  Backed(Anchor(s, c), boot, energy, design, drained)
<1>1. s.energy = energy /\ s.boot = boot
  BY DEF Readings
<1>2. energy \in Nat /\ boot \in Nat
  BY EnvironmentAssumption DEF WorldOK
<1> QED
  BY <1>1, <1>2 DEF Backed, Anchor

LEMMA InsertedBacked ==
    ASSUME NEW t, NEW row, NEW b, NEW e, NEW d, NEW w,
           BackedRows(t, b, e, d, w), Backed(row, b, e, d, w)
    PROVE  BackedRows(Inserted(t, row), b, e, d, w)
  BY DEF BackedRows, Inserted

LEMMA LatestBacked ==
    ASSUME NEW t, TableInv(t), NEW b, NEW e, NEW d, NEW w, BackedRows(t, b, e, d, w)
    PROVE  Latest(t) # None => Backed(Latest(t), b, e, d, w)
  BY LatestType, LatestRow DEF BackedRows

\* A step that leaves the tables alone, and samples nothing.
LEMMA QuietWear ==
    ASSUME TypeInv, WearInv, Later, seat' = "present", UNCHANGED <<tables, synced, shotPc>>,
           previous' \in {previous, None}, found' \in {found, None},
           \/ pc' \notin Sampled
           \/ UNCHANGED <<world, sample>> /\ pc \in Sampled /\ pc' \notin Recorded
    PROVE  WearInv'
<1>1. WearTables'
  BY LaterRows DEF WearInv, WearTables, TypeInv, TablesInv, tables, synced
<1>2. /\ previous' # None => Backed(previous', boot', energy', design', drained')
      /\ found' # None => Backed(found', boot', energy', design', drained')
  BY DEF Later, TypeInv, DaemonOK, WearInv, WearLocals
<1>3. pc' \in Sampled => sample' \in Readings'
  BY DEF WearInv, WearLocals, Readings, world
<1>4. pc' \in Recorded => count' <= drained'
  BY DEF Recorded, Sampled
<1> QED
  BY <1>1, <1>2, <1>3, <1>4 DEF WearInv, WearLocals

LEMMA FailedTickWear ==
    ASSUME TypeInv, WearInv, NEW kind, FailedTick(kind)
    PROVE  WearInv'
<1>1. Later /\ UNCHANGED <<tables, synced, shotPc, previous, seat>> /\ found' = None
      /\ pc' = "asleep"
  BY SameBacks DEF FailedTick, EndTick, oneShot, world
<1> QED
  BY <1>1, QuietWear DEF WearInv, Sampled

LEMMA TrimWear ==
    ASSUME TypeInv, WearInv, Trim
    PROVE  WearInv'
<1>1. CASE FailedTick("prune")
  BY <1>1, FailedTickWear
<1>2. CASE ~ FailedTick("prune")
  <2>1. debug' = TrimmedBelow(debug, boundary) /\ boundary \in DOMAIN debug
    BY <1>2 DEF Trim, TypeInv, LocalsInv
  <2>2. /\ DOMAIN debug' \subseteq DOMAIN debug
        /\ \A id \in DOMAIN debug' : debug'[id] = debug[id]
    BY <2>1 DEF TrimmedBelow
  <2>3. BackedRows(debug', boot, energy, design, drained)
    BY <2>2 DEF WearInv, WearTables, BackedRows
  <2>4. /\ UNCHANGED <<world, history, synced, previous, found, shotPc>>
        /\ pc' = "sample"
    BY <1>2 DEF Trim, oneShot
  <2> QED
    BY <2>3, <2>4 DEF WearInv, WearTables, WearLocals, world, synced, Sampled, Recorded
<1> QED
  BY <1>1, <1>2

LEMMA AdoptWear ==
    ASSUME TypeInv, WearInv, AdoptDebug \/ AdoptHistory
    PROVE  WearInv'
<1>1. CASE FailedTick("adopt")
  BY <1>1, FailedTickWear
<1>2. CASE ~ FailedTick("adopt")
  <2>1. previous' # None => Backed(previous', boot, energy, design, drained)
    BY <1>2, LatestBacked
       DEF AdoptDebug, AdoptHistory, Adopt, WearInv, WearTables, TypeInv, TablesInv
  <2>2. /\ UNCHANGED <<world, tables, synced, found, sample, shotPc>>
        /\ pc \in Sampled /\ pc' \notin Recorded
    BY <1>2 DEF AdoptDebug, AdoptHistory, Adopt, local, oneShot, Sampled, Recorded
  <2> QED
    BY <2>1, <2>2 DEF WearInv, WearTables, WearLocals, world, tables, synced, Readings
<1> QED
  BY <1>1, <1>2

LEMMA RecordWear ==
    ASSUME TypeInv, WearInv, Record
    PROVE  WearInv'
<1>1. CASE FailedTick("debug")
  BY <1>1, FailedTickWear
<1>2. CASE ~ FailedTick("debug")
  <2>1. sample \in Readings /\ sample \in Samples /\ previous \in Anchors \cup {None}
        /\ (previous # None => Backed(previous, boot, energy, design, drained))
    BY DEF Record, WearInv, WearLocals, Sampled, TypeInv, LocalsInv, DaemonOK
  <2>2. WorldOK
    BY DEF TypeInv
  <2>3. ComputeEstimatedCycles(sample, previous) <= drained
    BY <2>1, <2>2, IntegratesBacked
  <2>4. CarriedCount \in Nat /\ CarriedCount <= drained
    BY <2>1, <2>2 DEF CarriedCount, Backed, Anchors, WorldOK
  <2>5. NextCount \in Nat /\ NextCount <= drained
    BY <2>1, <2>3, <2>4, CountType DEF NextCount
  <2>6. Backed(Anchor(sample, NextCount), boot, energy, design, drained)
    BY <2>1, <2>2, <2>5, RowBacked
  <2>7. /\ debug' = Inserted(debug, Anchor(sample, NextCount)) /\ count' = NextCount
        /\ UNCHANGED <<world, history, synced, previous, found, sample, shotPc>>
    BY <1>2 DEF Record, oneShot
  <2>8. BackedRows(debug', boot, energy, design, drained)
    BY <2>6, <2>7, InsertedBacked DEF WearInv, WearTables
  <2> QED
    BY <2>1, <2>5, <2>7, <2>8 DEF WearInv, WearTables, WearLocals, world, synced, Readings
<1> QED
  BY <1>1, <1>2

\* The end of a tick that recorded its sample.
LEMMA SucceedWear ==
    ASSUME TypeInv, WearInv, pc \in Recorded, Succeed,
           UNCHANGED <<world, debug, synced, shotPc>>,
           BackedRows(history', boot, energy, design, drained)
    PROVE  WearInv'
<1>1. sample \in Readings /\ count \in Nat /\ count <= drained
  BY DEF WearInv, WearLocals, TypeInv, LocalsInv, Recorded, Sampled
<1>2. Backed(Anchor(sample, count), boot, energy, design, drained)
  BY <1>1, RowBacked DEF TypeInv
<1>3. previous' = Anchor(sample, count) /\ found' = None /\ pc' = "asleep"
  BY DEF Succeed, EndTick
<1> QED
  BY <1>2, <1>3 DEF WearInv, WearTables, WearLocals, world, synced, Sampled, Recorded

LEMMA AlertWear ==
    ASSUME TypeInv, WearInv, Alert
    PROVE  WearInv'
<1>1. CASE IsDue(HistoryInterval)
  BY <1>1 DEF Alert, WearInv, WearTables, WearLocals, world, tables, synced, local, oneShot,
              Readings, Sampled, Recorded
<1>2. CASE ~ IsDue(HistoryInterval)
  BY <1>2, SucceedWear DEF Alert, WearInv, WearTables, Recorded, tables, oneShot
<1> QED
  BY <1>1, <1>2

LEMMA FindHistoryWear ==
    ASSUME TypeInv, WearInv, FindHistory
    PROVE  WearInv'
<1>1. CASE FailedTick("history")
  BY <1>1, FailedTickWear
<1>2. CASE ~ FailedTick("history")
  <2>1. found' # None => Backed(found', boot, energy, design, drained)
    BY <1>2, LatestBacked DEF FindHistory, WearInv, WearTables, TypeInv, TablesInv
  <2>2. /\ UNCHANGED <<world, tables, synced, previous, count, sample, shotPc>>
        /\ pc \in Recorded /\ pc \in Sampled
    BY <1>2 DEF FindHistory, oneShot, Sampled, Recorded
  <2> QED
    BY <2>1, <2>2 DEF WearInv, WearTables, WearLocals, world, tables, synced, Readings
<1> QED
  BY <1>1, <1>2

LEMMA AppendWear ==
    ASSUME TypeInv, WearInv, Append
    PROVE  WearInv'
<1>1. CASE FailedTick("history")
  BY <1>1, FailedTickWear
<1>2. CASE ~ FailedTick("history")
  <2> DEFINE next == ComputeEstimatedCycles(sample, found)
  <2>1. sample \in Readings /\ sample \in Samples /\ found \in Anchors \cup {None}
        /\ (found # None => Backed(found, boot, energy, design, drained))
    BY DEF Append, WearInv, WearLocals, Sampled, TypeInv, LocalsInv, DaemonOK
  <2>2. next \in Nat /\ next <= drained
    BY <2>1, CountType, IntegratesBacked DEF TypeInv
  <2>3. Backed(Anchor(sample, next), boot, energy, design, drained)
    BY <2>1, <2>2, RowBacked DEF TypeInv
  <2>4. history' = Inserted(history, Anchor(sample, next))
    BY <1>2 DEF Append
  <2>5. BackedRows(history', boot, energy, design, drained)
    BY <2>3, <2>4, InsertedBacked DEF WearInv, WearTables
  <2>6. Succeed /\ UNCHANGED <<world, debug, synced, shotPc>> /\ pc \in Recorded
    BY <1>2 DEF Append, oneShot, Recorded
  <2> QED
    BY <2>5, <2>6, SucceedWear
<1> QED
  BY <1>1, <1>2

LEMMA TickWearInv ==
    ASSUME TypeInv, TypeInv', WearInv, OnePack, Tick
    PROVE  WearInv'
<1> USE DEF tables, synced, oneShot, local
<1>1. CASE Wake
  <2>1. Later /\ seat' = "present"
    BY <1>1, IntervalBacks DEF Wake, TypeInv, WearInv
  <2> QED
    BY <1>1, <2>1, QuietWear DEF Wake, Sampled
<1>2. CASE FindBoundary
  <2>1. CASE FailedTick("prune")
    BY <2>1, FailedTickWear
  <2>2. CASE ~ FailedTick("prune")
    BY <1>2, <2>2, SameBacks, QuietWear DEF FindBoundary, WearInv, world, Sampled
  <2> QED
    BY <2>1, <2>2
<1>3. CASE Trim
  BY <1>3, TrimWear
<1>4. CASE SampleUnreadable \/ SampleAbsent
  BY <1>4, SameBacks, QuietWear
     DEF SampleUnreadable, SampleAbsent, EndTick, WearInv, world, Sampled
<1>5. CASE SamplePresent
  BY <1>5 DEF SamplePresent, WearInv, WearTables, WearLocals, world, Readings, Recorded
<1>6. CASE AdoptDebug \/ AdoptHistory
  BY <1>6, AdoptWear
<1>7. CASE Record
  BY <1>7, RecordWear
<1>8. CASE Alert
  BY <1>8, AlertWear
<1>9. CASE FindHistory
  BY <1>9, FindHistoryWear
<1>10. CASE Append
  BY <1>10, AppendWear
<1> QED
  BY <1>1, <1>2, <1>3, <1>4, <1>5, <1>6, <1>7, <1>8, <1>9, <1>10 DEF Tick

LEMMA LifeWearInv ==
    ASSUME TypeInv, TypeInv', WearInv, OnePack, Life
    PROVE  WearInv'
<1> USE DEF tables, synced, oneShot, daemon, local
<1>1. CASE Start
  BY <1>1, SameBacks, QuietWear DEF Start, WearInv, world, Sampled
<1>2. CASE Kill
  BY <1>2, SameBacks, QuietWear DEF Kill, Fresh, WearInv, world, Sampled
<1>3. CASE IdleInterval
  <2>1. Later /\ seat' = "present"
    BY <1>3, IntervalBacks DEF IdleInterval, TypeInv, WearInv
  <2> QED
    BY <1>3, <2>1, QuietWear DEF IdleInterval, Sampled
<1>4. CASE Stop
  BY <1>4 DEF Stop, Fresh, Checkpointed, WearInv, WearTables, WearLocals, world, Sampled, Recorded
<1>5. CASE Writeback
  BY <1>5 DEF Writeback, WearInv, WearTables, WearLocals, world, Readings
<1>6. ASSUME Off,
             /\ debug' \in {debug, debugSynced} /\ history' \in {history, historySynced}
             /\ debugSynced' \in {debug, debugSynced}
             /\ historySynced' \in {history, historySynced}
      PROVE  WearInv'
  <2>1. Later
    BY <1>6, OffBacks DEF Off, TypeInv
  <2>2. \A t \in {debug, history, debugSynced, historySynced} :
           BackedRows(t, boot', energy', design', drained')
    BY <2>1, LaterRows DEF WearInv, WearTables, TypeInv, TablesInv
  <2>3. WearTables'
    BY <1>6, <2>2 DEF WearTables
  <2> QED
    BY <1>6, <2>3 DEF Off, Fresh, WearInv, WearLocals, Sampled, Recorded
<1>7. CASE Reboot
  BY <1>6, <1>7 DEF Reboot, Checkpointed
<1>8. CASE PowerLoss
  BY <1>6, <1>8 DEF PowerLoss
<1> QED
  BY <1>1, <1>2, <1>3, <1>4, <1>5, <1>7, <1>8 DEF Life

LEMMA WearInvariant ==
    ASSUME OnePack
    PROVE  Spec => []WearInv
<1>1. Init => WearInv
  BY InitWearInv
<1>2. OneShot => ~ WearInv
  BY DEF OneShot, ShotSample, ShotFind, ShotAppend, ShotRecord, ShotCheckpoint, ShotFails,
                 WearInv, OnePack
<1>3. WearInv /\ UNCHANGED vars => WearInv'
  BY DEF vars, WearInv, WearTables, WearLocals, world, tables, synced, daemon, local, oneShot,
         Readings
<1>4. TypeInv /\ TypeInv' /\ WearInv /\ [Next]_vars => WearInv'
  BY <1>2, <1>3, TickWearInv, LifeWearInv DEF Next
<1> QED
  BY <1>1, <1>4, TypeInvariant, PTL DEF Spec

\* While one pack stays in its seat and no one-shot runs, no row of the flight
\* recorder shows wear that did not go through a load, whatever fails, dies, is
\* lost with the power or cannot be read, and however the machine is rebooted.
THEOREM WearIsReal ==
    ASSUME OnePack
    PROVE  Spec => []NoPhantomWear
<1>1. WearInv => NoPhantomWear
  BY DEF WearInv, WearTables, BackedRows, Backed, NoPhantomWear
<1> QED
  BY <1>1, WearInvariant, PTL

\* The same of the permanent history.
THEOREM HistoryWearIsReal ==
    ASSUME OnePack
    PROVE  Spec => []HistoryNoPhantomWear
<1>1. WearInv => HistoryNoPhantomWear
  BY DEF WearInv, WearTables, BackedRows, Backed, HistoryNoPhantomWear
<1> QED
  BY <1>1, WearInvariant, PTL

-----------------------------------------------------------------------------
(***************************************************************************)
(* The wear across packs.  A row of a pack that was taken out is backed by *)
(* nothing, nor is one after a drift on the charger.  What matters is the  *)
(* newest row, and only while a tick could integrate from it: the pack is  *)
(* in its seat, no absence is remembered, and it is not on the charger.    *)
(***************************************************************************)
Swapping ==
    /\ Faults = {}
    /\ Events \cap {"unreadable", "kill", "powerloss", "oneshot"} = {}

Exposed ==
    /\ ~ batteryWasAbsent /\ seat = "present"
    /\ pc \in {"down", "asleep"} \cup Recorded \/ rail = "Discharging"

\* Where the pack is, and what the daemon knows of it.
SwapPlace ==
    /\ shotPc = "none" /\ readable = TRUE
    /\ seat = "absent" => batteryWasAbsent \/ pc \in {"prune", "trim", "sample"}
    /\ pc = "down" => ~ batteryWasAbsent
    /\ pc \in Sampled => sample \in Readings /\ seat = "present"

\* What is integrated from is the newest row.
SwapRows ==
    /\ \A id \in DOMAIN debug : debug[id].count <= drained
    /\ DOMAIN debug = {} => DOMAIN history = {}
    /\ pc \in Recorded => DOMAIN debug # {} /\ Latest(debug) = Anchor(sample, count)
    /\ pc \notin Recorded /\ previous # None
          => DOMAIN debug # {} /\ previous = Latest(debug)
    /\ pc = "adoptHistory" => DOMAIN debug = {}
    /\ pc = "record" /\ previous = None => DOMAIN debug = {}

SwapBacked ==
    Exposed /\ DOMAIN debug # {} => Backed(Latest(debug), boot, energy, design, drained)

SwapInv == SwapPlace /\ SwapRows /\ SwapBacked

LEMMA InitSwapInv == Init => SwapInv
  BY DEF Init, SwapInv, SwapPlace, SwapRows, SwapBacked, Empty, Sampled, Recorded

\* A step that leaves the rows alone, records nothing and exposes nothing that
\* was not exposed, but what stays backed.
LEMMA QuietSwap ==
    ASSUME TypeInv, SwapInv, SwapPlace', UNCHANGED tables, drained <= drained', drained' \in Nat,
           pc \notin Recorded, pc' \notin Recorded,
           previous' \in {previous, None},
           pc' = "adoptHistory" => DOMAIN debug = {},
           pc' = "record" /\ previous' = None => DOMAIN debug = {},
           Exposed' => Exposed /\ Later
    PROVE  SwapInv'
<1>1. SwapRows'
  <2>1. ASSUME NEW id \in DOMAIN debug PROVE debug[id].count <= drained'
    <3>1. debug[id].count \in Nat /\ drained \in Nat /\ debug[id].count <= drained
      BY <2>1 DEF TypeInv, TablesInv, TableInv, IsTable, Anchors, WorldOK, SwapInv, SwapRows
    <3> QED
      BY <3>1
  <2> QED
    BY <2>1 DEF SwapInv, SwapRows, tables
<1>2. SwapBacked'
  <2>1. DOMAIN debug # {} => Latest(debug) \in Anchors
    BY LatestRow DEF TypeInv, TablesInv
  <2> QED
    BY <2>1 DEF SwapInv, SwapBacked, Later, tables
<1> QED
  BY <1>1, <1>2 DEF SwapInv

LEMMA NoFault ==
    ASSUME Swapping, NEW kind
    PROVE  ~ FailedTick(kind)
  BY DEF Swapping, FailedTick

LEMMA WakeSwap ==
    ASSUME TypeInv, TypeInv', SwapInv, Swapping, Wake
    PROVE  SwapInv'
<1>1. /\ pc = "asleep" /\ pc' \in {"prune", "sample"} /\ Interval
      /\ UNCHANGED <<boot, tables, previous, batteryWasAbsent, shotPc>>
  BY DEF Wake, oneShot
<1>2. WorldOK /\ WorldOK' /\ drained \in Nat /\ drained' \in Nat
  BY DEF TypeInv, WorldOK
<1>3. readable' = TRUE
  BY <1>1 DEF Interval, Used, Removed, Seated, Swapping
<1>4. SwapPlace'
  BY <1>1, <1>3 DEF SwapInv, SwapPlace, Sampled
<1>5. drained <= drained'
  <2>1. CASE Used
    BY <1>2, <2>1, WearMonotone
  <2>2. CASE Removed \/ Seated
    BY <1>2, <2>2 DEF Removed, Seated
  <2> QED
    BY <1>1, <2>1, <2>2 DEF Interval
<1>6. Exposed' => Exposed /\ Later
  <2>1. CASE Used
    BY <1>1, <1>2, <2>1, UsedBacks DEF Exposed, Used, Recorded
  <2>2. CASE Removed
    BY <2>2 DEF Removed, Exposed
  <2>3. CASE Seated
    BY <1>1, <2>3 DEF Seated, Exposed, SwapInv, SwapPlace
  <2> QED
    BY <1>1, <2>1, <2>2, <2>3 DEF Interval
<1> QED
  BY <1>1, <1>2, <1>4, <1>5, <1>6, QuietSwap DEF Recorded

LEMMA TrimSwap ==
    ASSUME TypeInv, SwapInv, Swapping, Trim
    PROVE  SwapInv'
<1>1. /\ debug' = TrimmedBelow(debug, boundary) /\ pc = "trim" /\ pc' = "sample"
      /\ UNCHANGED <<world, history, previous, batteryWasAbsent, shotPc>>
  BY NoFault DEF Trim, oneShot
<1>2. TableInv(debug) /\ boundary \in DOMAIN debug
  BY <1>1 DEF TypeInv, LocalsInv, TablesInv
<1>3. /\ DOMAIN debug' \subseteq DOMAIN debug /\ DOMAIN debug' # {}
      /\ Latest(debug') = Latest(debug)
      /\ \A i \in DOMAIN debug' : debug'[i] = debug[i]
  BY <1>1, <1>2, TrimmedRow
<1> QED
  BY <1>1, <1>2, <1>3
     DEF SwapInv, SwapPlace, SwapRows, SwapBacked, Exposed, world, Sampled, Recorded

LEMMA AdoptSwap ==
    ASSUME TypeInv, SwapInv, Swapping, AdoptDebug \/ AdoptHistory
    PROVE  SwapInv'
<1>1. /\ UNCHANGED <<world, tables, sample, batteryWasAbsent, shotPc>>
      /\ pc \in {"adoptDebug", "adoptHistory"} /\ pc' \in {"adoptHistory", "record"}
  BY NoFault DEF AdoptDebug, AdoptHistory, Adopt, local, oneShot
<1>2. TableInv(debug) /\ TableInv(history)
  BY DEF TypeInv, TablesInv
<1>3. /\ previous' # None => DOMAIN debug # {} /\ previous' = Latest(debug)
      /\ pc' = "adoptHistory" => DOMAIN debug = {}
      /\ previous' = None => DOMAIN debug = {}
  <2>1. CASE AdoptDebug
    BY <1>2, <2>1, LatestType, NoFault DEF AdoptDebug, Adopt
  <2>2. CASE AdoptHistory
    <3>1. DOMAIN debug = {} /\ DOMAIN history = {}
      BY <2>2 DEF AdoptHistory, SwapInv, SwapRows
    <3>2. previous' = None /\ pc' = "record"
      BY <1>2, <2>2, <3>1, LatestType, NoFault DEF AdoptHistory, Adopt
    <3> QED
      BY <3>1, <3>2
  <2> QED
    BY <2>1, <2>2
<1> QED
  BY <1>1, <1>3
     DEF SwapInv, SwapPlace, SwapRows, SwapBacked, Exposed, world, tables, Sampled, Recorded,
         Readings

LEMMA RecordSwap ==
    ASSUME TypeInv, SwapInv, Swapping, Record
    PROVE  SwapInv'
<1>1. /\ pc = "record" /\ pc' = "alert" /\ batteryWasAbsent' = FALSE /\ count' = NextCount
      /\ debug' = Inserted(debug, Anchor(sample, NextCount))
      /\ UNCHANGED <<world, history, sample, shotPc>>
  BY NoFault DEF Record, oneShot
<1>2. /\ sample \in Readings /\ seat = "present" /\ sample \in Samples
      /\ previous \in Anchors \cup {None} /\ WorldOK /\ drained \in Nat
  BY <1>1 DEF SwapInv, SwapPlace, Sampled, TypeInv, LocalsInv, DaemonOK, WorldOK
<1>3. previous # None => previous.count \in Nat /\ previous.count <= drained
  <2>1. DOMAIN debug # {} => LastId(debug) \in DOMAIN debug /\ Latest(debug) = debug[LastId(debug)]
    BY LatestRow DEF TypeInv, TablesInv
  <2> QED
    BY <1>1, <1>2, <2>1 DEF SwapInv, SwapRows, Recorded, Anchors
<1>4. CarriedCount \in Nat /\ CarriedCount <= drained
  BY <1>2, <1>3 DEF CarriedCount
<1>5. ~ batteryWasAbsent => ComputeEstimatedCycles(sample, previous) <= drained
  <2>1. CASE previous = None \/ ~ Integrable(sample, previous)
    BY <1>2, <1>3, <2>1 DEF ComputeEstimatedCycles
  <2>2. CASE previous # None /\ Integrable(sample, previous) /\ ~ batteryWasAbsent
    <3>1. rail = "Discharging"
      BY <1>2, <2>2 DEF Integrable, Readings
    <3>2. Backed(previous, boot, energy, design, drained)
      BY <1>1, <1>2, <2>2, <3>1 DEF SwapInv, SwapRows, SwapBacked, Exposed, Recorded
    <3> QED
      BY <1>2, <3>2, IntegratesBacked
  <2> QED
    BY <2>1, <2>2
<1>6. NextCount \in Nat /\ NextCount <= drained
  BY <1>2, <1>4, <1>5, CountType DEF NextCount
<1> DEFINE row == Anchor(sample, NextCount)
<1>7. row \in Anchors /\ row.count = NextCount
  BY <1>2, <1>6, AnchorType
<1>8. Backed(row, boot, energy, design, drained)
  BY <1>2, <1>6, RowBacked
<1>9. DOMAIN debug' # {} /\ Latest(debug') = row
  BY <1>1, <1>7, InsertedRow DEF TypeInv, TablesInv
<1>10. \A id \in DOMAIN debug' : debug'[id].count <= drained
  BY <1>1, <1>6, <1>7 DEF Inserted, SwapInv, SwapRows
<1>11. SwapPlace'
  BY <1>1, <1>2 DEF SwapInv, SwapPlace, world, Readings
<1>12. SwapRows'
  BY <1>1, <1>9, <1>10 DEF SwapRows, world, Recorded
<1>13. SwapBacked'
  BY <1>1, <1>8, <1>9 DEF SwapBacked, world
<1> QED
  BY <1>11, <1>12, <1>13 DEF SwapInv

\* The steps after it: the newest row is the one just recorded.
LEMMA RecordedSwap ==
    ASSUME TypeInv, SwapInv, pc \in Recorded, UNCHANGED <<world, debug, batteryWasAbsent, shotPc>>,
           \/ pc' \in Recorded /\ UNCHANGED <<sample, count>>
           \/ pc' = "asleep" /\ previous' = Anchor(sample, count)
    PROVE  SwapInv'
<1>1. DOMAIN debug # {} /\ Latest(debug) = Anchor(sample, count)
      /\ sample \in Readings /\ seat = "present"
  BY DEF SwapInv, SwapPlace, SwapRows, Sampled, Recorded
<1> QED
  BY <1>1 DEF SwapInv, SwapPlace, SwapRows, SwapBacked, Exposed, world, Sampled, Recorded, Readings

LEMMA TickSwapInv ==
    ASSUME TypeInv, TypeInv', SwapInv, Swapping, Tick
    PROVE  SwapInv'
<1> USE NoFault DEF oneShot, local
<1>1. CASE Wake
  BY <1>1, WakeSwap
<1>2. CASE FindBoundary
  <2>1. /\ pc = "prune" /\ pc' \in {"sample", "trim"}
        /\ UNCHANGED <<world, tables, previous, batteryWasAbsent, shotPc>>
    BY <1>2 DEF FindBoundary
  <2>2. SwapPlace'
    BY <2>1 DEF SwapInv, SwapPlace, world, Sampled
  <2>3. Exposed' => Exposed /\ Later
    BY <2>1, SameBacks DEF Exposed, world, Recorded
  <2>4. drained <= drained' /\ drained' \in Nat
    BY <2>1 DEF world, TypeInv, WorldOK
  <2> QED
    BY <2>1, <2>2, <2>3, <2>4, QuietSwap DEF Recorded
<1>3. CASE Trim
  BY <1>3, TrimSwap
<1>4. CASE SampleUnreadable
  BY <1>4 DEF SampleUnreadable, SwapInv, SwapPlace
<1>5. CASE SampleAbsent
  <2>1. /\ pc = "sample" /\ pc' = "asleep" /\ batteryWasAbsent' = TRUE
        /\ UNCHANGED <<world, tables, previous, shotPc>>
    BY <1>5 DEF SampleAbsent, EndTick
  <2>2. SwapPlace' /\ ~ Exposed'
    BY <2>1 DEF SwapInv, SwapPlace, Exposed, world, Sampled
  <2>3. drained <= drained' /\ drained' \in Nat
    BY <2>1 DEF world, TypeInv, WorldOK
  <2> QED
    BY <2>1, <2>2, <2>3, QuietSwap DEF Recorded
<1>6. CASE SamplePresent
  <2>1. /\ pc = "sample" /\ pc' = (IF previous = None THEN "adoptDebug" ELSE "record")
        /\ sample' \in Readings /\ seat = "present"
        /\ UNCHANGED <<world, tables, previous, batteryWasAbsent, shotPc>>
    BY <1>6 DEF SamplePresent
  <2>2. SwapPlace'
    BY <2>1 DEF SwapInv, SwapPlace, world, Readings
  <2>3. Exposed' => Exposed /\ Later
    BY <2>1, SameBacks DEF Exposed, world, Recorded
  <2>4. drained <= drained' /\ drained' \in Nat
    BY <2>1 DEF world, TypeInv, WorldOK
  <2> QED
    BY <2>1, <2>2, <2>3, <2>4, QuietSwap DEF Recorded
<1>7. CASE AdoptDebug \/ AdoptHistory
  BY <1>7, AdoptSwap
<1>8. CASE Record
  BY <1>8, RecordSwap
<1>9. CASE Alert
  <2>1. /\ pc = "alert" /\ UNCHANGED <<world, debug, batteryWasAbsent, shotPc>>
        /\ \/ pc' = "history" /\ UNCHANGED <<sample, count>>
           \/ pc' = "asleep" /\ previous' = Anchor(sample, count)
        /\ UNCHANGED history
    BY <1>9 DEF Alert, Succeed, EndTick, tables
  <2> QED
    BY <2>1, RecordedSwap DEF Recorded
<1>10. CASE FindHistory
  <2>1. /\ pc = "history" /\ pc' = "append"
        /\ UNCHANGED <<world, debug, batteryWasAbsent, shotPc, sample, count>>
    BY <1>10 DEF FindHistory, tables
  <2> QED
    BY <2>1, RecordedSwap DEF Recorded
<1>11. CASE Append
  <2>1. /\ pc = "append" /\ pc' = "asleep" /\ previous' = Anchor(sample, count)
        /\ UNCHANGED <<world, debug, batteryWasAbsent, shotPc>>
    BY <1>11 DEF Append, Succeed, EndTick
  <2> QED
    BY <2>1, RecordedSwap DEF Recorded
<1> QED
  BY <1>1, <1>2, <1>3, <1>4, <1>5, <1>6, <1>7, <1>8, <1>9, <1>10, <1>11 DEF Tick

LEMMA LifeSwapInv ==
    ASSUME TypeInv, TypeInv', SwapInv, Swapping, Life
    PROVE  SwapInv'
<1> USE DEF oneShot, local
<1>1. drained \in Nat /\ drained' \in Nat
  BY DEF TypeInv, WorldOK
<1>2. CASE Start
  <2>1. /\ pc = "down" /\ pc' = "asleep"
        /\ UNCHANGED <<world, tables, previous, batteryWasAbsent, shotPc>>
    BY <1>2 DEF Start
  <2>2. SwapPlace' /\ (Exposed' => Exposed /\ Later)
    BY <2>1, SameBacks DEF SwapInv, SwapPlace, Exposed, world, Sampled, Recorded
  <2>3. drained <= drained'
    BY <1>1, <2>1 DEF world
  <2> QED
    BY <1>1, <2>1, <2>2, <2>3, QuietSwap DEF Recorded
<1>3. CASE Stop
  <2>1. /\ pc = "asleep" /\ pc' = "down" /\ previous' = None
        /\ seat = "present" /\ ~ batteryWasAbsent /\ batteryWasAbsent' = FALSE
        /\ UNCHANGED <<world, tables, shotPc>>
    BY <1>3 DEF Stop, Fresh, Swapping
  <2>2. SwapPlace' /\ (Exposed' => Exposed /\ Later)
    BY <2>1, SameBacks DEF SwapInv, SwapPlace, Exposed, world, Sampled, Recorded
  <2>3. drained <= drained'
    BY <1>1, <2>1 DEF world
  <2> QED
    BY <1>1, <2>1, <2>2, <2>3, QuietSwap DEF Recorded
<1>4. CASE Kill \/ Writeback \/ PowerLoss
  BY <1>4 DEF Kill, Writeback, PowerLoss, Swapping
<1>5. CASE IdleInterval
  <2>1. /\ pc = "down" /\ seat' = seat /\ Interval
        /\ UNCHANGED <<boot, tables, pc, previous, batteryWasAbsent, shotPc>>
    BY <1>5 DEF IdleInterval, daemon, Swapping
  <2>2. Used
    BY <2>1 DEF Interval, Removed, Seated, SwapInv, SwapPlace
  <2>3. SwapPlace'
    BY <2>1, <2>2 DEF SwapInv, SwapPlace, Sampled, Used, Swapping
  <2>4. Exposed' => Exposed /\ Later
    BY <2>1, <2>2, UsedBacks DEF Exposed, Drifts, TypeInv
  <2>5. drained <= drained'
    BY <2>2, WearMonotone DEF TypeInv
  <2> QED
    BY <1>1, <2>1, <2>3, <2>4, <2>5, QuietSwap DEF Recorded
<1>6. CASE Reboot
  <2>1. /\ pc = "down" /\ pc' = "down" /\ previous' = None
        /\ seat = "present" /\ batteryWasAbsent' = FALSE /\ boot' = boot + 1
        /\ shotPc' = "none" /\ UNCHANGED <<tables, seat, readable, drained>>
    BY <1>6 DEF Reboot, Off, Fresh
  <2>2. SwapPlace' /\ (Exposed' => Exposed /\ Later)
    BY <2>1, OffBacks DEF SwapInv, SwapPlace, Exposed, Sampled, Recorded, TypeInv
  <2>3. drained <= drained'
    BY <1>1, <2>1
  <2> QED
    BY <1>1, <2>1, <2>2, <2>3, QuietSwap DEF Recorded
<1> QED
  BY <1>2, <1>3, <1>4, <1>5, <1>6 DEF Life

\* Packs may be taken out and others seated, of any capacity and charge, and the
\* readings may drift on the charger: the flight recorder still shows no wear
\* that did not go through a load.  Every statement has to succeed, the daemon
\* to be stopped only while a pack it has recorded is seated, and every pack to
\* be readable: each of these may lose what the daemon remembers of an absence.
THEOREM SwapIsNoWear ==
    ASSUME Swapping
    PROVE  Spec => []NoPhantomWear
<1>1. Init => SwapInv
  BY InitSwapInv
<1>2. OneShot => ~ SwapInv
  BY DEF OneShot, ShotSample, ShotFind, ShotAppend, ShotRecord, ShotCheckpoint, ShotFails,
         SwapInv, SwapPlace, Swapping
<1>3. SwapInv /\ UNCHANGED vars => SwapInv'
  BY DEF vars, SwapInv, SwapPlace, SwapRows, SwapBacked, Exposed, world, tables, daemon, local,
         oneShot, Readings
<1>4. TypeInv /\ TypeInv' /\ SwapInv /\ [Next]_vars => SwapInv'
  BY <1>2, <1>3, TickSwapInv, LifeSwapInv DEF Next
<1>5. SwapInv => NoPhantomWear
  BY DEF SwapInv, SwapRows, NoPhantomWear
<1> QED
  BY <1>1, <1>4, <1>5, TypeInvariant, PTL DEF Spec

-----------------------------------------------------------------------------
(***************************************************************************)
(* Remainders, as the tick counter is taken modulo the intervals, and the  *)
(* place of an id counted back from the newest.                            *)
(***************************************************************************)
\* A product is no less than its first factor.
LEMMA Times == ASSUME NEW n \in Nat, NEW k \in Nat \ {0} PROVE n * k >= n
  OBVIOUS

\* The remainder is what is left of x after the multiple of n below it.
LEMMA Remainder ==
    ASSUME NEW x \in Nat, NEW n \in Nat \ {0}, NEW q \in Nat, NEW r \in 0 .. n - 1, x = n * q + r
    PROVE  x % n = r
<1> DEFINE s == x \div n
           t == x % n
<1>1. s \in Nat /\ t \in 0 .. n - 1 /\ x = n * s + t
  OBVIOUS
<1> HIDE DEF s, t
<1>2. CASE q > s
  <2> DEFINE k == q - s
  <2>1. k \in Nat \ {0} /\ q = s + k
    BY <1>1, <1>2
  <2> HIDE DEF k
  <2>2. n * q = n * s + n * k
    BY <1>1, <2>1
  <2>3. n * k >= n /\ n * k \in Nat /\ n * s \in Nat
    BY <1>1, <2>1, Times
  <2> DEFINE a == n * s
             b == n * k
             c == n * q
  <2>4. a + t = c + r /\ c = a + b /\ b >= n /\ a \in Nat /\ b \in Nat /\ c \in Nat
    BY <1>1, <2>1, <2>2, <2>3
  <2> HIDE DEF a, b, c
  <2> QED
    BY <1>1, <2>4
<1>3. CASE q < s
  <2> DEFINE k == s - q
  <2>1. k \in Nat \ {0} /\ s = q + k
    BY <1>1, <1>3
  <2> HIDE DEF k
  <2>2. n * s = n * q + n * k
    BY <1>1, <2>1
  <2>3. n * k >= n /\ n * k \in Nat /\ n * q \in Nat
    BY <1>1, <2>1, Times
  <2> DEFINE a == n * q
             b == n * k
             c == n * s
  <2>4. a + r = c + t /\ c = a + b /\ b >= n /\ a \in Nat /\ b \in Nat /\ c \in Nat
    BY <1>1, <2>1, <2>2, <2>3
  <2> HIDE DEF a, b, c
  <2> QED
    BY <1>1, <2>4
<1>4. CASE q = s
  BY <1>1, <1>4 DEF t
<1> QED
  BY <1>1, <1>2, <1>3, <1>4

\* Counting on by one, the remainder does too, and starts over at n.
LEMMA NextRemainder ==
    ASSUME NEW x \in Nat, NEW n \in Nat \ {0}
    PROVE  (x + 1) % n = IF (x % n) + 1 = n THEN 0 ELSE (x % n) + 1
<1> DEFINE q == x \div n
           r == x % n
<1>1. q \in Nat /\ r \in 0 .. n - 1 /\ x = n * q + r
  OBVIOUS
<1>2. CASE r + 1 = n
  <2>1. n * (q + 1) = n * q + n
    BY <1>1
  <2> HIDE DEF q, r
  <2>2. x + 1 = n * (q + 1) + 0
    <3> DEFINE a == n * q
    <3>1. a \in Nat /\ n * (q + 1) = a + n /\ x = a + r
      BY <1>1, <2>1
    <3> HIDE DEF a
    <3> QED
      BY <1>1, <1>2, <3>1
  <2>3. (x + 1) % n = 0
    BY <1>1, <2>2, Remainder
  <2> QED
    BY <1>2, <2>3 DEF r
<1>3. CASE r + 1 < n
  <2> HIDE DEF q, r
  <2>1. x + 1 = n * q + (r + 1) /\ r + 1 \in 0 .. n - 1
    BY <1>1, <1>3
  <2>2. (x + 1) % n = r + 1
    BY <1>1, <2>1, Remainder
  <2> QED
    BY <1>3, <2>2 DEF r
<1> QED
  BY <1>1, <1>2, <1>3

LEMMA ProductRemainder == ASSUME NEW h \in Nat \ {0}, NEW n \in Nat \ {0} PROVE (h * n) % n = 0
  OBVIOUS

\* The members of S that are id or later.
From(S, id) == {other \in S : id <= other}

LEMMA FromFinite ==
    ASSUME NEW S, IsFiniteSet(S), NEW id
    PROVE  IsFiniteSet(From(S, id)) /\ From(S, id) \subseteq S /\ Cardinality(From(S, id)) \in Nat
<1>1. From(S, id) \subseteq S
  BY DEF From
<1> QED
  BY <1>1, FS_Subset, FS_CardinalityType

\* Counting back from the newest id comes to every number there are ids for.
LEMMA NthNewest ==
    ASSUME NEW S, S \subseteq Nat, IsFiniteSet(S), NEW n \in Nat \ {0}, n <= Cardinality(S)
    PROVE  \E id \in S : Cardinality(From(S, id)) = n
<1> DEFINE T == {id \in S : n <= Cardinality(From(S, id))}
<1>1. S # {}
  BY FS_EmptySet
<1>2. PICK low \in S : \A id \in S : low <= id
  BY <1>1, LeastNatural
<1>3. From(S, low) = S
  BY <1>2 DEF From
<1>4. low \in T /\ T \subseteq S
  BY <1>3
<1> HIDE DEF T
<1>5. IsFiniteSet(T)
  BY <1>4, FS_Subset
<1>6. T \subseteq Int
  BY <1>4
<1>7. PICK m \in T : \A id \in T : id <= m
  BY <1>4, <1>5, <1>6, Greatest
<1>8. m \in S /\ n <= Cardinality(From(S, m)) /\ m \in Nat
  BY <1>7 DEF T
<1> DEFINE A == From(S, m)
           B == A \ {m}
<1>9. /\ IsFiniteSet(A) /\ m \in A /\ Cardinality(A) \in Nat /\ IsFiniteSet(B)
      /\ Cardinality(B) = Cardinality(A) - 1
  <2>1. m \in A
    BY <1>8 DEF From
  <2> HIDE DEF A
  <2>2. IsFiniteSet(A) /\ Cardinality(A) \in Nat
    BY FromFinite DEF A
  <2> QED
    BY <2>1, <2>2, FS_RemoveElement
<1>10. CASE Cardinality(A) > n
  <2>1. B # {} /\ B \subseteq Nat
    <3>1. Cardinality(B) # 0
      BY <1>8, <1>9, <1>10
    <3> QED
      BY <3>1, FS_EmptySet DEF From
  <2> HIDE DEF B
  <2>2. PICK next \in B : \A id \in B : next <= id
    BY <2>1, LeastNatural
  <2>3. next \in S /\ m < next
    BY <1>8, <2>2 DEF B, From
  <2>4. From(S, next) = B
    <3>1. ASSUME NEW id \in S PROVE next <= id <=> id \in B
      BY <1>8, <2>2, <2>3, <3>1 DEF B, From
    <3> QED
      BY <3>1 DEF From, B
  <2>5. n <= Cardinality(From(S, next))
    BY <1>8, <1>9, <1>10, <2>4
  <2>6. next \in T
    BY <2>3, <2>5 DEF T
  <2> QED
    BY <1>7, <1>8, <2>3, <2>6
<1>11. CASE Cardinality(A) = n
  BY <1>8, <1>11
<1> QED
  BY <1>8, <1>9, <1>10, <1>11

-----------------------------------------------------------------------------
(***************************************************************************)
(* How far the flight recorder grows.  DebugBounded is not inductive: a    *)
(* prune leaves RetentionRows rows only where it counts back that many     *)
(* from the newest, and until the next one is due a tick may add one row   *)
(* for every tick counted since.                                           *)
(***************************************************************************)
\* Every prune succeeds, and no other process adds rows.
Pruning == "prune" \notin Faults /\ "oneshot" \notin Events

\* The ticks counted since a prune was due.
Phase == tickCount % PruneInterval

\* How many rows there may be.  A prune that is due may find a whole interval
\* of them, one of them from the run that was stopped.
Room ==
    IF pc \in Recorded THEN RetentionRows + Phase + 1
    ELSE IF pc \in {"down", "asleep", "prune", "trim"} /\ Phase = 0
    THEN RetentionRows + PruneInterval
    ELSE RetentionRows + Phase

BoundRows ==
    /\ IsFiniteSet(DOMAIN debug) /\ Cardinality(DOMAIN debug) <= Room
    /\ IsFiniteSet(DOMAIN debugSynced)
    /\ Cardinality(DOMAIN debugSynced) <= RetentionRows + PruneInterval

BoundPlace ==
    /\ tickCount < HistoryInterval * PruneInterval
    /\ pc = "down" => tickCount = 0
    /\ pc \in {"prune", "trim"} => Phase = 0
    /\ pc = "trim" => Cardinality(From(DOMAIN debug, boundary)) = RetentionRows
    /\ shotPc = "none"

BoundInv == BoundRows /\ BoundPlace

LEMMA PhaseRange ==
    ASSUME TypeInv
    PROVE  /\ tickCount \in Nat
           /\ Phase \in Nat /\ Phase < PruneInterval
           /\ tickCount = 0 => Phase = 0
           /\ Room \in Nat /\ Room <= RetentionRows + PruneInterval
<1>1. tickCount \in Nat
  BY DEF TypeInv, DaemonOK
<1>2. Phase \in 0 .. PruneInterval - 1 /\ (tickCount = 0 => Phase = 0)
  BY <1>1, ScheduleAssumption DEF Phase
<1> QED
  BY <1>1, <1>2, ScheduleAssumption DEF Room

LEMMA SizeType ==
    ASSUME BoundRows
    PROVE  Cardinality(DOMAIN debug) \in Nat /\ Cardinality(DOMAIN debugSynced) \in Nat
  BY FS_CardinalityType DEF BoundRows

\* A tick that ends leaves room for the next.
LEMMA EndTickRoom ==
    ASSUME TypeInv, TypeInv', BoundPlace, EndTick
    PROVE  /\ tickCount' < HistoryInterval * PruneInterval
           /\ pc' = "asleep"
           /\ Room' = IF Phase + 1 = PruneInterval THEN RetentionRows + PruneInterval
                      ELSE RetentionRows + Phase + 1
<1> DEFINE hp == HistoryInterval * PruneInterval
<1>1. hp \in Nat \ {0} /\ hp % PruneInterval = 0
  BY ScheduleAssumption, ProductRemainder
<1>2. tickCount \in Nat /\ tickCount < hp /\ tickCount' = (tickCount + 1) % hp
  BY DEF TypeInv, DaemonOK, BoundPlace, EndTick
<1> HIDE DEF hp
<1>3. tickCount' \in 0 .. hp - 1
  BY <1>1, <1>2
<1>4. tickCount' % PruneInterval = (tickCount + 1) % PruneInterval
  <2>1. CASE tickCount + 1 < hp
    BY <1>1, <1>2, <2>1
  <2>2. CASE tickCount + 1 = hp
    <3>1. tickCount' = 0
      BY <1>1, <1>2, <2>2
    <3>2. 0 % PruneInterval = 0
      BY ScheduleAssumption
    <3> QED
      BY <1>1, <2>2, <3>1, <3>2
  <2> QED
    BY <1>1, <1>2, <2>1, <2>2
<1>5. Phase' = IF Phase + 1 = PruneInterval THEN 0 ELSE Phase + 1
  BY <1>2, <1>4, NextRemainder, ScheduleAssumption DEF Phase
<1>6. pc' = "asleep" /\ Phase + 1 \in Nat \ {0}
  BY PhaseRange DEF EndTick
<1>7. Room' = IF Phase' = 0 THEN RetentionRows + PruneInterval ELSE RetentionRows + Phase'
  BY <1>6 DEF Room, Recorded
<1> QED
  BY <1>1, <1>3, <1>5, <1>6, <1>7, PhaseRange, ScheduleAssumption DEF hp

\* So the bound survives the end of a tick that adds nothing.
LEMMA EndTickBound ==
    ASSUME TypeInv, TypeInv', BoundInv, EndTick, UNCHANGED <<debug, debugSynced, shotPc>>,
           pc \notin {"prune", "trim", "down", "asleep"}
    PROVE  BoundInv'
<1>1. Cardinality(DOMAIN debug) <= Room'
  <2> DEFINE size == Cardinality(DOMAIN debug)
  <2>1. size \in Nat /\ size <= RetentionRows + Phase + 1
    <3>1. size \in Nat /\ size <= Room /\ Room <= RetentionRows + Phase + 1
      BY SizeType, PhaseRange, ScheduleAssumption DEF BoundInv, BoundRows, Room
    <3> HIDE DEF size
    <3> QED
      BY <3>1, PhaseRange, ScheduleAssumption
  <2> HIDE DEF size
  <2>2. size <= Room'
    BY <2>1, EndTickRoom, PhaseRange, ScheduleAssumption DEF BoundInv
  <2> QED
    BY <2>2 DEF size
<1>2. BoundRows'
  BY <1>1 DEF BoundInv, BoundRows
<1>3. BoundPlace'
  BY EndTickRoom DEF BoundInv, BoundPlace
<1> QED
  BY <1>2, <1>3 DEF BoundInv

\* A step of the tick that neither adds a row nor ends it.
LEMMA QuietBound ==
    ASSUME TypeInv, BoundInv, UNCHANGED <<debug, debugSynced, shotPc, tickCount>>,
           pc' \notin {"prune", "trim", "down"}, pc' \in Recorded <=> pc \in Recorded,
           pc' = "asleep" <=> pc = "asleep", pc \notin {"prune", "trim", "down"}
    PROVE  BoundInv'
<1>1. Phase' = Phase
  BY DEF Phase
<1>2. Room' = Room
  BY <1>1 DEF Room
<1> QED
  BY <1>2 DEF BoundInv, BoundRows, BoundPlace

\* What a prune leaves.
LEMMA PrunedRows ==
    ASSUME TypeInv, BoundInv, pc = "prune"
    PROVE  LET id == Boundary(debug)
           IN  IF id = None THEN Cardinality(DOMAIN debug) < RetentionRows
               ELSE Cardinality(From(DOMAIN debug, id)) = RetentionRows
<1> DEFINE S == DOMAIN debug
           nth == {id \in S : Cardinality(From(S, id)) = RetentionRows}
<1>1. S \subseteq Nat /\ IsFiniteSet(S) /\ Cardinality(S) \in Nat
  BY SizeType DEF TypeInv, TablesInv, TableInv, IsTable, BoundInv, BoundRows
<1>2. Boundary(debug) = IF nth = {} THEN None ELSE CHOOSE id \in nth : TRUE
  BY DEF Boundary, From
<1>3. CASE nth = {}
  <2>1. ~ (RetentionRows <= Cardinality(S))
    <3> HIDE DEF S
    <3>1. ASSUME RetentionRows <= Cardinality(S) PROVE nth # {}
      BY <1>1, <3>1, NthNewest, ScheduleAssumption
    <3> QED
      BY <1>3, <3>1
  <2> DEFINE size == Cardinality(S)
  <2>2. size \in Nat /\ ~ (RetentionRows <= size)
    BY <1>1, <2>1
  <2> HIDE DEF size
  <2>3. size < RetentionRows
    BY <2>2, ScheduleAssumption
  <2> QED
    BY <1>2, <1>3, <2>3 DEF size
<1>4. CASE nth # {}
  <2>1. Boundary(debug) \in nth
    BY <1>2, <1>4
  <2>2. Boundary(debug) # None
    BY <1>1, <2>1, NoneAssumption
  <2> QED
    BY <2>1, <2>2
<1> QED
  BY <1>3, <1>4

LEMMA InitBound == Init => BoundInv
<1> SUFFICES ASSUME Init PROVE BoundInv
  OBVIOUS
<1>1. DOMAIN debug = {} /\ DOMAIN debugSynced = {}
  BY EmptyTable DEF Init
<1>2. IsFiniteSet({}) /\ Cardinality({}) = 0
  BY FS_EmptySet
<1>3. HistoryInterval * PruneInterval \in Nat \ {0}
  BY ScheduleAssumption
<1>4. BoundPlace
  BY <1>3 DEF Init, BoundPlace
<1>5. Room \in Nat
  BY InitTypeInv, PhaseRange
<1>6. BoundRows
  BY <1>1, <1>2, <1>5, ScheduleAssumption DEF BoundRows
<1> QED
  BY <1>4, <1>6 DEF BoundInv

LEMMA TickBound ==
    ASSUME Pruning, TypeInv, TypeInv', BoundInv, Tick
    PROVE  BoundInv'
<1> USE DEF tables, synced, oneShot, local
<1>1. CASE Wake
  <2>1. /\ pc = "asleep" /\ pc' = IF Phase = 0 THEN "prune" ELSE "sample"
        /\ UNCHANGED <<debug, debugSynced, shotPc, tickCount>>
    BY <1>1 DEF Wake, IsDue, Phase
  <2>2. Phase' = Phase /\ Room' = Room
    BY <2>1 DEF Phase, Room, Recorded
  <2> QED
    BY <2>1, <2>2 DEF BoundInv, BoundRows, BoundPlace
<1>2. CASE FindBoundary
  <2>1. /\ pc = "prune" /\ boundary' = Boundary(debug)
        /\ pc' = IF boundary' = None THEN "sample" ELSE "trim"
        /\ UNCHANGED <<debug, debugSynced, shotPc, tickCount>>
    BY <1>2 DEF FindBoundary, FailedTick, Pruning
  <2>2. Phase' = Phase /\ Phase = 0
    BY <2>1 DEF Phase, BoundInv, BoundPlace
  <2>3. CASE boundary' = None
    <3>1. Cardinality(DOMAIN debug) < RetentionRows
      BY <2>1, <2>3, PrunedRows
    <3>2. Room' = RetentionRows
      BY <2>1, <2>2, <2>3, ScheduleAssumption DEF Room, Recorded
    <3>3. Cardinality(DOMAIN debug) <= Room'
      BY <3>1, <3>2, SizeType, ScheduleAssumption DEF BoundInv
    <3> QED
      BY <2>1, <2>3, <3>3 DEF BoundInv, BoundRows, BoundPlace
  <2>4. CASE boundary' # None
    <3>1. Cardinality(From(DOMAIN debug, boundary')) = RetentionRows
      BY <2>1, <2>4, PrunedRows
    <3>2. Room' = Room
      BY <2>1, <2>2, <2>4 DEF Room, Recorded
    <3> QED
      BY <2>1, <2>2, <2>4, <3>1, <3>2 DEF BoundInv, BoundRows, BoundPlace
  <2> QED
    BY <2>3, <2>4
<1>3. CASE Trim
  <2>1. /\ pc = "trim" /\ debug' = TrimmedBelow(debug, boundary) /\ pc' = "sample"
        /\ UNCHANGED <<debugSynced, shotPc, tickCount>>
    BY <1>3 DEF Trim, FailedTick, Pruning
  <2>2. /\ boundary \in DOMAIN debug /\ DOMAIN debug \subseteq Nat
        /\ Cardinality(From(DOMAIN debug, boundary)) = RetentionRows
    BY <2>1 DEF TypeInv, LocalsInv, TablesInv, TableInv, IsTable, BoundInv, BoundPlace
  <2>3. DOMAIN debug' = From(DOMAIN debug, boundary)
    BY <2>1, <2>2 DEF TrimmedBelow, From
  <2>4. Phase' = 0 /\ Room' = RetentionRows
    BY <2>1, ScheduleAssumption DEF BoundInv, BoundPlace, Phase, Room, Recorded
  <2>5. IsFiniteSet(DOMAIN debug')
    BY <2>3, FromFinite DEF BoundInv, BoundRows
  <2> QED
    BY <2>1, <2>2, <2>3, <2>4, <2>5, ScheduleAssumption DEF BoundInv, BoundRows, BoundPlace
<1>4. CASE SampleUnreadable \/ SampleAbsent
  <2>1. pc = "sample" /\ EndTick /\ UNCHANGED <<debug, debugSynced, shotPc>>
    BY <1>4 DEF SampleUnreadable, SampleAbsent
  <2> QED
    BY <2>1, EndTickBound
<1>5. CASE SamplePresent
  <2>1. /\ pc = "sample" /\ pc' \in {"adoptDebug", "record"}
        /\ UNCHANGED <<debug, debugSynced, shotPc, tickCount>>
    BY <1>5 DEF SamplePresent
  <2> QED
    BY <2>1, QuietBound DEF Recorded
<1>6. CASE AdoptDebug \/ AdoptHistory
  <2>1. pc \in {"adoptDebug", "adoptHistory"} /\ UNCHANGED <<debug, debugSynced, shotPc>>
    BY <1>6 DEF AdoptDebug, AdoptHistory, Adopt, FailedTick
  <2>2. CASE EndTick
    BY <2>1, <2>2, EndTickBound
  <2>3. CASE ~ EndTick
    <3>1. UNCHANGED tickCount /\ pc' \in {"adoptHistory", "record"}
      BY <1>6, <2>3 DEF AdoptDebug, AdoptHistory, Adopt, FailedTick
    <3> QED
      BY <2>1, <3>1, QuietBound DEF Recorded
  <2> QED
    BY <2>2, <2>3
<1>7. CASE Record
  <2>1. pc = "record"
    BY <1>7 DEF Record
  <2>2. CASE FailedTick("debug")
    BY <2>1, <2>2, EndTickBound DEF FailedTick
  <2>3. CASE ~ FailedTick("debug")
    <3>1. /\ count' = NextCount /\ debug' = Inserted(debug, Anchor(sample, count'))
          /\ pc' = "alert" /\ UNCHANGED <<debugSynced, shotPc, tickCount>>
      BY <1>7, <2>3 DEF Record
    <3>2. DOMAIN debug' = DOMAIN debug \cup {LastId(debug) + 1}
      BY <3>1 DEF Inserted
    <3>3. Phase' = Phase /\ Room = RetentionRows + Phase /\ Room' = RetentionRows + Phase + 1
      BY <2>1, <3>1 DEF Phase, Room, Recorded
    <3>4. IsFiniteSet(DOMAIN debug') /\ Cardinality(DOMAIN debug') <= Cardinality(DOMAIN debug) + 1
      <4> DEFINE S == DOMAIN debug
                 new == LastId(debug) + 1
      <4>1. IsFiniteSet(S) /\ Cardinality(S) \in Nat
        BY SizeType DEF BoundInv, BoundRows
      <4> HIDE DEF S, new
      <4>2. /\ IsFiniteSet(S \cup {new})
            /\ Cardinality(S \cup {new}) = IF new \in S THEN Cardinality(S) ELSE Cardinality(S) + 1
        BY <4>1, FS_AddElement
      <4>3. Cardinality(S \cup {new}) <= Cardinality(S) + 1
        BY <4>1, <4>2
      <4> QED
        BY <3>2, <4>2, <4>3 DEF S, new
    <3>5. Cardinality(DOMAIN debug') <= Room'
      <4>1. Cardinality(DOMAIN debug) <= RetentionRows + Phase
        BY <3>3 DEF BoundInv, BoundRows
      <4>2. Cardinality(DOMAIN debug') \in Nat
        BY <3>4, FS_CardinalityType
      <4> QED
        BY <3>3, <3>4, <4>1, <4>2, SizeType, PhaseRange, ScheduleAssumption DEF BoundInv
    <3> QED
      BY <2>1, <3>1, <3>4, <3>5 DEF BoundInv, BoundRows, BoundPlace
  <2> QED
    BY <2>2, <2>3
<1>8. CASE Alert
  <2>1. pc = "alert" /\ UNCHANGED <<debug, debugSynced, shotPc>>
    BY <1>8 DEF Alert
  <2>2. EndTick \/ (pc' = "history" /\ UNCHANGED tickCount)
    BY <1>8 DEF Alert, Succeed
  <2> QED
    BY <2>1, <2>2, EndTickBound, QuietBound DEF Recorded
<1>9. CASE FindHistory \/ Append
  <2>1. pc \in {"history", "append"} /\ UNCHANGED <<debug, debugSynced, shotPc>>
    BY <1>9 DEF FindHistory, Append, FailedTick
  <2>2. EndTick \/ (pc' = "append" /\ UNCHANGED tickCount)
    BY <1>9 DEF FindHistory, Append, Succeed, FailedTick
  <2> QED
    BY <2>1, <2>2, EndTickBound, QuietBound DEF Recorded
<1> QED
  BY <1>1, <1>2, <1>3, <1>4, <1>5, <1>6, <1>7, <1>8, <1>9 DEF Tick

\* A restart may leave a whole interval of rows, and its first tick prunes.
LEMMA DownRoom ==
    ASSUME pc' = "down", tickCount' = 0
    PROVE  /\ tickCount' < HistoryInterval * PruneInterval
           /\ Room' = RetentionRows + PruneInterval
<1>1. HistoryInterval * PruneInterval \in Nat \ {0} /\ 0 % PruneInterval = 0
  BY ScheduleAssumption
<1> QED
  BY <1>1 DEF Phase, Room, Recorded

LEMMA LifeBound ==
    ASSUME TypeInv, TypeInv', BoundInv, Life
    PROVE  BoundInv'
<1> USE DEF world, tables, synced, oneShot, local, daemon
<1> DEFINE Most == RetentionRows + PruneInterval
           Small(t) == IsFiniteSet(DOMAIN t) /\ Cardinality(DOMAIN t) <= Most
<1>1. Small(debug) /\ Small(debugSynced)
  <2>1. /\ IsFiniteSet(DOMAIN debug) /\ IsFiniteSet(DOMAIN debugSynced)
        /\ Cardinality(DOMAIN debug) <= Room /\ Room \in Nat /\ Room <= Most
        /\ Cardinality(DOMAIN debug) \in Nat /\ Cardinality(DOMAIN debugSynced) <= Most
    BY SizeType, PhaseRange DEF BoundInv, BoundRows
  <2>2. Most \in Nat
    BY ScheduleAssumption
  <2> QED
    BY <2>1, <2>2
<1>2. CASE Start
  <2>1. /\ pc = "down" /\ pc' = "asleep"
        /\ UNCHANGED <<debug, debugSynced, shotPc, tickCount>>
    BY <1>2 DEF Start
  <2>2. Phase' = Phase /\ Room' = Room
    BY <2>1 DEF Phase, Room, Recorded
  <2> QED
    BY <2>1, <2>2 DEF BoundInv, BoundRows, BoundPlace
<1>3. CASE Stop \/ Kill \/ Reboot \/ PowerLoss
  <2>1. /\ pc' = "down" /\ tickCount' = 0 /\ shotPc' = "none"
        /\ debug' \in {debug, debugSynced} /\ debugSynced' \in {debug, debugSynced}
    BY <1>3 DEF Stop, Kill, Reboot, PowerLoss, Fresh, Off, Checkpointed, BoundInv, BoundPlace
  <2>2. Small(debug') /\ Small(debugSynced')
    BY <1>1, <2>1
  <2>3. BoundRows'
    BY <2>1, <2>2, DownRoom DEF BoundRows
  <2>4. BoundPlace'
    BY <2>1, DownRoom DEF BoundPlace
  <2> QED
    BY <2>3, <2>4 DEF BoundInv
<1>4. CASE IdleInterval
  <2>1. UNCHANGED <<pc, debug, debugSynced, shotPc, tickCount, boundary>>
    BY <1>4 DEF IdleInterval
  <2>2. Phase' = Phase /\ Room' = Room
    BY <2>1 DEF Phase, Room
  <2> QED
    BY <2>1, <2>2 DEF BoundInv, BoundRows, BoundPlace
<1>5. CASE Writeback
  <2>1. /\ UNCHANGED <<pc, debug, shotPc, tickCount, boundary>>
        /\ debugSynced' \in {debug, debugSynced}
    BY <1>5 DEF Writeback
  <2>2. Phase' = Phase /\ Room' = Room
    BY <2>1 DEF Phase, Room
  <2>3. Small(debugSynced')
    BY <1>1, <2>1
  <2> QED
    BY <2>1, <2>2, <2>3 DEF BoundInv, BoundRows, BoundPlace
<1> QED
  BY <1>2, <1>3, <1>4, <1>5 DEF Life

\* Where every prune succeeds and no other process adds rows, the flight
\* recorder holds at most a retention window and one prune interval, whatever
\* else fails and however often the daemon is restarted: its first tick prunes.
THEOREM FlightRecorderBounded ==
    ASSUME Pruning
    PROVE  Spec => []DebugBounded
<1>1. Init => BoundInv
  BY InitBound
<1>2. OneShot => ~ BoundInv
  BY DEF OneShot, ShotSample, ShotFind, ShotAppend, ShotRecord, ShotCheckpoint, ShotFails,
         BoundInv, BoundPlace, Pruning
<1>3. BoundInv /\ UNCHANGED vars => BoundInv'
  <2> SUFFICES ASSUME BoundInv, UNCHANGED vars PROVE BoundInv'
    OBVIOUS
  <2>1. UNCHANGED <<pc, debug, debugSynced, shotPc, tickCount, boundary>>
    BY DEF vars, tables, synced, daemon, local, oneShot
  <2>2. Phase' = Phase /\ Room' = Room
    BY <2>1 DEF Phase, Room
  <2> QED
    BY <2>1, <2>2 DEF BoundInv, BoundRows, BoundPlace
<1>4. TypeInv /\ TypeInv' /\ BoundInv /\ [Next]_vars => BoundInv'
  BY <1>2, <1>3, TickBound, LifeBound DEF Next
<1>5. TypeInv /\ BoundInv => DebugBounded
  <2> SUFFICES ASSUME TypeInv, BoundInv PROVE DebugBounded
    OBVIOUS
  <2> DEFINE size == Cardinality(DOMAIN debug)
  <2>1. size \in Nat /\ size <= Room
    BY SizeType DEF BoundInv, BoundRows
  <2> HIDE DEF size
  <2>2. size <= RetentionRows + PruneInterval
    BY <2>1, PhaseRange, ScheduleAssumption
  <2> QED
    BY <2>2 DEF DebugBounded, size
<1> QED
  BY <1>1, <1>4, <1>5, TypeInvariant, PTL DEF Spec
=============================================================================

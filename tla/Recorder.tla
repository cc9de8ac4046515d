------------------------------ MODULE Recorder ------------------------------
(***************************************************************************)
(* The flight recorder: the tick of src/src/daemon.rs over its two stores  *)
(* (src/src/db.rs), with the machine and the battery it samples, and the   *)
(* one-shot recording of src/src/main.rs that may run beside it.           *)
(*                                                                         *)
(* One tick is a sequence of steps, one per SQLite statement or reading,   *)
(* so that another process, a failure or a crash can come between two of   *)
(* them.  A statement that may fail is a step with a failing alternative;  *)
(* a failure ends the tick as the ? operator does.                         *)
(*                                                                         *)
(* A table maps the ids of its rows to the rows, and of a row only what    *)
(* the integration reads back is kept.  Alerting is reduced to one latch   *)
(* and three kinds of reading: "raised" trips it, "clear" releases it,     *)
(* "held" (the deadband) does neither.                                     *)
(***************************************************************************)
EXTENDS Cycles, FiniteSets

CONSTANTS
    HistoryInterval,  \* Schedule.historical_interval_ticks
    PruneInterval,    \* Schedule.prune_interval_ticks
    RetentionRows,    \* Schedule.debug_retention_rows()
    MaxEnergy,        \* bound: what the battery holds at most, in Wh
    MaxId,            \* bound: no tick starts once a table has had MaxId rows
    MaxDrained,       \* bound: discharge observed, in units of the count
    MaxBoots,         \* bound: boots of the machine
    Rails,            \* the power states that occur, of RailStates
    Alarms,           \* the kinds of reading, of {"raised", "held", "clear"}
    Faults,           \* the statements that may fail, see FaultKinds
    Events            \* what may happen to the daemon, see EventKinds

RailStates == {"Charging", "Discharging", "AcIdle"}
FaultKinds == {"prune", "adopt", "debug", "history"}
EventKinds == {"unreadable", "nodesign", "drift", "swap", "kill", "powerloss",
               "oneshot"}

\* Schedule::validate
ASSUME ScheduleAssumption ==
    /\ HistoryInterval \in Nat \ {0}
    /\ PruneInterval \in Nat \ {0}
    /\ RetentionRows \in Nat \ {0}

ASSUME EnvironmentAssumption ==
    /\ MaxEnergy \in Nat /\ MaxId \in Nat /\ MaxDrained \in Nat
    /\ MaxBoots \in Nat
    /\ Rails \subseteq RailStates /\ Rails # {}
    /\ Alarms \subseteq {"raised", "held", "clear"}
    /\ Faults \subseteq FaultKinds
    /\ Events \subseteq EventKinds

VARIABLES
    \* the machine and the battery
    seat,          \* "present" or "absent"
    readable,      \* whether energy and charge can be read
    rail,          \* the power state
    energy,        \* what the pack holds
    design,        \* the pack's design capacity
    boot,          \* which boot this is
    drained,       \* history variable: wear that really went through a load
    \* the two tables, and what of them has reached the disk
    debug, history,
    debugSynced, historySynced,
    \* the daemon
    pc,            \* "down", "asleep", or the step the tick is at
    tickCount, previous, batteryWasAbsent, latched,
    sample,        \* the sample of the tick under way
    count,         \* the cycle count it was given
    alarm,         \* its kind, for the latch
    boundary,      \* the oldest id the tick's prune keeps
    found,         \* the history's latest row, as the tick read it
    rearmed,       \* history variable: an announcement would be legitimate
    \* the one-shot process
    shotPc, shot, shotFound

world  == <<seat, readable, rail, energy, design, boot, drained>>
tables == <<debug, history>>
synced == <<debugSynced, historySynced>>
local  == <<sample, count, alarm, boundary, found>>
daemon == <<pc, tickCount, previous, batteryWasAbsent, latched, rearmed, local>>
oneShot == <<shotPc, shot, shotFound>>
vars == <<world, tables, synced, daemon, oneShot>>

-----------------------------------------------------------------------------
(***************************************************************************)
(* The store.                                                              *)
(***************************************************************************)
Empty == [id \in {} |-> None]

IsNewest(table, id) ==
    id \in DOMAIN table /\ \A other \in DOMAIN table : other <= id

\* The id of the newest row, 0 when there is none.
LastId(table) ==
    IF DOMAIN table = {} THEN 0 ELSE CHOOSE id \in DOMAIN table : IsNewest(table, id)

\* Store::latest
Latest(table) == IF DOMAIN table = {} THEN None ELSE table[LastId(table)]

\* Store::insert; AUTOINCREMENT gives the row its id.
Inserted(table, row) ==
    [id \in DOMAIN table \cup {LastId(table) + 1} |->
        IF id = LastId(table) + 1 THEN row ELSE table[id]]

\* Mutants: the offset is one row short, or one row long.
BoundaryShort(table) ==
    LET nth == {id \in DOMAIN table :
           Cardinality({other \in DOMAIN table : id <= other}) = RetentionRows - 1}
    IN  IF nth = {} THEN None ELSE CHOOSE id \in nth : TRUE

BoundaryLong(table) ==
    LET nth == {id \in DOMAIN table :
           Cardinality({other \in DOMAIN table : id <= other}) = RetentionRows + 1}
    IN  IF nth = {} THEN None ELSE CHOOSE id \in nth : TRUE

\* The id of the RetentionRows-th newest row, None when there are fewer.
Boundary(table) ==
    LET nth == {id \in DOMAIN table :
           Cardinality({other \in DOMAIN table : id <= other}) = RetentionRows}
    IN  IF nth = {} THEN None ELSE CHOOSE id \in nth : TRUE

\* Mutant: the row at the boundary goes as well.
TrimmedAt(table, id) ==
    [other \in {i \in DOMAIN table : i > id} |-> table[other]]

TrimmedBelow(table, id) ==
    [other \in {i \in DOMAIN table : i >= id} |-> table[other]]

-----------------------------------------------------------------------------
(***************************************************************************)
(* The machine and the battery.                                            *)
(***************************************************************************)
\* The readings of a pack on the charger dip and drift (cycles.rs: float charge,
\* a charge limit, noise).  A drift that no tick sees is beyond the recorder, so
\* it is confined to intervals a tick ends.
Drifts == "drift" \in Events /\ pc = "asleep"

\* One interval with the pack in its seat.  It discharges through a load the
\* whole interval, or it is on the charger the whole interval.
Used ==
    /\ seat = "present"
    /\ rail' \in Rails
    /\ \/ /\ rail' = "Discharging"
          /\ energy' \in 0 .. energy
          /\ drained' = drained + Wear(energy - energy', design)
          /\ drained' <= MaxDrained
       \/ /\ rail' # "Discharging"
          /\ energy' \in 0 .. MaxEnergy
          /\ \/ Drifts
             \/ rail' = "Charging" /\ energy' >= energy
             \/ energy' = energy
          /\ UNCHANGED drained
    /\ readable' \in IF "unreadable" \in Events THEN BOOLEAN ELSE {TRUE}
    /\ UNCHANGED <<seat, design>>

Removed ==
    /\ "swap" \in Events
    /\ seat' = "absent"
    /\ readable' = TRUE
    /\ UNCHANGED <<rail, energy, design, drained>>

\* A pack is put back, the same one or another.
Seated ==
    /\ seat = "absent"
    /\ seat' = "present"
    /\ readable' = TRUE
    /\ rail' \in Rails
    /\ energy' \in 0 .. MaxEnergy
    /\ design' \in Designs
    /\ UNCHANGED drained

Interval == Used \/ Removed \/ Seated

\* What a readable pack's sample holds.  The design capacity has an attribute
\* of its own that may be unreadable on its own.
Readings ==
    [ energy : {energy},
      design : IF "nodesign" \in Events THEN {design, 0} ELSE {design},
      state  : {rail}, boot : {boot}, uptime : {None} ]

-----------------------------------------------------------------------------
(***************************************************************************)
(* The tick.                                                               *)
(***************************************************************************)
IsDue(interval) == tickCount % interval = 0

\* run_tick: the counter advances whether or not the tick failed.  It is kept
\* modulo the two intervals, all that is ever asked of it.
EndTick ==
    /\ pc' = "asleep"
    /\ tickCount' = (tickCount + 1) % (HistoryInterval * PruneInterval)
    /\ sample' = None /\ count' = None /\ alarm' = None
    /\ boundary' = None /\ found' = None

\* The ? operator: the tick ends, and what it did so far stays done.
FailedTick(kind) ==
    /\ kind \in Faults
    /\ EndTick
    /\ UNCHANGED <<world, tables, synced, previous, latched, rearmed, oneShot>>

\* run: the deadline passes.
Wake ==
    /\ pc = "asleep"
    /\ LastId(debug) < MaxId /\ LastId(history) < MaxId
    /\ Interval
    /\ pc' = IF IsDue(PruneInterval) THEN "prune" ELSE "sample"
    /\ UNCHANGED <<boot, tables, synced, tickCount, previous, batteryWasAbsent,
                   latched, rearmed, local, oneShot>>

\* retain_newest, its SELECT
FindBoundary ==
    /\ pc = "prune"
    /\ \/ /\ boundary' = Boundary(debug)
          /\ pc' = IF boundary' = None THEN "sample" ELSE "trim"
          /\ UNCHANGED <<world, tables, synced, tickCount, previous, latched,
                batteryWasAbsent, rearmed, sample, count, alarm, found, oneShot>>
       \/ FailedTick("prune") /\ UNCHANGED batteryWasAbsent

\* retain_newest, its DELETE
Trim ==
    /\ pc = "trim"
    /\ \/ /\ debug' = TrimmedBelow(debug, boundary)
          /\ pc' = "sample"
          /\ boundary' = None
          /\ UNCHANGED <<world, history, synced, tickCount, previous, latched,
                batteryWasAbsent, rearmed, sample, count, alarm, found, oneShot>>
       \/ FailedTick("prune") /\ UNCHANGED batteryWasAbsent

\* Mutant: an unreadable battery is taken for an absent one.
UnreadableResets ==
    /\ pc = "sample"
    /\ ~ readable
    /\ latched' = FALSE
    /\ EndTick
    /\ UNCHANGED <<world, tables, synced, previous, batteryWasAbsent, rearmed,
                   oneShot>>

\* The source says nothing: the tick is a no-op.
SampleUnreadable ==
    /\ pc = "sample"
    /\ ~ readable
    /\ EndTick
    /\ UNCHANGED <<world, tables, synced, previous, batteryWasAbsent, latched,
                   rearmed, oneShot>>

SampleAbsent ==
    /\ pc = "sample"
    /\ readable /\ seat = "absent"
    /\ latched' = FALSE
    /\ rearmed' = TRUE
    /\ batteryWasAbsent' = TRUE
    /\ EndTick
    /\ UNCHANGED <<world, tables, synced, previous, oneShot>>

SamplePresent ==
    /\ pc = "sample"
    /\ readable /\ seat = "present"
    /\ sample' \in Readings
    /\ alarm' \in Alarms
    /\ pc' = IF previous = None THEN "adoptDebug" ELSE "record"
    /\ UNCHANGED <<world, tables, synced, tickCount, previous,
             batteryWasAbsent, latched, rearmed, count, boundary, found, oneShot>>

\* The first sample after a start picks up where the last run left off, from
\* the flight recorder if it has a row, else from the history.
Adopt(table, orElse) ==
    \/ /\ previous' = Latest(table)
       /\ pc' = IF previous' = None THEN orElse ELSE "record"
       /\ UNCHANGED <<world, tables, synced, tickCount, batteryWasAbsent,
                      latched, rearmed, local, oneShot>>
    \/ FailedTick("adopt") /\ UNCHANGED batteryWasAbsent

\* Mutant: the history is asked first.
AdoptCoarse  == pc = "adoptDebug" /\ Adopt(history, "adoptHistory")
AdoptDebug   == pc = "adoptDebug" /\ Adopt(debug, "adoptHistory")
AdoptHistory == pc = "adoptHistory" /\ Adopt(history, "record")

CarriedCount == IF previous = None THEN 0 ELSE previous.count

\* Mutant: the count is integrated across an absence.
AlwaysIntegrated == ComputeEstimatedCycles(sample, previous)

NextCount == IF batteryWasAbsent THEN CarriedCount
             ELSE ComputeEstimatedCycles(sample, previous)

\* batteryWasAbsent is taken before the insert, and stays taken if it fails.
Record ==
    /\ pc = "record"
    /\ batteryWasAbsent' = FALSE
    /\ \/ /\ count' = NextCount
          /\ debug' = Inserted(debug, Anchor(sample, count'))
          /\ pc' = "alert"
          /\ UNCHANGED <<world, history, synced, tickCount, previous, latched,
                         rearmed, sample, alarm, boundary, found, oneShot>>
       \/ FailedTick("debug")

Announces == alarm = "raised" /\ ~ latched

\* The last step of a tick that succeeds.
Succeed ==
    /\ previous' = Anchor(sample, count)
    /\ EndTick

Alert ==
    /\ pc = "alert"
    /\ latched' = (alarm = "raised" \/ (latched /\ alarm = "held"))
    /\ rearmed' = (~ Announces /\ (rearmed \/ alarm = "clear"))
    /\ IF IsDue(HistoryInterval)
       THEN pc' = "history" /\ UNCHANGED <<tickCount, previous, local>>
       ELSE Succeed
    /\ UNCHANGED <<world, tables, synced, batteryWasAbsent, oneShot>>

\* insert_integrating_cycles on the history, its SELECT
FindHistory ==
    /\ pc = "history"
    /\ \/ /\ found' = Latest(history)
          /\ pc' = "append"
          /\ UNCHANGED <<world, tables, synced, tickCount, previous, latched,
             batteryWasAbsent, rearmed, sample, count, alarm, boundary, oneShot>>
       \/ FailedTick("history") /\ UNCHANGED batteryWasAbsent

\* insert_integrating_cycles on the history, its INSERT
Append ==
    /\ pc = "append"
    /\ \/ /\ history' = Inserted(history,
                 Anchor(sample, ComputeEstimatedCycles(sample, found)))
          /\ Succeed
          /\ UNCHANGED <<world, debug, synced, batteryWasAbsent, latched,
                         rearmed, oneShot>>
       \/ FailedTick("history") /\ UNCHANGED batteryWasAbsent

Tick == \/ Wake \/ FindBoundary \/ Trim
        \/ SampleUnreadable \/ SampleAbsent \/ SamplePresent
        \/ AdoptDebug \/ AdoptHistory \/ Record \/ Alert
        \/ FindHistory \/ Append

-----------------------------------------------------------------------------
(***************************************************************************)
(* The daemon's life.                                                      *)
(***************************************************************************)
\* Everything Daemon::new starts with, and nothing of which outlives it.
Fresh ==
    /\ tickCount' = 0 /\ previous' = None /\ batteryWasAbsent' = FALSE
    /\ latched' = FALSE /\ rearmed' = TRUE
    /\ sample' = None /\ count' = None /\ alarm' = None
    /\ boundary' = None /\ found' = None

Start ==
    /\ pc = "down"
    /\ pc' = "asleep"
    /\ UNCHANGED <<world, tables, synced, tickCount, previous, batteryWasAbsent,
                   latched, rearmed, local, oneShot>>

\* What of a table is on the disk once it is checkpointed.  It is kept only
\* where it can matter.
Checkpointed(onDisk, table) ==
    IF "powerloss" \in Events THEN table ELSE onDisk

\* A termination signal, seen between two ticks: run returns and shutdown
\* checkpoints both tables, each of which may fail.  Unless the daemon may be
\* killed at any time, it is only stopped while a pack is seated.
Stop ==
    /\ pc = "asleep"
    /\ "kill" \in Events \/ (seat = "present" /\ ~ batteryWasAbsent)
    /\ pc' = "down"
    /\ Fresh
    /\ debugSynced' \in {debugSynced, Checkpointed(debugSynced, debug)}
    /\ historySynced' \in {historySynced, Checkpointed(historySynced, history)}
    /\ UNCHANGED <<world, tables, oneShot>>

\* The process dies at any step; what SQLite committed stays committed.
Kill ==
    /\ "kill" \in Events
    /\ pc # "down"
    /\ pc' = "down"
    /\ Fresh
    /\ UNCHANGED <<world, tables, synced, oneShot>>

\* Time passes with no daemon running.
IdleInterval ==
    /\ pc = "down"
    /\ Interval
    /\ "kill" \notin Events => UNCHANGED seat
    /\ UNCHANGED <<boot, tables, synced, daemon, oneShot>>

\* The kernel writes committed pages back.
Writeback ==
    /\ "powerloss" \in Events
    /\ \/ debugSynced' = debug /\ UNCHANGED historySynced
       \/ historySynced' = history /\ UNCHANGED debugSynced
    /\ UNCHANGED <<world, tables, daemon, oneShot>>

\* The machine is off for a while, and its pack is drained or charged.
Off ==
    /\ boot < MaxBoots
    /\ boot' = boot + 1
    /\ seat = "present"
    /\ energy' \in 0 .. MaxEnergy
    /\ rail' \in Rails
    /\ pc' = "down"
    /\ Fresh
    /\ shotPc' = "none" /\ shot' = None /\ shotFound' = None
    /\ UNCHANGED <<seat, readable, design, drained>>

Reboot ==
    /\ pc = "down"
    /\ Off
    /\ debugSynced' = Checkpointed(debugSynced, debug)
    /\ historySynced' = Checkpointed(historySynced, history)
    /\ UNCHANGED tables

\* With synchronous=NORMAL a commit is not fsynced: each table falls back, on
\* its own, to what had reached the disk.
PowerLoss ==
    /\ "powerloss" \in Events
    /\ Off
    /\ debug' = debugSynced
    /\ history' = historySynced
    /\ UNCHANGED synced

Life == Start \/ Stop \/ Kill \/ IdleInterval \/ Writeback \/ Reboot \/ PowerLoss

-----------------------------------------------------------------------------
(***************************************************************************)
(* batmon --oneshot, a process of its own.  It takes no lock.  What its    *)
(* alert engine, new with every run, announces is left out.                *)
(***************************************************************************)
ShotSample ==
    /\ "oneshot" \in Events
    /\ shotPc = "none"
    /\ LastId(debug) < MaxId /\ LastId(history) < MaxId
    /\ readable /\ seat = "present"
    /\ shot' \in Readings
    /\ shotPc' = "findHistory"
    /\ UNCHANGED <<world, tables, synced, daemon, shotFound>>

ShotFind(table, at, next) ==
    /\ shotPc = at
    /\ shotFound' = Latest(table)
    /\ shotPc' = next
    /\ UNCHANGED <<world, tables, synced, daemon, shot>>

ShotRow == Anchor(shot, ComputeEstimatedCycles(shot, shotFound))

ShotAppend ==
    /\ shotPc = "appendHistory"
    /\ history' = Inserted(history, ShotRow)
    /\ shotPc' = "findDebug"
    /\ shotFound' = None
    /\ UNCHANGED <<world, debug, synced, daemon, shot>>

ShotRecord ==
    /\ shotPc = "record"
    /\ debug' = Inserted(debug, ShotRow)
    /\ shotPc' = "checkpoint"
    /\ UNCHANGED <<world, history, synced, daemon, shot, shotFound>>

\* The history, then the flight recorder, whose checkpoint may fail alone.
ShotCheckpoint ==
    /\ shotPc = "checkpoint"
    /\ shotPc' = "none"
    /\ shot' = None /\ shotFound' = None
    /\ historySynced' = Checkpointed(historySynced, history)
    /\ debugSynced' \in {debugSynced, Checkpointed(debugSynced, debug)}
    /\ UNCHANGED <<world, tables, daemon>>

\* Any of its statements fails, or it is interrupted.
ShotFails ==
    /\ shotPc # "none"
    /\ shotPc' = "none"
    /\ shot' = None /\ shotFound' = None
    /\ UNCHANGED <<world, tables, synced, daemon>>

OneShot == \/ ShotSample
           \/ ShotFind(history, "findHistory", "appendHistory")
           \/ ShotAppend
           \/ ShotFind(debug, "findDebug", "record")
           \/ ShotRecord \/ ShotCheckpoint
           \/ ShotFails

-----------------------------------------------------------------------------
Init ==
    /\ seat = "present" /\ readable = TRUE /\ rail \in Rails
    /\ energy = MaxEnergy /\ design \in Designs /\ boot = 1 /\ drained = 0
    /\ debug = Empty /\ history = Empty
    /\ debugSynced = Empty /\ historySynced = Empty
    /\ pc = "down"
    /\ tickCount = 0 /\ previous = None /\ batteryWasAbsent = FALSE
    /\ latched = FALSE /\ rearmed = TRUE
    /\ sample = None /\ count = None /\ alarm = None
    /\ boundary = None /\ found = None
    /\ shotPc = "none" /\ shot = None /\ shotFound = None

Next == Tick \/ Life \/ OneShot

Spec == Init /\ [][Next]_vars

-----------------------------------------------------------------------------
(***************************************************************************)
(* Properties.                                                             *)
(***************************************************************************)
Steps == {"down", "asleep", "prune", "trim", "sample", "adoptDebug",
          "adoptHistory", "record", "alert", "history", "append"}

ShotSteps == {"none", "findHistory", "appendHistory", "findDebug", "record",
              "checkpoint"}

IsTable(table) ==
    /\ DOMAIN table \subseteq Nat \ {0}
    /\ table \in [DOMAIN table -> Anchors]

WorldOK ==
    /\ seat \in {"present", "absent"} /\ readable \in BOOLEAN
    /\ rail \in Rails /\ energy \in 0 .. MaxEnergy /\ design \in Designs
    /\ boot \in Nat /\ drained \in Nat

TablesOK ==
    /\ IsTable(debug) /\ IsTable(history)
    /\ IsTable(debugSynced) /\ IsTable(historySynced)

DaemonOK ==
    /\ pc \in Steps
    /\ tickCount \in Nat
    /\ previous \in Anchors \cup {None}
    /\ batteryWasAbsent \in BOOLEAN /\ latched \in BOOLEAN
    /\ rearmed \in BOOLEAN
    /\ sample \in Samples \cup {None} /\ count \in Nat \cup {None}
    /\ alarm \in Alarms \cup {None} /\ boundary \in Nat \cup {None}
    /\ found \in Anchors \cup {None}

OneShotOK ==
    /\ shotPc \in ShotSteps
    /\ shot \in Samples \cup {None} /\ shotFound \in Anchors \cup {None}

\* Every variable has its type.
TypeOK == WorldOK /\ TablesOK /\ DaemonOK /\ OneShotOK

NeverFalls(table) ==
    \A i, j \in DOMAIN table : i < j => table[i].count <= table[j].count

\* The cycle count of the flight recorder never falls from a row to a later
\* one, whatever fails, dies or is lost in between (cycles.rs: the series can
\* only ever rise).
DebugSeriesNeverFalls == NeverFalls(debug)

\* The same of the permanent history.
HistorySeriesNeverFalls == NeverFalls(history)

\* The flight recorder never shows more wear than really went through a load:
\* no step counts a discharge twice, nor what was lost with the machine off or
\* the pack away.
NoPhantomWear == \A id \in DOMAIN debug : debug[id].count <= drained

\* The same of the permanent history.
HistoryNoPhantomWear == \A id \in DOMAIN history : history[id].count <= drained

\* Pruning only ever removes a row that RetentionRows newer ones follow, also
\* when another process inserts between its two statements.  Only a loss of
\* power takes any other.
PruneKeepsNewest ==
    [][\A id \in DOMAIN debug \ DOMAIN debug' :
          \/ boot' # boot
          \/ Cardinality({i \in DOMAIN debug : i > id}) >= RetentionRows]_debug

\* The flight recorder stays bounded across restarts: a retention window and
\* what one prune interval adds to it.
DebugBounded == Cardinality(DOMAIN debug) <= RetentionRows + PruneInterval

\* An alert that was announced is announced again only after a recorded reading
\* released it, the pack was away or the daemon was restarted: not because a
\* reading failed, a tick failed or the pack was unreadable for a while.
AnnouncedOnce == pc = "alert" /\ Announces => rearmed

Reached(table) == IF DOMAIN table = {} THEN 0 ELSE Latest(table).count

Meter == INSTANCE CycleMeter
            WITH wear <- Reached(debug), durable <- Reached(debugSynced)

\* The count of the flight recorder's newest row is such a meter: a refinement
\* of CycleMeter, across failed ticks, restarts and losses of power.
ImplementsCycleMeter == Meter!Spec
=============================================================================

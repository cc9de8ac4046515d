------------------------------ MODULE Startup ------------------------------
(***************************************************************************)
(* From exec to the first tick: the single-instance lock (src/src/lock.rs) *)
(* and the opening of both stores with their migrations                    *)
(* (src/src/migrations.rs, Store::open), by daemons that compete for the   *)
(* lock and by one-shots that take none (src/src/main.rs).                 *)
(*                                                                         *)
(* A schema check and the ALTER it guards are two steps, and every         *)
(* statement is one: a process may die, fail or be overtaken between any   *)
(* two of them.  A statement SQLite refuses ends the process, as ? does.   *)
(***************************************************************************)
EXTENDS Ladder

CONSTANTS
    Daemons,    \* daemon processes, started by systemd or by hand
    Service,    \* the one systemd restarts
    Shots,      \* one-shot processes
    MaxEnds,    \* bound: processes killed, or failed for want of disk
    MaxRows     \* bound: rows of the flight recorder

ASSUME ProcessAssumption ==
    /\ Daemons \cap Shots = {} /\ None \notin Daemons \cup Shots
    /\ Service \in Daemons
    /\ MaxEnds \in Nat /\ MaxRows \in Nat

Processes == Daemons \cup Shots

VARIABLES
    holder,     \* the process whose descriptor holds the flock
    pidFile,    \* the PID the lock file names
    pc,         \* where each process is
    at,         \* where in a ladder each migrating process is
    store,      \* the two databases
    ends,       \* how many processes were killed or failed
    overtaken   \* history variable: a table was dropped with other rows than counted

vars == <<holder, pidFile, pc, at, store, ends, overtaken>>

\* Past LockOutcome::acquire.
Inside == {"openDebug", "openHistorical", "migrating", "running"}
Steps == {"down", "opened", "locked", "truncated"} \cup Inside

-----------------------------------------------------------------------------
\* The process is gone, and its descriptors with it: the kernel drops the lock.
Exit(p) ==
    /\ pc' = [pc EXCEPT ![p] = "down"]
    /\ at' = [at EXCEPT ![p] = None]
    /\ holder' = IF holder = p THEN None ELSE holder

GoTo(p, step) == pc' = [pc EXCEPT ![p] = step]

\* Mutant: the file is truncated as it is opened.
LaunchTruncating(p) ==
    /\ pc[p] = "down"
    /\ GoTo(p, IF p \in Daemons THEN "opened" ELSE "openDebug")
    /\ pidFile' = IF p \in Daemons THEN None ELSE pidFile
    /\ UNCHANGED <<holder, at, store, ends, overtaken>>

\* acquire opens the file without truncating it; a one-shot skips the lock.
Launch(p) ==
    /\ pc[p] = "down"
    /\ GoTo(p, IF p \in Daemons THEN "opened" ELSE "openDebug")
    /\ UNCHANGED <<holder, pidFile, at, store, ends, overtaken>>

Flock(p) ==
    /\ pc[p] = "opened"
    /\ holder = None
    /\ holder' = p
    /\ GoTo(p, "locked")
    /\ UNCHANGED <<pidFile, at, store, ends, overtaken>>

\* WOULDBLOCK: the loser reads the file for its message, and exits.
Lose(p) ==
    /\ pc[p] = "opened"
    /\ holder # None
    /\ Exit(p)
    /\ UNCHANGED <<pidFile, store, ends, overtaken>>

Truncate(p) ==
    /\ pc[p] = "locked"
    /\ pidFile' = None
    /\ GoTo(p, "truncated")
    /\ UNCHANGED <<holder, at, store, ends, overtaken>>

\* Mutant: the handle is dropped once the PID is written.
WritePidUnheld(p) ==
    /\ pc[p] = "truncated"
    /\ pidFile' = p
    /\ holder' = None
    /\ GoTo(p, "openDebug")
    /\ UNCHANGED <<at, store, ends, overtaken>>

WritePid(p) ==
    /\ pc[p] = "truncated"
    /\ pidFile' = p
    /\ GoTo(p, "openDebug")
    /\ UNCHANGED <<holder, at, store, ends, overtaken>>

-----------------------------------------------------------------------------
\* stores: the flight recorder first.  migrate reads user_version once.
OpenStore(p, step, db) ==
    /\ pc[p] = step
    /\ GoTo(p, "migrating")
    /\ at' = [at EXCEPT ![p] =
                 [db |-> db, step |-> store[db].version + 1, statement |-> 1, plan |-> "none",
                  rows |-> 0]]
    /\ UNCHANGED <<holder, pidFile, store, ends, overtaken>>

Migrating(p) == pc[p] = "migrating" /\ at[p].step <= Len(Migrations[at[p].db])
Statements(p) == Migrations[at[p].db][at[p].step]
Statement(p) == Statements(p)[at[p].statement]
Database(p) == store[at[p].db]

Advance(p) ==
    at' = [at EXCEPT ![p].statement = @ + 1, ![p].plan = "none", ![p].rows = 0]
Plan(p, plan) == at' = [at EXCEPT ![p].plan = plan]
Rows(d) == IF HasTable(d, "samples") THEN Cardinality(d.tables["samples"].rows) ELSE 0
Write(p, d) == store' = [store EXCEPT ![at[p].db] = d]

\* A statement that runs at once, or finds what is to be done.
Look(p) ==
    LET s == Statement(p)
        d == Database(p)
    IN  /\ Migrating(p) /\ at[p].plan = "none"
        /\ at[p].statement <= Len(Statements(p))
        /\ \/ /\ s.op = "create"
              /\ Write(p, Created(d, s.columns)) /\ Advance(p)
              /\ UNCHANGED <<pc, holder>>
           \/ /\ s.op = "index" /\ HasTable(d, "samples")
              /\ Write(p, Indexed(d)) /\ Advance(p)
              /\ UNCHANGED <<pc, holder>>
           \/ /\ s.op = "index" /\ ~ HasTable(d, "samples")
              /\ Exit(p) /\ UNCHANGED store
           \/ /\ s.op = "reindex"
              /\ Write(p, IF HasTable(d, "samples") THEN Indexed(d) ELSE d)
              /\ Advance(p)
              /\ UNCHANGED <<pc, holder>>
           \/ /\ s.op \in {"add", "rename"}
              /\ IF Needed(d, s) THEN Plan(p, "alter") ELSE Advance(p)
              /\ UNCHANGED <<store, pc, holder>>
           \/ /\ s.op = "move"
              /\ IF MovePlan(d) = "none" THEN Advance(p)
                 ELSE at' = [at EXCEPT ![p].plan = MovePlan(d), ![p].rows = Rows(d)]
              /\ UNCHANGED <<store, pc, holder>>
        /\ UNCHANGED <<pidFile, ends, overtaken>>

\* What the database makes of a planned statement: an error if another process
\* has changed what the plan was made on, else its new contents and what is next.
Possible(p) ==
    LET s == Statement(p)
        d == Database(p)
    IN  CASE s.op = "add" -> HasTable(d, "samples") /\ ~ HasColumn(d, "samples", s.column)
          [] s.op = "rename" -> HasColumn(d, s.table, s.old) /\ ~ HasColumn(d, s.table, s.new)
          [] at[p].plan = "rename" -> /\ HasTable(d, "samples_debug")
                                      /\ ~ HasTable(d, "samples")
          [] at[p].plan = "drop" -> HasTable(d, "samples")
          [] at[p].plan = "merge" ->
                /\ HasTable(d, "samples") /\ HasTable(d, "samples_debug")
                /\ Cardinality(d.tables["samples"].columns)
                      = Cardinality(d.tables["samples_debug"].columns)
          [] at[p].plan = "dropOld" -> HasTable(d, "samples_debug")

Result(p) ==
    LET s == Statement(p)
        d == Database(p)
    IN  CASE s.op = "add" -> Added(d, s.column)
          [] s.op = "rename" -> Renamed(d, s.table, s.old, s.new)
          [] at[p].plan = "rename" -> Moved(d)
          [] at[p].plan = "drop" -> Dropped(d, "samples")
          [] at[p].plan = "merge" -> Merged(d)
          [] at[p].plan = "dropOld" -> Dropped(d, "samples_debug")

Act(p) ==
    /\ Migrating(p) /\ at[p].plan # "none"
    /\ \/ /\ Possible(p)
          /\ Write(p, Result(p))
          /\ overtaken' = (\/ overtaken
                           \/ at[p].plan = "drop" /\ Rows(Database(p)) # at[p].rows)
          /\ CASE at[p].plan = "drop" -> Plan(p, "rename")
               [] at[p].plan = "merge" -> Plan(p, "dropOld")
               [] OTHER -> Advance(p)
          /\ UNCHANGED <<pc, holder>>
       \/ /\ ~ Possible(p)
          /\ Exit(p)
          /\ UNCHANGED <<store, overtaken>>
    /\ UNCHANGED <<pidFile, ends>>

\* Mutant: the next step is recorded as well.
BumpBoth(p) ==
    /\ Migrating(p) /\ at[p].plan = "none"
    /\ at[p].statement = Len(Statements(p)) + 1
    /\ Write(p, [Database(p) EXCEPT !.version = at[p].step + 1])
    /\ at' = [at EXCEPT ![p].step = @ + 1, ![p].statement = 1]
    /\ UNCHANGED <<holder, pidFile, pc, ends, overtaken>>

\* The step is recorded, after its statements, by a statement of its own.
Bump(p) ==
    /\ Migrating(p) /\ at[p].plan = "none"
    /\ at[p].statement = Len(Statements(p)) + 1
    /\ Write(p, [Database(p) EXCEPT !.version = at[p].step])
    /\ at' = [at EXCEPT ![p].step = @ + 1, ![p].statement = 1]
    /\ UNCHANGED <<holder, pidFile, pc, ends, overtaken>>

Migrated(p) ==
    /\ pc[p] = "migrating" /\ ~ Migrating(p)
    /\ GoTo(p, IF at[p].db = "debug" THEN "openHistorical" ELSE "running")
    /\ at' = [at EXCEPT ![p] = None]
    /\ UNCHANGED <<holder, pidFile, store, ends, overtaken>>

\* A tick of the daemon, or the one row of a one-shot, which then exits.
Insert(p) ==
    LET d == store["debug"]
    IN  /\ pc[p] = "running"
        /\ IF Whole(d, "debug") /\ Cardinality(d.tables["samples"].rows) < MaxRows
           THEN store' = [store EXCEPT !["debug"].tables["samples"].rows =
                               @ \cup {Fresh(d.tables["samples"])}]
           ELSE UNCHANGED store
        /\ IF p \in Shots THEN Exit(p) ELSE UNCHANGED <<pc, at, holder>>
        /\ UNCHANGED <<pidFile, ends, overtaken>>

\* Killed, or refused by the disk or by a database that stays locked.
End(p) ==
    /\ pc[p] # "down"
    /\ ends < MaxEnds
    /\ ends' = ends + 1
    /\ Exit(p)
    /\ UNCHANGED <<pidFile, store, overtaken>>

Progress(p) ==
    \/ Flock(p) \/ Truncate(p) \/ WritePid(p) \/ Lose(p)
    \/ OpenStore(p, "openDebug", "debug")
    \/ OpenStore(p, "openHistorical", "historical")
    \/ Look(p) \/ Act(p) \/ Bump(p) \/ Migrated(p)

-----------------------------------------------------------------------------
(***************************************************************************)
(* The databases a start may find.                                         *)
(***************************************************************************)
Table(columns, ids, origin) ==
    [columns |-> columns, rows |-> {[id |-> i, origin |-> origin] : i \in ids}, index |-> FALSE]

Contents(version, samples, samples_debug) ==
    [ version |-> version,
      tables |-> [t \in TableNames |-> IF t = "samples" THEN samples ELSE samples_debug] ]

NoTables == Contents(0, None, None)

\* At the head of the ladders of the releases in the field.
FieldTable ==
    [Table(DebugColumns \cup {"power_state", "boot_id", "uptime_s"}, {1}, "samples")
        EXCEPT !.index = TRUE]

\* Before the columns, or the flight recorder's table, were renamed.
OldColumns == (DebugColumns \ NewNames) \cup OldNames
OldHistory == Contents(4, [Table(OldColumns, {1}, "samples") EXCEPT !.index = TRUE], None)

\* The flight recorder under its old name: alone, beside an empty table, beside
\* one that has rows.
OldRecorder == Contents(0, None, Table(OldColumns, {1, 2}, "samples_debug"))

Beside(ids) == Contents(2, Table(DebugColumns, ids, "samples"),
                        Table(DebugColumns, {1, 2}, "samples_debug"))

Stores(debug, historical) ==
    [db \in Databases |-> IF db = "debug" THEN debug ELSE historical]

FieldHistory == Contents(7, FieldTable, None)

Found ==
    { Stores(NoTables, NoTables),
      Stores(OldRecorder, OldHistory),
      Stores(Contents(5, FieldTable, None), FieldHistory),
      Stores(Beside({}), FieldHistory),
      Stores(Beside({2, 3}), FieldHistory) }

Init ==
    /\ holder = None /\ pidFile = None
    /\ pc = [p \in Processes |-> "down"] /\ at = [p \in Processes |-> None]
    /\ store \in Found
    /\ ends = 0 /\ overtaken = FALSE

Next ==
    \E p \in Processes : Launch(p) \/ Progress(p) \/ Insert(p) \/ End(p)

\* The kernel runs every process.  systemd starts the service again whenever it
\* ends in an error (Restart=on-failure); nobody has to start anything else.
Fairness ==
    /\ \A p \in Processes : WF_vars(Progress(p))
    /\ WF_vars(Launch(Service))

Spec == Init /\ [][Next]_vars /\ Fairness

-----------------------------------------------------------------------------
Plans == {"none", "alter", "rename", "drop", "merge", "dropOld"}

\* Where the processes are, and what they hold there.
TypeOK ==
    /\ holder \in Daemons \cup {None} /\ pidFile \in Daemons \cup {None}
    /\ pc \in [Processes -> Steps]
    /\ \A p \in Processes :
          IF pc[p] # "migrating" THEN at[p] = None
          ELSE /\ at[p].db \in Databases /\ at[p].plan \in Plans
               /\ at[p].step \in 1 .. Len(Migrations[at[p].db]) + 1
    /\ \A db \in Databases : store[db].version \in 0 .. Len(Migrations[db])
    /\ ends \in 0 .. MaxEnds /\ overtaken \in BOOLEAN

\* Of the daemons, at most one is past acquire, and it holds the lock, whoever
\* was killed, failed or started again in between (lock.rs: "Prevents multiple
\* batmon daemon instances from running concurrently").
OneDaemon == \A d, e \in Daemons : pc[d] \in Inside /\ pc[e] \in Inside => d = e

\* While a daemon is past acquire the file names it, whoever else opens it: a
\* loser that reads it then reports the right PID.
PidStands == \A d \in Daemons : pc[d] \in Inside => pidFile = d

\* user_version never records a step whose columns, names or tables are not all
\* there: at no point between two statements, with no process running, and
\* with two of them migrating (migrate: "leaves the completed steps applied and
\* recorded").  The exception is overtaken.
VersionIsEarned ==
    overtaken \/ \A db \in Databases : HoldsUpTo(store[db], db, store[db].version)

RowsOf(d) == UNION {d.tables[t].rows : t \in {t \in TableNames : HasTable(d, t)}}

\* No statement of the ladder loses a row, alone or between two of another
\* process: only one whose id the destination of the merge has a row for goes,
\* and the destination's stays (rename_table_if_exists: "keeps whichever rows
\* the destination already had").  The exception is overtaken.
RowsSurvive ==
    [][overtaken' \/ \A r \in RowsOf(store["debug"]) : \E k \in RowsOf(store'["debug"]) :
          k.id = r.id /\ (r.origin # "samples_debug" => k = r)]_store

\* Whatever was interrupted, and whoever else migrated, some daemon ends up
\* running on two databases with every column and index.
Served ==
    <>[](\/ overtaken
         \/ /\ \E d \in Daemons : pc[d] = "running"
            /\ \A db \in Databases : Whole(store[db], db))
=============================================================================

--------------------------- MODULE StartupProofs ---------------------------
(***************************************************************************)
(* Mutual exclusion of daemons, and what the migrations record and keep,   *)
(* for any number of processes, restarts and failures, whatever databases  *)
(* they find.                                                              *)
(***************************************************************************)
EXTENDS Startup, LadderProofs, Induction

\* Where a daemon has the flock.
Holding == Inside \cup {"locked", "truncated"}

\* The lock is held from flock to the end of the process, and the file names
\* its holder from the moment acquire returns.  One-shots never come near it.
LockInv ==
    /\ pc \in [Processes -> Steps]
    /\ \A p \in Shots : pc[p] \in Inside \cup {"down"}
    /\ \A d \in Daemons : pc[d] \in Holding => holder = d
    /\ \A d \in Daemons : pc[d] \in Inside => pidFile = d

LEMMA LockInit == Init => LockInv
  BY ProcessAssumption DEF Init, LockInv, Processes, Steps, Holding, Inside

\* A process that goes on without touching the lock, or ends.
LEMMA LockKept ==
    ASSUME LockInv, NEW p \in Processes, UNCHANGED pidFile,
           \/ Exit(p)
           \/ UNCHANGED <<pc, holder>>
           \/ /\ pc[p] \in Inside /\ UNCHANGED holder
              /\ \E step \in Inside : GoTo(p, step)
    PROVE  LockInv'
  <1>1. CASE Exit(p)
    BY <1>1, ProcessAssumption DEF LockInv, Exit, Processes, Steps, Holding, Inside
  <1>2. CASE UNCHANGED <<pc, holder>>
    BY <1>2 DEF LockInv
  <1>3. CASE /\ pc[p] \in Inside /\ UNCHANGED holder
             /\ \E step \in Inside : GoTo(p, step)
    BY <1>3 DEF LockInv, GoTo, Steps, Holding, Inside
  <1> QED  BY <1>1, <1>2, <1>3

LEMMA LockStep == ASSUME LockInv, [Next]_vars PROVE LockInv'
  <1>1. CASE UNCHANGED vars
    BY <1>1 DEF LockInv, vars
  <1>2. ASSUME NEW p \in Processes, Launch(p) PROVE LockInv'
    BY <1>2, ProcessAssumption
       DEF LockInv, Launch, GoTo, Processes, Steps, Holding, Inside
  <1>3. ASSUME NEW p \in Processes, Flock(p) PROVE LockInv'
    BY <1>3, ProcessAssumption
       DEF LockInv, Flock, GoTo, Processes, Steps, Holding, Inside
  <1>4. ASSUME NEW p \in Processes, Truncate(p) PROVE LockInv'
    <2>1. \A d \in Daemons : pc[d] \in Inside => d = p
      BY <1>4, ProcessAssumption DEF LockInv, Truncate, Processes, Holding, Inside, Steps
    <2> QED
      BY <1>4, <2>1 DEF LockInv, Truncate, GoTo, Processes, Steps, Holding, Inside
  <1>5. ASSUME NEW p \in Processes, WritePid(p) PROVE LockInv'
    BY <1>5, ProcessAssumption DEF LockInv, WritePid, GoTo, Processes, Steps, Holding, Inside
  <1>6. ASSUME NEW p \in Processes,
               \/ Lose(p) \/ Look(p) \/ Act(p) \/ Bump(p) \/ Insert(p) \/ End(p)
        PROVE  LockInv'
    <2>1. UNCHANGED pidFile /\ (Exit(p) \/ UNCHANGED <<pc, holder>>)
      BY <1>6 DEF Lose, Look, Act, Bump, Insert, End
    <2> QED  BY <2>1, LockKept
  <1>7. ASSUME NEW p \in Processes,
               \/ OpenStore(p, "openDebug", "debug")
               \/ OpenStore(p, "openHistorical", "historical")
               \/ Migrated(p)
        PROVE  LockInv'
    <2>1. /\ UNCHANGED <<pidFile, holder>> /\ pc[p] \in Inside
          /\ \E step \in Inside : GoTo(p, step)
      BY <1>7 DEF OpenStore, Migrated, Inside
    <2> QED  BY <2>1, LockKept
  <1> QED
    BY <1>1, <1>2, <1>3, <1>4, <1>5, <1>6, <1>7 DEF Next, Progress

LEMMA LockInvariant == Spec => []LockInv
  <1> QED  BY LockInit, LockStep, PTL DEF Spec

\* At most one daemon is past acquire at any time (lock.rs: "Prevents multiple
\* batmon daemon instances from running concurrently"), for any number of
\* daemons and one-shots.
THEOREM LockExcludes == Spec => []OneDaemon
  <1>1. LockInv => OneDaemon
    BY DEF LockInv, OneDaemon, Holding
  <1> QED  BY <1>1, LockInvariant, PTL

\* The lock file names the daemon that is past acquire, whoever else tried.
THEOREM FileNamesHolder == Spec => []PidStands
  <1>1. LockInv => PidStands
    BY DEF LockInv, PidStands
  <1> QED  BY <1>1, LockInvariant, PTL

-----------------------------------------------------------------------------
(***************************************************************************)
(* Without a one-shot, a daemon that counted the rows of the table it is   *)
(* about to drop drops just those.                                         *)
(***************************************************************************)
Alone == Shots = {}

Fields == {"db", "step", "statement", "plan", "rows"}

CountInv ==
    /\ overtaken = FALSE
    /\ DOMAIN at = Processes
    /\ \A p \in Processes : pc[p] = "migrating" => DOMAIN at[p] = Fields
    /\ \A d \in Daemons :
          pc[d] = "migrating" /\ at[d].plan = "drop" => Rows(Database(d)) = at[d].rows

LEMMA CountInit == Init => CountInv
  BY DEF Init, CountInv, Processes

\* Steps of a process before it is inside touch neither at nor the databases.
LEMMA CountOutside ==
    ASSUME CountInv, NEW p \in Processes, pc \in [Processes -> Steps],
           UNCHANGED <<at, store, overtaken>>,
           \E step \in Steps \ {"migrating"} : GoTo(p, step)
    PROVE  CountInv'
  BY DEF CountInv, GoTo, Rows, Database, Processes, Steps, HasTable

\* A process that ends leaves the others where they are.
LEMMA CountExit ==
    ASSUME CountInv, NEW p \in Processes, pc \in [Processes -> Steps],
           UNCHANGED <<store, overtaken>>, Exit(p)
    PROVE  CountInv'
  BY DEF CountInv, Exit, Rows, Database, Processes, Steps, HasTable

\* A step of the only daemon inside.
LEMMA CountInside ==
    ASSUME CountInv, LockInv, Alone, NEW p \in Processes, pc[p] \in Inside,
           UNCHANGED overtaken,
           DOMAIN at' = Processes, \A q \in Processes \ {p} : at'[q] = at[q],
           \/ UNCHANGED pc
           \/ \E step \in Steps : GoTo(p, step),
           pc'[p] = "migrating" => DOMAIN at'[p] = Fields,
           pc'[p] = "migrating" /\ at'[p].plan = "drop"
               => Rows(store'[at'[p].db]) = at'[p].rows
    PROVE  CountInv'
  <1>1. p \in Daemons /\ \A d \in Daemons : pc[d] \in Inside => d = p
    BY DEF LockInv, Alone, Processes, Holding, Inside
  <1>2. \A d \in Daemons : pc'[d] = "migrating" => d = p
    BY <1>1 DEF LockInv, GoTo, Processes, Inside
  <1> QED
    BY <1>1, <1>2 DEF CountInv, LockInv, GoTo, Rows, Database, HasTable

LEMMA CountStep ==
    ASSUME Alone, LockInv, CountInv, [Next]_vars PROVE CountInv'
  <1> USE DEF LockInv
  <1>1. CASE UNCHANGED vars
    BY <1>1 DEF CountInv, vars, Rows, Database, HasTable
  <1>2. ASSUME NEW p \in Processes,
               Launch(p) \/ Flock(p) \/ Truncate(p) \/ WritePid(p)
        PROVE  CountInv'
    <2>1. /\ UNCHANGED <<at, store, overtaken>>
          /\ \E step \in Steps \ {"migrating"} : GoTo(p, step)
      BY <1>2 DEF Launch, Flock, Truncate, WritePid, Steps, Inside
    <2> QED  BY <2>1, CountOutside
  <1>3. ASSUME NEW p \in Processes, Lose(p) \/ End(p) PROVE CountInv'
    BY <1>3, CountExit DEF Lose, End
  <1>4. ASSUME NEW p \in Processes,
               \/ OpenStore(p, "openDebug", "debug")
               \/ OpenStore(p, "openHistorical", "historical")
        PROVE  CountInv'
    <2>1. pc[p] \in Inside /\ UNCHANGED overtaken /\ GoTo(p, "migrating")
      BY <1>4 DEF OpenStore, Inside
    <2>2. /\ DOMAIN at' = Processes /\ at'[p].plan = "none" /\ DOMAIN at'[p] = Fields
          /\ \A q \in Processes \ {p} : at'[q] = at[q]
      BY <1>4 DEF OpenStore, CountInv, Fields
    <2> QED  BY <2>1, <2>2, CountInside DEF Steps, Inside
  <1>5. ASSUME NEW p \in Processes, Look(p) PROVE CountInv'
    <2>1. pc[p] \in Inside /\ UNCHANGED overtaken /\ DOMAIN at[p] = Fields
      BY <1>5 DEF Look, Migrating, Inside, CountInv
    <2>2. CASE Exit(p) /\ UNCHANGED store
      BY <2>1, <2>2, CountExit
    <2>3. CASE Advance(p) /\ UNCHANGED pc
      <3>1. /\ DOMAIN at' = Processes /\ \A q \in Processes \ {p} : at'[q] = at[q]
            /\ at'[p].plan # "drop" /\ DOMAIN at'[p] = Fields
        BY <2>1, <2>3 DEF Advance, CountInv, Fields
      <3> QED  BY <2>1, <2>3, <3>1, CountInside
    <2>4. CASE Plan(p, "alter") /\ UNCHANGED pc
      <3>1. /\ DOMAIN at' = Processes /\ \A q \in Processes \ {p} : at'[q] = at[q]
            /\ at'[p].plan # "drop" /\ DOMAIN at'[p] = Fields
        BY <2>1, <2>4 DEF Plan, CountInv, Fields
      <3> QED  BY <2>1, <2>4, <3>1, CountInside
    <2>5. CASE /\ at' = [at EXCEPT ![p].plan = MovePlan(Database(p)),
                                   ![p].rows = Rows(Database(p))]
               /\ UNCHANGED <<store, pc>>
      <3>1. /\ DOMAIN at' = Processes /\ \A q \in Processes \ {p} : at'[q] = at[q]
            /\ DOMAIN at'[p] = Fields
        BY <2>1, <2>5 DEF CountInv, Fields
      <3>2. at'[p].db = at[p].db /\ at'[p].rows = Rows(store[at[p].db])
        BY <2>1, <2>5 DEF CountInv, Database, Fields
      <3>3. Rows(store'[at'[p].db]) = at'[p].rows
        BY <2>5, <3>2 DEF Rows, HasTable
      <3> QED  BY <2>1, <2>5, <3>1, <3>3, CountInside
    <2> QED
      BY <1>5, <2>2, <2>3, <2>4, <2>5 DEF Look
  <1>6. ASSUME NEW p \in Processes, Act(p) PROVE CountInv'
    <2>1. pc[p] \in Inside /\ pc[p] = "migrating" /\ DOMAIN at[p] = Fields
      BY <1>6 DEF Act, Migrating, Inside, CountInv
    <2>2. CASE Exit(p) /\ UNCHANGED <<store, overtaken>>
      BY <2>2, CountExit
    <2>3. CASE /\ UNCHANGED pc
               /\ overtaken' = (overtaken \/ (/\ at[p].plan = "drop"
                                             /\ Rows(Database(p)) # at[p].rows))
               /\ Plan(p, "rename") \/ Plan(p, "dropOld") \/ Advance(p)
      <3>1. /\ DOMAIN at' = Processes /\ \A q \in Processes \ {p} : at'[q] = at[q]
            /\ at'[p].plan # "drop" /\ DOMAIN at'[p] = Fields
        BY <2>1, <2>3 DEF Plan, Advance, CountInv, Fields
      <3>2. overtaken' = overtaken
        BY <2>1, <2>3 DEF CountInv, Alone, Processes
      <3> QED  BY <2>1, <2>3, <3>1, <3>2, CountInside
    <2> QED
      BY <1>6, <2>2, <2>3 DEF Act
  <1>7. ASSUME NEW p \in Processes, Bump(p) PROVE CountInv'
    <2>1. pc[p] \in Inside /\ UNCHANGED <<pc, overtaken>> /\ DOMAIN at[p] = Fields
          /\ at[p].plan = "none"
      BY <1>7 DEF Bump, Migrating, Inside, CountInv
    <2>2. /\ DOMAIN at' = Processes /\ \A q \in Processes \ {p} : at'[q] = at[q]
          /\ at'[p].plan = "none" /\ DOMAIN at'[p] = Fields
      BY <1>7, <2>1 DEF Bump, CountInv, Fields
    <2> QED  BY <2>1, <2>2, CountInside
  <1>8. ASSUME NEW p \in Processes, Migrated(p) PROVE CountInv'
    <2>1. /\ pc[p] \in Inside /\ UNCHANGED <<overtaken, store>>
          /\ \E step \in Steps \ {"migrating"} : GoTo(p, step)
      BY <1>8 DEF Migrated, Inside, Steps
    <2>2. /\ DOMAIN at' = Processes /\ \A q \in Processes \ {p} : at'[q] = at[q]
      BY <1>8 DEF Migrated, CountInv
    <2>3. pc'[p] # "migrating"
      BY <2>1 DEF GoTo
    <2> QED  BY <2>1, <2>2, <2>3, CountInside
  <1>9. ASSUME NEW p \in Processes, Insert(p) PROVE CountInv'
    <2>1. pc[p] \in Inside /\ p \notin Shots /\ UNCHANGED <<pc, at, overtaken>>
      BY <1>9 DEF Insert, Inside, Alone
    <2>2. pc'[p] # "migrating"
      BY <1>9, <2>1 DEF Insert
    <2> QED  BY <2>1, <2>2, CountInside DEF CountInv
  <1> QED
    BY <1>1, <1>2, <1>3, <1>4, <1>5, <1>6, <1>7, <1>8, <1>9 DEF Next, Progress

\* The exception of VersionIsEarned, RowsSurvive and Served needs a one-shot:
\* daemons alone, however many are started, killed and started again, never
\* drop a table that has rows they did not count.
THEOREM DaemonsNeverOvertake == ASSUME Alone PROVE Spec => []~ overtaken
  <1>1. Init => CountInv
    BY CountInit
  <1>2. LockInv /\ CountInv /\ [Next]_vars => CountInv'
    BY CountStep
  <1>3. CountInv => ~ overtaken
    BY DEF CountInv
  <1> QED  BY <1>1, <1>2, <1>3, LockInvariant, PTL DEF Spec

-----------------------------------------------------------------------------
(***************************************************************************)
(* The migrations, by any number of daemons and one-shots at once.  What a *)
(* process has behind it in a ladder, and what it planned, the database it *)
(* works on keeps, whatever the others do to it in between.                *)
(***************************************************************************)
IsPlace(a) ==
    /\ a \in [db : Databases, step : Nat, statement : Nat, plan : Plans, rows : Nat]
    /\ a.step \in 1 .. Len(Migrations[a.db]) + 1 /\ a.statement >= 1
    /\ a.step <= Len(Migrations[a.db]) => a.statement <= Len(Migrations[a.db][a.step]) + 1
    /\ a.plan # "none" =>
          /\ a.step <= Len(Migrations[a.db]) /\ a.statement <= Len(Migrations[a.db][a.step])
          /\ Migrations[a.db][a.step][a.statement].op
                \in (IF a.plan = "alter" THEN {"add", "rename"} ELSE {"move"})

Reached(a, d) == Reaches(d, a.db, a.step, a.statement) /\ Planned(a, d)

SchemaInv ==
    /\ pc \in [Processes -> Steps] /\ DOMAIN at = Processes /\ at = [p \in Processes |-> at[p]]
    /\ \A p \in Processes : IF pc[p] # "migrating" THEN at[p] = None ELSE IsPlace(at[p])
    /\ store = [db \in Databases |-> store[db]]
    /\ \A db \in Databases :
          DatabaseInv(store[db], db) /\ store[db].version <= Len(Migrations[db])
    /\ overtaken \in BOOLEAN
    /\ ~ overtaken =>
          /\ \A db \in Databases : Reaches(store[db], db, store[db].version + 1, 1)
          /\ \A p \in Processes : pc[p] = "migrating" => Reached(at[p], Database(p))

\* Database db becomes e, and process p comes to step, with b for its place.
Changes(p, db, e, step, b) ==
    /\ store' = [store EXCEPT ![db] = e]
    /\ DatabaseInv(e, db) /\ e.version <= Len(Migrations[db])
    /\ overtaken' \in BOOLEAN /\ (overtaken => overtaken')
    /\ ~ overtaken' =>
          /\ Follows(store[db], e) /\ RowsKept(store[db], e)
          /\ Reaches(e, db, e.version + 1, 1)
    /\ pc' = [pc EXCEPT ![p] = step] /\ at' = [at EXCEPT ![p] = b]
    /\ IF step # "migrating" THEN b = None
       ELSE IsPlace(b) /\ (~ overtaken' => Reached(b, store'[b.db]))

Kept ==
    /\ SchemaInv'
    /\ ~ overtaken' => \A db \in Databases : RowsKept(store[db], store'[db])

LEMMA ReachedFollows ==
    ASSUME NEW a, IsPlace(a), NEW d, DatabaseInv(d, a.db), NEW e, DatabaseInv(e, a.db),
           Follows(d, e), Reached(a, d)
    PROVE  Reached(a, e)
  BY ReachesFollows, PlannedFollows DEF IsPlace, Reached

LEMMA ChangesKeep ==
    ASSUME SchemaInv, NEW p \in Processes, NEW db \in Databases, NEW e, NEW step \in Steps, NEW b,
           Changes(p, db, e, step, b)
    PROVE  Kept
<1>1. /\ store'[db] = e /\ \A other \in Databases \ {db} : store'[other] = store[other]
      /\ store' = [other \in Databases |-> store'[other]]
  BY DEF SchemaInv, Changes
<1>2. /\ pc' \in [Processes -> Steps] /\ DOMAIN at' = Processes
      /\ at' = [q \in Processes |-> at'[q]]
      /\ pc'[p] = step /\ at'[p] = b
      /\ \A q \in Processes \ {p} : pc'[q] = pc[q] /\ at'[q] = at[q]
  BY DEF SchemaInv, Changes
<1>3. \A q \in Processes : IF pc'[q] # "migrating" THEN at'[q] = None ELSE IsPlace(at'[q])
  BY <1>2 DEF SchemaInv, Changes
<1>4. \A other \in Databases :
          DatabaseInv(store'[other], other) /\ store'[other].version <= Len(Migrations[other])
  BY <1>1 DEF SchemaInv, Changes
<1>5. ASSUME ~ overtaken', NEW other \in Databases
      PROVE  /\ Reaches(store'[other], other, store'[other].version + 1, 1)
             /\ other # db => store'[other] = store[other]
             /\ RowsKept(store[other], store'[other])
  <2>1. CASE other = db
    BY <1>1, <1>5, <2>1 DEF Changes
  <2>2. CASE other # db
    <3>1. RowsKept(store[other], store[other])
      BY DEF RowsKept
    <3> QED
      BY <1>1, <1>5, <2>2, <3>1 DEF SchemaInv, Changes
  <2> QED
    BY <2>1, <2>2
<1>6. ASSUME ~ overtaken', NEW q \in Processes, pc'[q] = "migrating"
      PROVE  Reached(at'[q], store'[at'[q].db])
  <2>1. CASE q = p
    BY <1>2, <1>6, <2>1 DEF Changes
  <2>2. CASE q # p
    <3>1. /\ pc[q] = "migrating" /\ at'[q] = at[q] /\ IsPlace(at[q]) /\ at[q].db \in Databases
          /\ Reached(at[q], store[at[q].db]) /\ DatabaseInv(store[at[q].db], at[q].db)
      BY <1>2, <1>6, <2>2 DEF SchemaInv, Changes, Database, IsPlace
    <3>2. CASE at[q].db = db
      BY <1>1, <1>6, <3>1, <3>2, ReachedFollows DEF Changes
    <3>3. CASE at[q].db # db
      BY <1>1, <3>1, <3>3
    <3> QED
      BY <3>2, <3>3
  <2> QED
    BY <2>1, <2>2
<1>7. overtaken' \in BOOLEAN
  BY DEF Changes
<1> QED
  BY <1>1, <1>2, <1>3, <1>4, <1>5, <1>6, <1>7 DEF SchemaInv, Kept, Database

LEMMA SameKept ==
    ASSUME NEW db, NEW d, DatabaseInv(d, db)
    PROVE  Follows(d, d) /\ RowsKept(d, d)
  BY SameTables DEF DatabaseInv, IsDatabase

\* A process that is not migrating afterwards, and changes no database.
LEMMA LeavesKeep ==
    ASSUME SchemaInv, NEW p \in Processes, UNCHANGED <<store, overtaken>>,
           \E step \in Steps \ {"migrating"} : GoTo(p, step),
           at' = [at EXCEPT ![p] = None] \/ (UNCHANGED at /\ pc[p] # "migrating")
    PROVE  Kept
<1>1. PICK step \in Steps \ {"migrating"} : GoTo(p, step)
  OBVIOUS
<1> DEFINE d == store["debug"]
<1>2. /\ DatabaseInv(d, "debug") /\ d.version <= Len(Migrations["debug"])
      /\ store' = [store EXCEPT !["debug"] = d] /\ overtaken' \in BOOLEAN
      /\ ~ overtaken' => Reaches(d, "debug", d.version + 1, 1)
  BY DEF SchemaInv, Databases
<1>3. Follows(d, d) /\ RowsKept(d, d)
  BY <1>2, SameKept
<1>4. at' = [at EXCEPT ![p] = None]
  BY DEF SchemaInv
<1>5. Changes(p, "debug", d, step, None)
  <2> HIDE DEF d
  <2> QED
    BY <1>1, <1>2, <1>3, <1>4 DEF Changes, GoTo, d
<1> QED
  BY <1>5, ChangesKeep DEF Databases

\* A step of a migrating process: its database becomes e.
Works(p, e) ==
    /\ Write(p, e) /\ UNCHANGED pc
    /\ DatabaseInv(e, at[p].db) /\ e.version = Database(p).version
    /\ overtaken' \in BOOLEAN /\ (overtaken => overtaken')
    /\ ~ overtaken' => Follows(Database(p), e) /\ RowsKept(Database(p), e)

LEMMA PlaceFacts ==
    ASSUME SchemaInv, NEW p \in Processes, pc[p] = "migrating"
    PROVE  /\ IsPlace(at[p]) /\ at[p].db \in Databases
           /\ at[p].step \in Nat /\ at[p].statement \in Nat
           /\ DatabaseInv(Database(p), at[p].db) /\ Database(p).version \in Nat
           /\ Database(p).version <= Len(Migrations[at[p].db])
           /\ ~ overtaken => Reached(at[p], Database(p))
  BY DEF SchemaInv, IsPlace, Database, DatabaseInv, IsDatabase

LEMMA WorksReach ==
    ASSUME SchemaInv, NEW p \in Processes, pc[p] = "migrating", NEW e, Works(p, e), ~ overtaken'
    PROVE  /\ Reaches(e, at[p].db, e.version + 1, 1)
           /\ Reaches(e, at[p].db, at[p].step, at[p].statement)
<1> DEFINE d == Database(p)
           db == at[p].db
<1>1. /\ db \in Databases /\ at[p].step \in Nat /\ at[p].statement \in Nat /\ d.version \in Nat
      /\ DatabaseInv(d, db) /\ DatabaseInv(e, db) /\ Follows(d, e) /\ e.version = d.version
      /\ Reaches(d, db, d.version + 1, 1) /\ Reaches(d, db, at[p].step, at[p].statement)
  BY PlaceFacts DEF Works, SchemaInv, Database, Reached
<1> HIDE DEF d, db
<1>2. d.version + 1 \in Nat
  BY <1>1
<1>3. Reaches(e, db, d.version + 1, 1)
  BY <1>1, <1>2, ReachesFollows
<1>4. Reaches(e, db, at[p].step, at[p].statement)
  BY <1>1, ReachesFollows
<1> QED
  BY <1>1, <1>3, <1>4 DEF db

\* The process goes to the place b.
LEMMA WorksKeep ==
    ASSUME SchemaInv, NEW p \in Processes, pc[p] = "migrating", NEW e, Works(p, e),
           NEW b, at' = [at EXCEPT ![p] = b], b.db = at[p].db, IsPlace(b),
           ~ overtaken' => Reached(b, e)
    PROVE  Kept
<1>1. store'[at[p].db] = e /\ at[p].db \in Databases /\ Database(p) = store[at[p].db]
  BY PlaceFacts DEF Works, Write, SchemaInv, Database
<1>2. Changes(p, at[p].db, e, "migrating", b)
  <2>1. pc' = [pc EXCEPT ![p] = "migrating"]
    BY DEF Works, SchemaInv
  <2>2. ~ overtaken' => Reaches(e, at[p].db, e.version + 1, 1)
    BY WorksReach
  <2>3. e.version <= Len(Migrations[at[p].db])
    BY PlaceFacts DEF Works
  <2> QED
    BY <1>1, <2>1, <2>2, <2>3 DEF Works, Write, Changes
<1> QED
  BY <1>1, <1>2, ChangesKeep DEF Steps, Inside

LEMMA StatementFacts ==
    ASSUME SchemaInv, NEW p \in Processes, Migrating(p), at[p].statement <= Len(Statements(p))
    PROVE  LET a == at[p]
           IN  /\ pc[p] = "migrating" /\ IsPlace(a) /\ a.db \in Databases
               /\ a.step \in DOMAIN Migrations[a.db] /\ a.step \in Nat
               /\ a.statement \in DOMAIN Migrations[a.db][a.step] /\ a.statement \in Nat
               /\ a.statement <= Len(Migrations[a.db][a.step])
               /\ Statement(p) = Migrations[a.db][a.step][a.statement]
               /\ IsStatement(Statement(p), a.db, a.step, a.statement)
<1> DEFINE a == at[p]
<1>1. pc[p] = "migrating" /\ IsPlace(a) /\ a.step <= Len(Migrations[a.db]) /\ a.db \in Databases
      /\ a.statement <= Len(Migrations[a.db][a.step])
  BY PlaceFacts DEF Migrating, Statements
<1>2. a.step \in 1 .. Len(Migrations[a.db]) /\ a.statement \in Nat /\ a.statement >= 1
  BY <1>1, LadderStatements DEF IsPlace
<1>3. a.step \in DOMAIN Migrations[a.db]
  BY <1>1, <1>2, LadderStatements
<1>4. a.statement \in DOMAIN Migrations[a.db][a.step]
  <2>1. IsStep(Migrations[a.db][a.step])
    BY <1>1, <1>3, StatementsAreSequences
  <2> QED
    BY <1>1, <1>2, <2>1 DEF IsStep
<1>5. Statement(p) = Migrations[a.db][a.step][a.statement]
  BY DEF Statement, Statements
<1>6. IsStatement(Statement(p), a.db, a.step, a.statement)
  BY <1>1, <1>3, <1>4, <1>5, LadderStatements
<1> QED
  BY <1>1, <1>2, <1>3, <1>4, <1>5, <1>6

\* It goes on to the next statement.
LEMMA AdvanceKeeps ==
    ASSUME SchemaInv, NEW p \in Processes, Migrating(p),
           at[p].statement <= Len(Statements(p)), NEW e, Works(p, e), Advance(p),
           ~ overtaken' =>
               /\ Left(e, Statement(p))
               /\ Statement(p).op = "create" => HasTable(e, "samples")
               /\ Statement(p).op = "reindex" /\ HasTable(e, "samples") => e.tables["samples"].index
    PROVE  Kept
<1> DEFINE a == at[p]
           b == [a EXCEPT !.statement = @ + 1, !.plan = "none", !.rows = 0]
<1>1. /\ pc[p] = "migrating" /\ IsPlace(a) /\ a.db \in Databases /\ a.step \in DOMAIN Migrations[a.db]
      /\ a.statement \in DOMAIN Migrations[a.db][a.step] /\ a.statement \in Nat /\ a.step \in Nat
      /\ a.statement <= Len(Migrations[a.db][a.step])
  BY StatementFacts
<1>2. at' = [at EXCEPT ![p] = b]
  BY DEF Advance, SchemaInv
<1>3. /\ b.db = a.db /\ b.step = a.step /\ b.statement = a.statement + 1 /\ b.plan = "none"
      /\ b \in [db : Databases, step : Nat, statement : Nat, plan : Plans, rows : Nat]
  <2>1. a \in [db : Databases, step : Nat, statement : Nat, plan : Plans, rows : Nat]
    BY <1>1 DEF IsPlace
  <2> HIDE DEF a
  <2> DEFINE Kind == [db : Databases, step : Nat, statement : Nat, plan : Plans, rows : Nat]
             c == [a EXCEPT !.statement = @ + 1]
             f == [c EXCEPT !.plan = "none"]
  <2>2. c \in Kind /\ c.db = a.db /\ c.step = a.step /\ c.statement = a.statement + 1
    BY <1>1, <2>1
  <2>3. f \in Kind /\ f.db = a.db /\ f.step = a.step /\ f.statement = a.statement + 1
        /\ f.plan = "none"
    <3> HIDE DEF c
    <3> QED
      BY <2>2 DEF Plans
  <2>4. b = [f EXCEPT !.rows = 0]
    BY <2>1
  <2> HIDE DEF b, f
  <2> QED
    BY <2>3, <2>4
<1>4. IsPlace(b)
  <2> HIDE DEF b
  <2> QED
    BY <1>1, <1>3 DEF IsPlace
<1>5. ASSUME ~ overtaken' PROVE Reached(b, e)
  <2>1. Reaches(e, a.db, a.step, a.statement)
    BY <1>1, <1>5, WorksReach
  <2>2. Statement(p) = Migrations[a.db][a.step][a.statement]
    BY DEF Statement, Statements
  <2>3. HasTable(e, "samples") \/ HasTable(e, "samples_debug")
    <3>1. CASE a.step = 1 /\ a.statement = 1
      BY <1>1, <1>5, <2>2, <3>1, NamedStatements
    <3>2. CASE ~ (a.step = 1 /\ a.statement = 1)
      <4>1. Before(1, 1, a.step, a.statement)
        BY <1>1, <3>2 DEF IsPlace, Before
      <4> QED
        BY <2>1, <4>1 DEF Reaches
    <3> QED
      BY <3>1, <3>2
  <2>4. ASSUME a.db = "debug", a.step = 3, a.statement = 2
        PROVE  e.tables["samples"].index
    <3>1. Statement(p).op = "reindex"
      BY <2>2, <2>4, NamedStatements DEF Reindex
    <3>2. HasTable(e, "samples")
      <4>1. Reaches(e, "debug", 3, 2) /\ Before(3, 1, 3, 2)
        BY <2>1, <2>4 DEF Before
      <4> QED
        BY <4>1, MovedStays
    <3> QED
      BY <1>5, <3>1, <3>2
  <2>5. Reaches(e, a.db, a.step, a.statement + 1)
    <3> HIDE DEF a
    <3> QED
      BY <1>1, <1>5, <2>1, <2>2, <2>3, <2>4, ReachesNext
  <2> QED
    BY <1>3, <2>5 DEF Reached, Planned
<1> QED
  <2> HIDE DEF b
  <2> QED
    BY <1>1, <1>2, <1>3, <1>4, <1>5, WorksKeep

LEMMA EvolvedWorks ==
    ASSUME SchemaInv, NEW p \in Processes, NEW e, Evolves(Database(p), e, at[p].db), Write(p, e),
           UNCHANGED <<pc, overtaken>>
    PROVE  Works(p, e)
  BY DEF Evolves, Works, SchemaInv

LEMMA IdleWorks ==
    ASSUME SchemaInv, NEW p \in Processes, pc[p] = "migrating", UNCHANGED <<store, pc, overtaken>>
    PROVE  Works(p, Database(p))
<1>1. Evolves(Database(p), Database(p), at[p].db)
  BY PlaceFacts, SameKept DEF Evolves
<1>2. Write(p, Database(p))
  BY PlaceFacts DEF SchemaInv, Write, Database
<1> QED
  BY <1>1, <1>2, EvolvedWorks

\* It finds something to do, or goes from one half of a move to the other.
LEMMA PlanKeeps ==
    ASSUME SchemaInv, NEW p \in Processes, Migrating(p),
           at[p].statement <= Len(Statements(p)), NEW e, Works(p, e),
           NEW b, at' = [at EXCEPT ![p] = b],
           b \in [db : Databases, step : Nat, statement : Nat, plan : Plans, rows : Nat],
           b.db = at[p].db, b.step = at[p].step, b.statement = at[p].statement,
           Statement(p).op \in (IF b.plan = "alter" THEN {"add", "rename"} ELSE {"move"}),
           ~ overtaken' => Planned(b, e)
    PROVE  Kept
<1>1. IsPlace(b)
  BY StatementFacts DEF IsPlace
<1>2. ~ overtaken' => Reached(b, e)
  BY StatementFacts, WorksReach DEF Reached
<1> QED
  BY <1>1, <1>2, StatementFacts, WorksKeep

\* A statement that finds nothing to do.
LEMMA SkipKeeps ==
    ASSUME SchemaInv, NEW p \in Processes, Migrating(p),
           at[p].statement <= Len(Statements(p)), UNCHANGED <<store, pc, overtaken>>, Advance(p),
           Statement(p).op \in {"add", "rename", "move"},
           ~ overtaken => Left(Database(p), Statement(p))
    PROVE  Kept
<1>1. Works(p, Database(p))
  BY StatementFacts, IdleWorks
<1> QED
  BY <1>1, AdvanceKeeps

LEMMA RowsFacts ==
    ASSUME NEW d, IsDatabase(d)
    PROVE  /\ Rows(d) \in Nat
           /\ Rows(d) = 0 <=> ~ NonEmpty(d)
<1>1. HasTable(d, "samples") => IsFiniteSet(d.tables["samples"].rows)
  BY DEF IsDatabase, TableNames
<1> QED
  BY <1>1, FS_EmptySet, FS_CardinalityType DEF Rows, NonEmpty

LEMMA LookKeeps ==
    ASSUME SchemaInv, NEW p \in Processes, Look(p)
    PROVE  Kept
<1> DEFINE s == Statement(p)
           d == Database(p)
           db == at[p].db
<1>1. /\ Migrating(p) /\ at[p].statement <= Len(Statements(p)) /\ at[p].plan = "none"
      /\ UNCHANGED overtaken /\ db \in Databases /\ pc[p] = "migrating" /\ DatabaseInv(d, db)
      /\ IsStatement(s, db, at[p].step, at[p].statement) /\ at[p].step \in Nat
      /\ at[p] \in [db : Databases, step : Nat, statement : Nat, plan : Plans, rows : Nat]
      /\ ~ overtaken => Reaches(d, db, at[p].step, at[p].statement)
  <2>1. Migrating(p) /\ at[p].statement <= Len(Statements(p)) /\ at[p].plan = "none"
        /\ UNCHANGED overtaken
    BY DEF Look
  <2> QED
    BY <2>1, StatementFacts, PlaceFacts DEF IsPlace, Reached
<1> HIDE DEF s, d, db
<1>2. CASE /\ s.op = "create" /\ Write(p, Created(d, s.columns)) /\ Advance(p)
           /\ UNCHANGED <<pc, holder>>
  <2>1. s.columns \in SUBSET (ColumnNames \ OldNames)
    BY <1>1, <1>2 DEF IsStatement, IsCreate, IsAdd, IsRename, IsMove
  <2>2. /\ Evolves(d, Created(d, s.columns), db)
        /\ HasTable(Created(d, s.columns), "samples")
    BY <1>1, <2>1, CreatedEvolves
  <2>3. Works(p, Created(d, s.columns))
    BY <1>1, <1>2, <2>2, EvolvedWorks DEF d, db
  <2>4. Left(Created(d, s.columns), s)
    BY <1>2 DEF Left, Holds
  <2> QED
    BY <1>1, <1>2, <2>2, <2>3, <2>4, AdvanceKeeps DEF s
<1>3. CASE /\ s.op \in {"index", "reindex"} /\ HasTable(d, "samples") /\ Write(p, Indexed(d))
           /\ Advance(p) /\ UNCHANGED <<pc, holder>>
  <2>1. Evolves(d, Indexed(d), db) /\ Indexed(d).tables["samples"].index
    BY <1>1, <1>3, IndexedEvolves
  <2>2. Works(p, Indexed(d))
    BY <1>1, <1>3, <2>1, EvolvedWorks DEF d, db
  <2>3. Left(Indexed(d), s)
    BY <1>3 DEF Left, Holds
  <2> QED
    BY <1>1, <1>3, <2>1, <2>2, <2>3, AdvanceKeeps DEF s
<1>4. CASE s.op = "index" /\ Exit(p) /\ UNCHANGED store
  BY <1>1, <1>4, LeavesKeep DEF Exit, GoTo, Steps
<1>5. CASE /\ s.op = "reindex" /\ ~ HasTable(d, "samples") /\ Write(p, d)
           /\ Advance(p) /\ UNCHANGED <<pc, holder>>
  <2>1. UNCHANGED store
    BY <1>1, <1>5 DEF Write, SchemaInv, d, db, Database
  <2>2. Works(p, d)
    BY <1>1, <1>5, <2>1, IdleWorks DEF d
  <2>3. Left(d, s)
    BY <1>5 DEF Left, Holds
  <2> QED
    BY <1>1, <1>5, <2>2, <2>3, AdvanceKeeps DEF s
<1>6. CASE /\ s.op \in {"add", "rename"} /\ Needed(d, s) /\ Plan(p, "alter")
           /\ UNCHANGED <<store, pc, holder>>
  <2> DEFINE b == [at[p] EXCEPT !.plan = "alter"]
  <2>1. at' = [at EXCEPT ![p] = b]
    BY <1>6 DEF Plan
  <2>2. /\ b \in [db : Databases, step : Nat, statement : Nat, plan : Plans, rows : Nat]
        /\ b.db = db /\ b.step = at[p].step /\ b.statement = at[p].statement /\ b.plan = "alter"
    BY <1>1 DEF Plans, db
  <2>3. Works(p, d)
    BY <1>1, <1>6, IdleWorks DEF d
  <2> HIDE DEF b
  <2>4. Planned(b, d)
    BY <2>2 DEF Planned
  <2> QED
    BY <1>1, <1>6, <2>1, <2>2, <2>3, <2>4, PlanKeeps DEF s, db
<1>7. CASE /\ s.op \in {"add", "rename"} /\ ~ Needed(d, s) /\ Advance(p)
           /\ UNCHANGED <<store, pc, holder>>
  <2>1. Left(d, s)
    <3>1. CASE s.op = "add"
      BY <1>7, <3>1 DEF Left, Holds, Needed
    <3>2. CASE s.op = "rename"
      <4>1. IsRename(s)
        BY <1>1, <3>2 DEF IsStatement, IsCreate, IsAdd, IsMove
      <4> QED
        BY <1>1, <1>7, <3>2, <4>1 DEF Left, Holds, Needed, IsRename, DatabaseInv
    <3> QED
      BY <1>7, <3>1, <3>2
  <2> QED
    BY <1>1, <1>7, <2>1, SkipKeeps DEF s, d
<1>8. CASE s.op = "move" /\ MovePlan(d) = "none" /\ Advance(p) /\ UNCHANGED <<store, pc, holder>>
  <2>1. ~ HasTable(d, "samples_debug")
    BY <1>8 DEF MovePlan
  <2>2. ASSUME ~ overtaken PROVE HasTable(d, "samples")
    <3>1. at[p].step = 3
      BY <1>1, <1>8 DEF IsStatement, IsCreate, IsAdd, IsRename, IsMove
    <3>2. Before(1, 1, at[p].step, at[p].statement)
      BY <3>1 DEF Before
    <3> QED
      BY <1>1, <2>1, <2>2, <3>2 DEF Reaches
  <2>3. ~ overtaken => Left(d, s)
    BY <1>8, <2>1, <2>2 DEF Left
  <2> QED
    BY <1>1, <1>8, <2>3, SkipKeeps DEF s, d
<1>9. CASE /\ s.op = "move" /\ MovePlan(d) # "none"
           /\ at' = [at EXCEPT ![p].plan = MovePlan(d), ![p].rows = Rows(d)]
           /\ UNCHANGED <<store, pc, holder>>
  <2> DEFINE c == [at[p] EXCEPT !.plan = MovePlan(d)]
             b == [c EXCEPT !.rows = Rows(d)]
  <2>1. IsDatabase(d)
    BY <1>1 DEF DatabaseInv
  <2>2. at' = [at EXCEPT ![p] = b]
    BY <1>9 DEF SchemaInv
  <2>3. MovePlan(d) \in {"rename", "drop", "merge"} /\ Rows(d) \in Nat
    BY <1>9, <2>1, RowsFacts DEF MovePlan
  <2>4. /\ c \in [db : Databases, step : Nat, statement : Nat, plan : Plans, rows : Nat]
        /\ c.db = db /\ c.step = at[p].step /\ c.statement = at[p].statement /\ c.plan = MovePlan(d)
    BY <1>1, <2>3 DEF Plans, db
  <2>5. /\ b \in [db : Databases, step : Nat, statement : Nat, plan : Plans, rows : Nat]
        /\ b.db = db /\ b.step = at[p].step /\ b.statement = at[p].statement
        /\ b.plan = MovePlan(d) /\ b.rows = Rows(d)
    <3> HIDE DEF c
    <3> QED
      BY <2>3, <2>4
  <2>6. Works(p, d)
    BY <1>1, <1>9, IdleWorks DEF d
  <2> HIDE DEF b
  <2>7. Planned(b, d)
    BY <2>1, <2>3, <2>5, RowsFacts DEF Planned, MovePlan, NonEmpty
  <2> QED
    BY <1>1, <1>9, <2>2, <2>3, <2>5, <2>6, <2>7, PlanKeeps DEF s, db
<1> QED
  BY <1>2, <1>3, <1>4, <1>5, <1>6, <1>7, <1>8, <1>9 DEF Look, s, d

\* Once the second step was run the old recorder has its columns renamed.
LEMMA RenamedBefore ==
    ASSUME NEW d, NEW n \in Nat, Reaches(d, "debug", 3, n)
    PROVE  NoOld(d, "samples_debug")
<1> SUFFICES ASSUME NEW k \in DOMAIN Renames PROVE ~ HasColumn(d, "samples_debug", Old(k))
  BY DEF NoOld
<1>1. PICK i \in DOMAIN DEBUG_MIGRATIONS[2] :
          /\ DEBUG_MIGRATIONS[2][i].op = "rename" /\ DEBUG_MIGRATIONS[2][i].table = "samples_debug"
          /\ DEBUG_MIGRATIONS[2][i].old = Old(k)
  BY DebugStatements DEF TableNames
<1>2. Before(2, i, 3, n)
  BY DEF Before
<1>3. Left(d, DEBUG_MIGRATIONS[2][i])
  BY <1>2, NamedStatements DEF Reaches
<1> QED
  BY <1>1, <1>3 DEF Left, Holds

LEMMA ActKeeps ==
    ASSUME SchemaInv, NEW p \in Processes, Act(p)
    PROVE  Kept
<1> DEFINE s == Statement(p)
           d == Database(p)
           db == at[p].db
           plan == at[p].plan
           Kind == [db : Databases, step : Nat, statement : Nat, plan : Plans, rows : Nat]
<1>1. /\ Migrating(p) /\ plan # "none" /\ at[p].statement <= Len(Statements(p))
      /\ s.op \in (IF plan = "alter" THEN {"add", "rename"} ELSE {"move"})
  <2>1. Migrating(p) /\ plan # "none" /\ pc[p] = "migrating"
    BY DEF Act, Migrating
  <2> QED
    BY <2>1, PlaceFacts DEF IsPlace, Statement, Statements
<1>2. /\ db \in Databases /\ pc[p] = "migrating" /\ DatabaseInv(d, db)
      /\ IsStatement(s, db, at[p].step, at[p].statement) /\ at[p].step \in Nat
      /\ at[p] \in Kind /\ plan \in Plans /\ at[p].statement \in Nat
      /\ ~ overtaken => Reaches(d, db, at[p].step, at[p].statement) /\ Planned(at[p], d)
      /\ overtaken \in BOOLEAN
  BY <1>1, StatementFacts, PlaceFacts DEF IsPlace, Reached, SchemaInv
<1>3. CASE ~ Possible(p)
  <2>1. Exit(p) /\ UNCHANGED <<store, overtaken>>
    BY <1>3 DEF Act
  <2> QED
    BY <2>1, LeavesKeep DEF Exit, GoTo, Steps
<1>4. CASE Possible(p)
  <2>1. /\ Write(p, Result(p)) /\ UNCHANGED <<pc, holder>>
        /\ overtaken' = (overtaken \/ (plan = "drop" /\ Rows(d) # at[p].rows))
        /\ plan = "drop" => Plan(p, "rename")
        /\ plan = "merge" => Plan(p, "dropOld")
        /\ plan \notin {"drop", "merge"} => Advance(p)
    BY <1>4 DEF Act
  <2>2. overtaken' \in BOOLEAN /\ (overtaken => overtaken')
        /\ (plan # "drop" => (overtaken' <=> overtaken))
    BY <1>2, <2>1
  <2>3. CASE s.op = "add"
    <3>1. HasTable(d, "samples") /\ Result(p) = Added(d, s.column) /\ Advance(p)
      BY <1>1, <1>4, <2>1, <2>3 DEF Possible, Result
    <3>2. s.column \in Plain
      BY <1>2, <2>3 DEF IsStatement, IsCreate, IsAdd, IsRename, IsMove
    <3> DEFINE e == Added(d, s.column)
    <3>3. Evolves(d, e, db) /\ HasColumn(e, "samples", s.column)
      BY <1>2, <3>1, <3>2, AddedEvolves
    <3> HIDE DEF e
    <3>4. Works(p, e)
      BY <1>1, <1>2, <2>1, <2>2, <2>3, <3>1, <3>3 DEF Works, Evolves, e
    <3>5. Left(e, s)
      BY <2>3, <3>3 DEF Left, Holds
    <3> QED
      BY <1>1, <2>3, <3>1, <3>4, <3>5, AdvanceKeeps
  <2>4. CASE s.op = "rename"
    <3>1. /\ HasColumn(d, s.table, s.old) /\ ~ HasColumn(d, s.table, s.new)
          /\ Result(p) = Renamed(d, s.table, s.old, s.new) /\ Advance(p)
      BY <1>1, <1>4, <2>1, <2>4 DEF Possible, Result
    <3>2. PICK k \in DOMAIN Renames :
              s.table \in TableNames /\ s.old = Old(k) /\ s.new = New(k)
      BY <1>2, <2>4 DEF IsStatement, IsCreate, IsAdd, IsRename, IsMove
    <3> DEFINE e == Renamed(d, s.table, Old(k), New(k))
    <3>3. Evolves(d, e, db) /\ ~ HasColumn(e, s.table, Old(k))
      BY <1>2, <3>1, <3>2, RenamedEvolves
    <3> HIDE DEF e
    <3>4. Works(p, e)
      BY <1>1, <1>2, <2>1, <2>2, <2>4, <3>1, <3>2, <3>3 DEF Works, Evolves, e
    <3>5. Left(e, s)
      BY <2>4, <3>2, <3>3 DEF Left, Holds
    <3> QED
      BY <1>1, <2>4, <3>1, <3>4, <3>5, AdvanceKeeps
  <2>5. CASE s.op = "move" /\ plan = "rename"
    <3>1. /\ HasTable(d, "samples_debug") /\ ~ HasTable(d, "samples")
          /\ Result(p) = Moved(d) /\ Advance(p)
      BY <1>4, <2>1, <2>5 DEF Possible, Result
    <3> DEFINE e == Moved(d)
    <3>2. /\ DatabaseInv(e, db) /\ RowsKept(d, e) /\ e.version = d.version
          /\ HasTable(e, "samples") /\ ~ HasTable(e, "samples_debug")
          /\ NoOld(d, "samples_debug") => Follows(d, e)
      BY <1>2, <3>1, MovedEvolves
    <3> HIDE DEF e
    <3>3. ASSUME ~ overtaken' PROVE Follows(d, e)
      <4>1. db = "debug" /\ at[p].step = 3
        BY <1>2, <2>5 DEF IsStatement, IsCreate, IsAdd, IsRename, IsMove
      <4>2. Reaches(d, "debug", 3, at[p].statement)
        BY <1>2, <2>2, <2>5, <3>3, <4>1
      <4> QED
        BY <1>2, <3>2, <4>2, RenamedBefore
    <3>4. Works(p, e)
      BY <2>1, <2>2, <3>1, <3>2, <3>3 DEF Works, e
    <3>5. Left(e, s)
      BY <2>5, <3>2 DEF Left
    <3> QED
      BY <1>1, <2>5, <3>1, <3>4, <3>5, AdvanceKeeps
  <2>6. CASE s.op = "move" /\ plan = "drop"
    <3>1. HasTable(d, "samples") /\ Result(p) = Dropped(d, "samples") /\ Plan(p, "rename")
      BY <1>4, <2>1, <2>6 DEF Possible, Result
    <3> DEFINE e == Dropped(d, "samples")
               b == [at[p] EXCEPT !.plan = "rename"]
    <3>2. DatabaseInv(e, db) /\ e.version = d.version
      BY <1>2, DroppedEvolves DEF TableNames
    <3> HIDE DEF e
    <3>3. ASSUME ~ overtaken' PROVE Follows(d, e) /\ RowsKept(d, e)
      <4>1. Rows(d) = 0 /\ ~ overtaken
        BY <1>2, <2>1, <2>2, <2>6, <3>3 DEF Planned
      <4>2. ~ NonEmpty(d)
        BY <1>2, <4>1, RowsFacts DEF DatabaseInv
      <4>3. HasTable(d, "samples_debug") /\ d.tables["samples"].rows = {}
        BY <1>2, <2>6, <3>1, <4>1, <4>2 DEF Planned, NonEmpty
      <4> QED
        BY <1>2, <3>1, <4>3, EmptyDropEvolves DEF Evolves, e
    <3>4. Works(p, e)
      BY <2>1, <2>2, <3>1, <3>2, <3>3 DEF Works, e
    <3>5. b \in Kind /\ b.db = db /\ b.step = at[p].step /\ b.statement = at[p].statement
          /\ b.plan = "rename"
      BY <1>2 DEF Plans
    <3>6. at' = [at EXCEPT ![p] = b]
      BY <3>1 DEF Plan
    <3> HIDE DEF b
    <3>7. Planned(b, e)
      BY <3>5 DEF Planned
    <3> QED
      BY <1>1, <2>6, <3>4, <3>5, <3>6, <3>7, PlanKeeps
  <2>7. CASE s.op = "move" /\ plan = "merge"
    <3>1. /\ HasTable(d, "samples") /\ HasTable(d, "samples_debug")
          /\ Result(p) = Merged(d) /\ Plan(p, "dropOld")
      BY <1>4, <2>1, <2>7 DEF Possible, Result
    <3> DEFINE e == Merged(d)
               b == [at[p] EXCEPT !.plan = "dropOld"]
    <3>2. Evolves(d, e, db) /\ Ids(e.tables["samples_debug"]) \subseteq Ids(e.tables["samples"])
      BY <1>2, <3>1, MergedEvolves
    <3> HIDE DEF e
    <3>3. Works(p, e)
      BY <1>2, <2>1, <2>2, <2>7, <3>1, <3>2 DEF Works, Evolves, e
    <3>4. b \in Kind /\ b.db = db /\ b.step = at[p].step /\ b.statement = at[p].statement
          /\ b.plan = "dropOld"
      BY <1>2 DEF Plans
    <3>5. at' = [at EXCEPT ![p] = b]
      BY <3>1 DEF Plan
    <3> HIDE DEF b
    <3>6. ASSUME ~ overtaken' PROVE Planned(b, e)
      <4>1. NonEmpty(d)
        BY <1>2, <2>2, <2>7, <3>6 DEF Planned
      <4>2. NonEmpty(e)
        BY <3>2, <4>1 DEF Evolves, Follows
      <4> QED
        BY <3>2, <3>4, <4>2 DEF Planned
    <3> QED
      BY <1>1, <2>7, <3>3, <3>4, <3>5, <3>6, PlanKeeps
  <2>8. CASE s.op = "move" /\ plan = "dropOld"
    <3>1. HasTable(d, "samples_debug") /\ Result(p) = Dropped(d, "samples_debug") /\ Advance(p)
      BY <1>4, <2>1, <2>8 DEF Possible, Result
    <3> DEFINE e == Dropped(d, "samples_debug")
    <3>2. DatabaseInv(e, db) /\ e.version = d.version /\ ~ HasTable(e, "samples_debug")
      BY <1>2, DroppedEvolves DEF TableNames
    <3>3. ASSUME ~ overtaken' PROVE Evolves(d, e, db) /\ NonEmpty(d)
      <4>1. NonEmpty(d) /\ Ids(d.tables["samples_debug"]) \subseteq Ids(d.tables["samples"])
        BY <1>2, <2>2, <2>8, <3>1, <3>3 DEF Planned
      <4> QED
        BY <1>2, <3>1, <4>1, OldDropEvolves
    <3> HIDE DEF e
    <3>4. Works(p, e)
      BY <2>1, <2>2, <3>1, <3>2, <3>3 DEF Works, Evolves, e
    <3>5. ~ overtaken' => Left(e, s)
      BY <2>8, <3>2, <3>3 DEF Left, Evolves, Follows, NonEmpty
    <3> QED
      BY <1>1, <2>8, <3>1, <3>4, <3>5, AdvanceKeeps
  <2> QED
    BY <1>1, <1>2, <2>3, <2>4, <2>5, <2>6, <2>7, <2>8 DEF Plans
<1> QED
  BY <1>3, <1>4

LEMMA BumpKeeps ==
    ASSUME SchemaInv, NEW p \in Processes, Bump(p)
    PROVE  Kept
<1> DEFINE a == at[p]
           d == Database(p)
           e == [d EXCEPT !.version = a.step]
           c == [a EXCEPT !.step = @ + 1]
           b == [c EXCEPT !.statement = 1]
           Kind == [db : Databases, step : Nat, statement : Nat, plan : Plans, rows : Nat]
<1>1. /\ pc[p] = "migrating" /\ a.step <= Len(Migrations[a.db]) /\ a.plan = "none"
      /\ a.statement = Len(Migrations[a.db][a.step]) + 1
      /\ Write(p, e) /\ UNCHANGED <<pc, overtaken>>
      /\ at' = [at EXCEPT ![p].step = @ + 1, ![p].statement = 1]
  BY DEF Bump, Migrating, Statements
<1>2. /\ IsPlace(a) /\ a \in Kind /\ a.db \in Databases /\ a.step \in Nat
      /\ DatabaseInv(d, a.db) /\ (~ overtaken => Reaches(d, a.db, a.step, a.statement))
      /\ a.step \in 1 .. Len(Migrations[a.db]) /\ Len(Migrations[a.db]) \in Nat
      /\ a.step \in DOMAIN Migrations[a.db]
  <2>1. /\ IsPlace(a) /\ a.db \in Databases /\ DatabaseInv(d, a.db)
        /\ (~ overtaken => Reaches(d, a.db, a.step, a.statement))
    BY <1>1, PlaceFacts DEF Reached
  <2>2. a \in Kind /\ a.step \in 1 .. Len(Migrations[a.db]) + 1
    BY <2>1 DEF IsPlace
  <2> QED
    BY <1>1, <2>1, <2>2, LadderStatements
<1>3. /\ e.version = a.step /\ e.tables = d.tables
      /\ e \in [version : Nat, tables : [TableNames -> Tables \cup {None}]]
  BY <1>2 DEF DatabaseInv, IsDatabase
<1>4. /\ b \in Kind /\ b.db = a.db /\ b.step = a.step + 1 /\ b.statement = 1
      /\ b.plan = "none" /\ at' = [at EXCEPT ![p] = b]
  <2>1. /\ c \in Kind /\ c.db = a.db /\ c.step = a.step + 1 /\ c.plan = "none"
    BY <1>1, <1>2
  <2>2. b \in Kind /\ b.db = a.db /\ b.step = a.step + 1 /\ b.statement = 1 /\ b.plan = "none"
    <3> HIDE DEF c
    <3> QED
      BY <2>1
  <2>3. at' = [at EXCEPT ![p] = b]
    BY <1>1 DEF SchemaInv
  <2> QED
    BY <2>2, <2>3
<1> HIDE DEF b, e
<1>5. IsPlace(b)
  <2>1. b.step <= Len(Migrations[a.db]) => IsStep(Migrations[a.db][b.step])
    <3>1. b.step <= Len(Migrations[a.db]) => b.step \in DOMAIN Migrations[a.db]
      BY <1>2, <1>4, LadderStatements
    <3> QED
      BY <1>2, <3>1, StatementsAreSequences
  <2> QED
    BY <1>2, <1>4, <2>1 DEF IsPlace, IsStep
<1>6. DatabaseInv(e, a.db) /\ Follows(d, e) /\ RowsKept(d, e)
  BY <1>2, <1>3, SameTables
<1>7. ASSUME ~ overtaken' PROVE Reaches(e, a.db, a.step + 1, 1)
  <2>1. Reaches(d, a.db, a.step, Len(Migrations[a.db][a.step]) + 1)
    BY <1>1, <1>2, <1>7
  <2>2. Reaches(d, a.db, a.step + 1, 1)
    <3> HIDE DEF a, d
    <3> QED
      BY <1>2, <2>1, ReachesStep
  <2> QED
    BY <1>2, <1>6, <2>2, ReachesFollows
<1>8. store'[a.db] = e /\ d = store[a.db]
  BY <1>1, <1>2 DEF SchemaInv, Write, Database
<1>9. ~ overtaken' => Reached(b, e)
  BY <1>4, <1>7 DEF Reached, Planned
<1>10. Changes(p, a.db, e, "migrating", b)
  <2>1. pc' = [pc EXCEPT ![p] = "migrating"] /\ overtaken' \in BOOLEAN
    BY <1>1 DEF SchemaInv
  <2>2. e.version <= Len(Migrations[a.db])
    BY <1>1, <1>3
  <2>3. ~ overtaken' => Reaches(e, a.db, e.version + 1, 1)
    BY <1>3, <1>7
  <2> HIDE DEF a, d
  <2> QED
    BY <1>1, <1>4, <1>5, <1>6, <1>8, <1>9, <2>1, <2>2, <2>3 DEF Changes, Write, a
<1> QED
  BY <1>2, <1>10, ChangesKeep DEF Steps, Inside

LEMMA OpenKeeps ==
    ASSUME SchemaInv, NEW p \in Processes, NEW step, NEW db \in Databases, OpenStore(p, step, db)
    PROVE  Kept
<1> DEFINE d == store[db]
           b == [db |-> db, step |-> d.version + 1, statement |-> 1, plan |-> "none", rows |-> 0]
<1>1. /\ GoTo(p, "migrating") /\ UNCHANGED <<store, overtaken>>
      /\ at' = [at EXCEPT ![p] = b]
  BY DEF OpenStore
<1>2. /\ DatabaseInv(d, db) /\ d.version \in Nat /\ d.version <= Len(Migrations[db])
      /\ overtaken' \in BOOLEAN /\ store' = [store EXCEPT ![db] = d]
      /\ ~ overtaken' => Reaches(d, db, d.version + 1, 1)
  BY <1>1 DEF SchemaInv, DatabaseInv, IsDatabase
<1>3. /\ b \in [db : Databases, step : Nat, statement : Nat, plan : Plans, rows : Nat]
      /\ b.db = db /\ b.step = d.version + 1 /\ b.statement = 1 /\ b.plan = "none"
  BY <1>2 DEF Plans
<1> HIDE DEF b
<1>4. IsPlace(b)
  <2>1. b.step <= Len(Migrations[db]) => IsStep(Migrations[db][b.step])
    <3>1. b.step <= Len(Migrations[db]) => b.step \in DOMAIN Migrations[db]
      BY <1>2, <1>3, LadderStatements
    <3> QED
      BY <3>1, StatementsAreSequences
  <2>2. Len(Migrations[db]) \in Nat
    BY LadderStatements
  <2> QED
    BY <1>2, <1>3, <2>1, <2>2 DEF IsPlace, IsStep
<1>5. ~ overtaken' => Reached(b, d)
  BY <1>2, <1>3 DEF Reached, Planned
<1>6. Changes(p, db, d, "migrating", b)
  <2>1. Follows(d, d) /\ RowsKept(d, d) /\ (overtaken => overtaken') /\ store'[db] = d
    BY <1>1, <1>2, SameKept
  <2> QED
    BY <1>1, <1>2, <1>3, <1>4, <1>5, <2>1 DEF Changes, GoTo
<1> QED
  BY <1>6, ChangesKeep DEF Steps, Inside

LEMMA FreshRow ==
    ASSUME NEW table \in Tables, IsFiniteSet(table.rows)
    PROVE  Fresh(table) \in [id : Nat, origin : {"samples", "samples_debug", "tick"}]
<1> DEFINE ids == {0} \cup {row.id : row \in table.rows}
<1>1. ids \subseteq Int /\ ids \subseteq Nat /\ ids # {}
  BY DEF Tables
<1>2. IsFiniteSet(ids)
  <2>1. IsFiniteSet({row.id : row \in table.rows})
    <3> DEFINE f == [row \in table.rows |-> row.id]
    <3>1. {row.id : row \in table.rows} = {f[row] : row \in table.rows}
      OBVIOUS
    <3>2. f = [row \in table.rows |-> f[row]]
      OBVIOUS
    <3> HIDE DEF f
    <3> QED
      BY <3>1, <3>2, FiniteImage
  <2> QED
    BY <2>1, FS_AddElement, FS_Singleton, FS_Union
<1>3. PICK i \in ids : \A j \in ids : j <= i
  <2> HIDE DEF ids
  <2> QED
    BY <1>1, <1>2, Greatest
<1>4. (CHOOSE k \in ids : \A j \in ids : j <= k) \in Nat
  <2> HIDE DEF ids
  <2> QED
    BY <1>1, <1>3
<1> QED
  BY <1>4 DEF Fresh

LEMMA InsertKeeps ==
    ASSUME SchemaInv, NEW p \in Processes, Insert(p)
    PROVE  Kept
<1> DEFINE d == store["debug"]
           old == d.tables["samples"]
           table == [old EXCEPT !.rows = @ \cup {Fresh(old)}]
<1>1. /\ pc[p] = "running" /\ UNCHANGED overtaken /\ at[p] = None
      /\ DatabaseInv(d, "debug") /\ d.version \in Nat /\ d.version <= Len(Migrations["debug"])
      /\ overtaken' \in BOOLEAN /\ (~ overtaken' => Reaches(d, "debug", d.version + 1, 1))
  BY DEF Insert, SchemaInv, Databases, DatabaseInv, IsDatabase
<1>2. /\ \E step \in {"down", "running"} : pc' = [pc EXCEPT ![p] = step]
      /\ at' = [at EXCEPT ![p] = None]
  BY <1>1 DEF Insert, Exit, SchemaInv
<1>3. PICK step \in {"down", "running"} : pc' = [pc EXCEPT ![p] = step]
  BY <1>2
<1>4. \E e : store' = [store EXCEPT !["debug"] = e] /\ Evolves(d, e, "debug")
  <2>1. CASE UNCHANGED store
    <3>1. Evolves(d, d, "debug") /\ store' = [store EXCEPT !["debug"] = d]
      BY <1>1, <2>1, SameKept DEF Evolves, SchemaInv, Databases
    <3> QED
      BY <3>1
  <2>2. CASE /\ HasTable(d, "samples")
             /\ store' = [store EXCEPT !["debug"].tables["samples"].rows =
                             @ \cup {Fresh(d.tables["samples"])}]
    <3> DEFINE e == WithTable(d, "samples", table)
    <3>1. store' = [store EXCEPT !["debug"] = e]
      BY <2>2 DEF WithTable
    <3>2. old \in Tables /\ IsFiniteSet(old.rows)
      BY <1>1, <2>2 DEF DatabaseInv, IsDatabase, HasTable, TableNames
    <3>3. /\ table.columns = old.columns /\ table.index = old.index
          /\ table.rows = old.rows \cup {Fresh(old)} /\ table \in Tables
      BY <3>2, FreshRow DEF Tables
    <3>4. IsFiniteSet(table.rows)
      BY <3>2, <3>3, FS_AddElement
    <3>5. Becomes(d, e, table, d.tables["samples_debug"])
      BY <1>1, WithTableBecomes DEF DatabaseInv
    <3>6. \A k \in DOMAIN Renames : Old(k) \in table.columns =>
              HasColumn(d, "samples", Old(k)) /\ New(k) \notin table.columns
      BY <1>1, <2>2, <3>3 DEF DatabaseInv, HasColumn, TableNames
    <3>7. Evolves(d, e, "debug")
      <4> HIDE DEF table, e
      <4> QED
        BY <1>1, <3>2, <3>3, <3>4, <3>5, <3>6, SamplesEvolve
    <3> QED
      BY <3>1, <3>7
  <2> QED
    BY <2>1, <2>2 DEF Insert, Whole
<1>5. PICK e : store' = [store EXCEPT !["debug"] = e] /\ Evolves(d, e, "debug")
  BY <1>4
<1>6. ~ overtaken' => Reaches(e, "debug", e.version + 1, 1)
  BY <1>1, <1>5, ReachesFollows DEF Evolves, Databases
<1>7. Changes(p, "debug", e, step, None)
  BY <1>1, <1>2, <1>3, <1>5, <1>6 DEF Changes, Evolves
<1> QED
  BY <1>7, ChangesKeep DEF Steps, Inside, Databases

LEMMA SchemaStep == ASSUME SchemaInv, [Next]_vars PROVE Kept
<1>1. CASE UNCHANGED vars
  <2>1. SchemaInv'
    BY <1>1 DEF SchemaInv, vars, Database
  <2>2. \A db \in Databases : RowsKept(store[db], store'[db])
    BY <1>1 DEF RowsKept, vars
  <2> QED
    BY <2>1, <2>2 DEF Kept
<1>2. ASSUME NEW p \in Processes, Launch(p) \/ Flock(p) \/ Truncate(p) \/ WritePid(p)
      PROVE  Kept
  <2>1. /\ UNCHANGED <<at, store, overtaken>> /\ pc[p] # "migrating"
        /\ \E step \in Steps \ {"migrating"} : GoTo(p, step)
    BY <1>2 DEF Launch, Flock, Truncate, WritePid, Steps, Inside
  <2> QED
    BY <2>1, LeavesKeep
<1>3. ASSUME NEW p \in Processes, Lose(p) \/ End(p) PROVE Kept
  BY <1>3, LeavesKeep DEF Lose, End, Exit, GoTo, Steps
<1>4. ASSUME NEW p \in Processes, Migrated(p) PROVE Kept
  <2>1. /\ UNCHANGED <<store, overtaken>> /\ at' = [at EXCEPT ![p] = None]
        /\ \E step \in Steps \ {"migrating"} : GoTo(p, step)
    BY <1>4 DEF Migrated, Steps, Inside
  <2> QED
    BY <2>1, LeavesKeep
<1>5. ASSUME NEW p \in Processes,
             \/ OpenStore(p, "openDebug", "debug")
             \/ OpenStore(p, "openHistorical", "historical")
      PROVE  Kept
  BY <1>5, OpenKeeps DEF Databases
<1> QED
  BY <1>1, <1>2, <1>3, <1>4, <1>5, LookKeeps, ActKeeps, BumpKeeps, InsertKeeps DEF Next, Progress

-----------------------------------------------------------------------------
(***************************************************************************)
(* The databases of the releases.                                          *)
(***************************************************************************)
Measured == {"estimated_cycle_count", "cpu_pct", "top_processes", "cpu_freq_mhz", "load1"}
FieldColumns == Measured \cup {"power_state", "boot_id", "uptime_s"}

LEMMA ColumnFacts ==
    /\ DebugColumns = Measured \cup {"base", "charge_pct", "battery_temp_c"}
    /\ OldColumns = Measured \cup {"base", "percentage", "temperature_c"}
    /\ DebugColumns \subseteq ColumnNames /\ OldColumns \subseteq ColumnNames
    /\ DebugColumns \cup {"power_state", "boot_id", "uptime_s"} \subseteq ColumnNames
    /\ \A k \in DOMAIN Renames :
          /\ Old(k) \notin DebugColumns \cup {"power_state", "boot_id", "uptime_s"}
          /\ New(k) \notin OldColumns
<1>1. {Glances[i] : i \in DOMAIN Glances} = {"cpu_pct", "top_processes"}
  BY DEF Glances
<1>2. {Flight[i] : i \in DOMAIN Flight} = {"cpu_freq_mhz", "load1"}
  BY DEF Flight
<1>3. DebugColumns = Measured \cup {"base", "charge_pct", "battery_temp_c"}
  BY <1>1, <1>2, RenamePairs DEF DebugColumns, HistoricalColumns, Measured
<1>4. OldColumns = Measured \cup {"base", "percentage", "temperature_c"}
  BY <1>3, RenamePairs DEF OldColumns, Measured
<1> QED
  BY <1>3, <1>4, RenamePairs DEF ColumnNames, Measured

LEMMA FewIds ==
    /\ IsFiniteSet({}) /\ IsFiniteSet({1}) /\ IsFiniteSet({1, 2}) /\ IsFiniteSet({2, 3})
    /\ {1} \in SUBSET Nat /\ {1, 2} \in SUBSET Nat /\ {2, 3} \in SUBSET Nat
<1>1. IsFiniteSet({1}) /\ IsFiniteSet({2}) /\ IsFiniteSet({3})
  BY FS_Singleton
<1>2. IsFiniteSet({1} \cup {2}) /\ IsFiniteSet({2} \cup {3})
  BY <1>1, FS_Union
<1>3. {1} \cup {2} = {1, 2} /\ {2} \cup {3} = {2, 3}
  OBVIOUS
<1>4. IsFiniteSet({})
  BY FS_EmptySet
<1> QED
  BY <1>1, <1>2, <1>3, <1>4

LEMMA TableFacts ==
    ASSUME NEW columns \in SUBSET ColumnNames, NEW ids \in SUBSET Nat, IsFiniteSet(ids),
           NEW origin \in {"samples", "samples_debug", "tick"}
    PROVE  LET t == Table(columns, ids, origin)
           IN  /\ t \in Tables /\ IsFiniteSet(t.rows) /\ t.columns = columns
               /\ (t.rows = {} <=> ids = {})
               /\ \A row \in t.rows : row.origin = origin
<1> DEFINE f == [i \in ids |-> [id |-> i, origin |-> origin]]
           rows == {[id |-> i, origin |-> origin] : i \in ids}
<1>1. IsFiniteSet(rows)
  <2>1. rows = {f[i] : i \in ids}
    OBVIOUS
  <2>2. f = [i \in ids |-> f[i]]
    OBVIOUS
  <2> HIDE DEF f, rows
  <2> QED
    BY <2>1, <2>2, FiniteImage
<1>2. rows \subseteq [id : Nat, origin : {"samples", "samples_debug", "tick"}]
  OBVIOUS
<1>3. rows = {} <=> ids = {}
  <2>1. ASSUME NEW i \in ids PROVE rows # {}
    <3>1. [id |-> i, origin |-> origin] \in rows
      OBVIOUS
    <3> QED
      BY <3>1
  <2>2. ids = {} => rows = {}
    OBVIOUS
  <2> QED
    BY <2>1, <2>2
<1>4. \A row \in rows : row.origin = origin
  OBVIOUS
<1>5. Table(columns, ids, origin) = [columns |-> columns, rows |-> rows, index |-> FALSE]
  BY DEF Table
<1> HIDE DEF rows
<1> QED
  BY <1>1, <1>2, <1>3, <1>4, <1>5 DEF Tables

LEMMA RecorderTable ==
    ASSUME NEW columns, columns \subseteq ColumnNames
    PROVE  LET t == Table(columns, {1, 2}, "samples_debug")
           IN  /\ t \in Tables /\ IsFiniteSet(t.rows) /\ t.columns = columns /\ t.rows # {}
               /\ \A row \in t.rows : row.origin = "samples_debug"
<1> DEFINE ids == {1, 2}
<1>1. IsFiniteSet(ids) /\ ids \in SUBSET Nat /\ ids # {}
  BY FewIds
<1>2. columns \in SUBSET ColumnNames
  OBVIOUS
<1> HIDE DEF ids
<1>3. LET t == Table(columns, ids, "samples_debug")
      IN  /\ t \in Tables /\ IsFiniteSet(t.rows) /\ t.columns = columns
          /\ (t.rows = {} <=> ids = {})
          /\ \A row \in t.rows : row.origin = "samples_debug"
  BY <1>1, <1>2, TableFacts
<1> QED
  BY <1>1, <1>3 DEF ids

LEMMA ContentsFacts ==
    ASSUME NEW version \in Nat, NEW samples, NEW old
    PROVE  LET d == Contents(version, samples, old)
           IN  /\ d = [version |-> version, tables |-> d.tables]
               /\ d.tables \in [TableNames -> {samples, old}] /\ d.version = version
               /\ d.tables["samples"] = samples /\ d.tables["samples_debug"] = old
  BY DEF Contents, TableNames

LEMMA ContentsInv ==
    ASSUME NEW db, NEW version \in Nat, NEW samples \in Tables \cup {None},
           NEW old \in Tables \cup {None},
           samples # None => IsFiniteSet(samples.rows),
           \A k \in DOMAIN Renames :
              samples # None => ~ (Old(k) \in samples.columns /\ New(k) \in samples.columns),
           \A k \in DOMAIN Renames :
              old # None => ~ (Old(k) \in old.columns /\ New(k) \in old.columns),
           old # None => /\ db = "debug" /\ IsFiniteSet(old.rows) /\ old.rows # {}
                         /\ \A row \in old.rows : row.origin = "samples_debug"
    PROVE  DatabaseInv(Contents(version, samples, old), db)
<1> DEFINE d == Contents(version, samples, old)
<1>1. /\ d = [version |-> version, tables |-> d.tables]
      /\ d.tables \in [TableNames -> {samples, old}] /\ d.version = version
      /\ d.tables["samples"] = samples /\ d.tables["samples_debug"] = old
  BY ContentsFacts
<1> HIDE DEF d
<1>2. IsDatabase(d)
  BY <1>1 DEF IsDatabase, HasTable, TableNames
<1>3. \A t \in TableNames, k \in DOMAIN Renames :
          ~ (HasColumn(d, t, Old(k)) /\ HasColumn(d, t, New(k)))
  BY <1>1 DEF HasColumn, HasTable, TableNames
<1>4. HasTable(d, "samples_debug") =>
          /\ db = "debug" /\ d.tables["samples_debug"].rows # {}
          /\ \A row \in d.tables["samples_debug"].rows : row.origin = "samples_debug"
  BY <1>1 DEF HasTable
<1> QED
  BY <1>2, <1>3, <1>4 DEF DatabaseInv, d

\* What the statements of the recorded steps are.
Asks(x, columns, renamed) ==
    \/ x.op \in {"create", "index", "reindex", "move"}
    \/ x.op = "add" /\ x.column \in columns
    \/ /\ x.op = "rename" /\ renamed /\ x.table \in TableNames
       /\ \E k \in DOMAIN Renames : x.old = Old(k)

LEMMA HistoricalAsks ==
    /\ \A s \in 1 .. 4 : \A i \in DOMAIN Migrations["historical"][s] :
          Asks(Migrations["historical"][s][i], Measured, FALSE)
    /\ \A s \in 1 .. 7 : \A i \in DOMAIN Migrations["historical"][s] :
          Asks(Migrations["historical"][s][i], FieldColumns, TRUE)
<1> DEFINE m == HISTORICAL_MIGRATIONS
<1>1. /\ m[1] = <<Create(HistoricalColumns), Index>>
      /\ m[2] = Adds(<<"estimated_cycle_count">>)
      /\ m[3] = Adds(<<"cpu_pct", "top_processes">>)
      /\ m[4] = Adds(<<"cpu_freq_mhz", "load1">>)
      /\ m[5] = Standardise("samples")
      /\ m[6] = Adds(<<"power_state">>)
      /\ m[7] = Adds(<<"boot_id", "uptime_s">>)
  BY DEF HISTORICAL_MIGRATIONS, Glances, Flight, Boot
<1>2. \A i \in DOMAIN m[1] : m[1][i].op \in {"create", "index"}
  BY <1>1 DEF Create, Index
<1> HIDE DEF m
<1>3. \A s \in 2 .. 4 : \A i \in DOMAIN m[s] :
          \E c \in Measured : m[s][i] = [op |-> "add", column |-> c]
  BY <1>1, AddsOne, AddsTwo DEF Measured
<1>4. \A s \in 6 .. 7 : \A i \in DOMAIN m[s] :
          \E c \in FieldColumns : m[s][i] = [op |-> "add", column |-> c]
  BY <1>1, AddsOne, AddsTwo DEF FieldColumns
<1>5. \A i \in DOMAIN m[5] : \E k \in DOMAIN Renames : m[5][i].op = "rename"
          /\ m[5][i].table \in TableNames /\ m[5][i].old = Old(k)
  BY <1>1, StandardiseStatements, RenamePairs DEF TableNames
<1>6. ASSUME NEW c \in FieldColumns, NEW x, x = [op |-> "add", column |-> c]
      PROVE  Asks(x, FieldColumns, TRUE) /\ (c \in Measured => Asks(x, Measured, FALSE))
  BY <1>6 DEF Asks
<1>7. Measured \subseteq FieldColumns
  BY DEF FieldColumns
<1>8. \A i \in DOMAIN m[1] : Asks(m[1][i], Measured, FALSE) /\ Asks(m[1][i], FieldColumns, TRUE)
  BY <1>2 DEF Asks
<1>9. \A s \in 2 .. 4 : \A i \in DOMAIN m[s] :
          Asks(m[s][i], Measured, FALSE) /\ Asks(m[s][i], FieldColumns, TRUE)
  BY <1>3, <1>6, <1>7
<1>10. \A s \in 6 .. 7 : \A i \in DOMAIN m[s] : Asks(m[s][i], FieldColumns, TRUE)
  BY <1>4, <1>6
<1>11. \A i \in DOMAIN m[5] : Asks(m[5][i], FieldColumns, TRUE)
  BY <1>5 DEF Asks
<1>12. Migrations["historical"] = m
  BY DEF Migrations, Databases, m
<1>13. /\ \A s \in 1 .. 4 : s = 1 \/ s \in 2 .. 4
       /\ \A s \in 1 .. 7 : s = 1 \/ s \in 2 .. 4 \/ s = 5 \/ s \in 6 .. 7
  OBVIOUS
<1> QED
  BY <1>8, <1>9, <1>10, <1>11, <1>12, <1>13

LEMMA DebugAsks ==
    /\ \A s \in 1 .. 2 : \A i \in DOMAIN Migrations["debug"][s] :
          /\ Asks(Migrations["debug"][s][i], {}, TRUE)
          /\ Migrations["debug"][s][i].op # "move"
    /\ \A s \in 1 .. 5 : \A i \in DOMAIN Migrations["debug"][s] :
          Asks(Migrations["debug"][s][i], FieldColumns, TRUE)
<1> DEFINE m == DEBUG_MIGRATIONS
<1>1. /\ m[1] = <<Create(DebugColumns), Index>>
      /\ m[3] = <<Move, Reindex>>
      /\ m[4] = Adds(<<"power_state">>)
      /\ m[5] = Adds(<<"boot_id", "uptime_s">>)
  BY DEF DEBUG_MIGRATIONS, Boot
<1>2. \A i \in DOMAIN m[1] : m[1][i].op \in {"create", "index"}
  BY <1>1 DEF Create, Index
<1>3. \A i \in DOMAIN m[3] : m[3][i].op \in {"move", "reindex"}
  BY <1>1 DEF Move, Reindex
<1>4. /\ DOMAIN m[2] = 1 .. 4
      /\ \A k \in 1 .. 2 :
            m[2][k] = [op |-> "rename", table |-> "samples", old |-> Old(k), new |-> New(k)]
      /\ \A k \in 1 .. 2 : m[2][k + 2]
            = [op |-> "rename", table |-> "samples_debug", old |-> Old(k), new |-> New(k)]
  <2>1. m[2] = Standardise("samples") \o Standardise("samples_debug")
    BY DEF DEBUG_MIGRATIONS
  <2> QED
    BY <2>1 DEF Standardise, Renames, Old, New
<1> HIDE DEF m
<1>5. \A i \in DOMAIN m[2] : \E k \in DOMAIN Renames : m[2][i].op = "rename"
          /\ m[2][i].table \in TableNames /\ m[2][i].old = Old(k)
  <2>1. \A i \in 1 .. 4 : i \in 1 .. 2 \/ \E k \in 1 .. 2 : i = k + 2
    OBVIOUS
  <2> QED
    BY <1>4, <2>1, RenamePairs DEF TableNames
<1>6. \A s \in 4 .. 5 : \A i \in DOMAIN m[s] :
          \E c \in FieldColumns : m[s][i] = [op |-> "add", column |-> c]
  <2>1. \A i \in DOMAIN m[4] : m[4][i] = [op |-> "add", column |-> "power_state"]
    BY <1>1, AddsOne
  <2>2. \A i \in DOMAIN m[5] :
            \E c \in {"boot_id", "uptime_s"} : m[5][i] = [op |-> "add", column |-> c]
    BY <1>1, AddsTwo
  <2>3. \A s \in 4 .. 5 : s = 4 \/ s = 5
    OBVIOUS
  <2> QED
    BY <2>1, <2>2, <2>3 DEF FieldColumns
<1>7. \A i \in DOMAIN m[1] : /\ Asks(m[1][i], {}, TRUE) /\ Asks(m[1][i], FieldColumns, TRUE)
                             /\ m[1][i].op # "move"
  BY <1>2 DEF Asks
<1>8. \A i \in DOMAIN m[2] : /\ Asks(m[2][i], {}, TRUE) /\ Asks(m[2][i], FieldColumns, TRUE)
                             /\ m[2][i].op # "move"
  BY <1>5 DEF Asks
<1>9. \A i \in DOMAIN m[3] : Asks(m[3][i], FieldColumns, TRUE)
  BY <1>3 DEF Asks
<1>10. \A s \in 4 .. 5 : \A i \in DOMAIN m[s] : Asks(m[s][i], FieldColumns, TRUE)
  <2>1. ASSUME NEW c \in FieldColumns, NEW x, x = [op |-> "add", column |-> c]
        PROVE  Asks(x, FieldColumns, TRUE)
    BY <2>1 DEF Asks
  <2> QED
    BY <1>6, <2>1
<1>11. Migrations["debug"] = m
  BY NamedStatements DEF m
<1>12. /\ \A s \in 1 .. 2 : s = 1 \/ s = 2
       /\ \A s \in 1 .. 5 : s = 1 \/ s = 2 \/ s = 3 \/ s \in 4 .. 5
  OBVIOUS
<1> QED
  BY <1>7, <1>8, <1>9, <1>10, <1>11, <1>12

\* A table that has what is asked for has every step behind it.
Provides(d, db, version, columns, renamed) ==
    /\ \A s \in 1 .. version : \A i \in DOMAIN Migrations[db][s] :
          /\ Asks(Migrations[db][s][i], columns, renamed)
          /\ HasTable(d, "samples_debug") => Migrations[db][s][i].op # "move"
    /\ version > 0 => HasTable(d, "samples") /\ columns \subseteq d.tables["samples"].columns
    /\ renamed => \A t \in TableNames : NoOld(d, t)
    /\ db = "debug" /\ version > 2 => d.tables["samples"].index

LEMMA FoundReaches ==
    ASSUME NEW db \in Databases, NEW d, NEW version \in Nat, version <= Len(Migrations[db]),
           NEW columns, NEW renamed \in BOOLEAN, Provides(d, db, version, columns, renamed)
    PROVE  Reaches(d, db, version + 1, 1)
<1> USE DEF Provides
<1>1. ASSUME NEW s \in DOMAIN Migrations[db], NEW i \in DOMAIN Migrations[db][s],
             Before(s, i, version + 1, 1)
      PROVE  Left(d, Migrations[db][s][i])
  <2>1. s \in 1 .. Len(Migrations[db]) /\ i \in Nat /\ i >= 1
    BY LadderStatements, StatementsAreSequences DEF IsStep
  <2>2. s \in 1 .. version /\ version > 0
    BY <1>1, <2>1 DEF Before
  <2>3. /\ Asks(Migrations[db][s][i], columns, renamed)
        /\ HasTable(d, "samples_debug") => Migrations[db][s][i].op # "move"
    BY <2>2
  <2> QED
    BY <2>2, <2>3 DEF Asks, Left, Holds, NoOld, HasColumn
<1>2. /\ Before(3, 2, version + 1, 1) => version > 2
      /\ Before(1, 1, version + 1, 1) => version > 0
  BY DEF Before
<1> QED
  BY <1>1, <1>2 DEF Reaches

LEMMA FoundFresh ==
    ASSUME NEW db \in Databases, NEW d
    PROVE  Reaches(d, db, 0 + 1, 1)
<1>1. 0 <= Len(Migrations[db])
  BY LadderStatements
<1>2. Provides(d, db, 0, {}, FALSE)
  BY DEF Provides
<1> QED
  BY <1>1, <1>2, FoundReaches

LEMMA FoundDatabases ==
    /\ \A db \in Databases : DatabaseInv(NoTables, db)
    /\ DatabaseInv(OldRecorder, "debug")
    /\ DatabaseInv(OldHistory, "historical") /\ Reaches(OldHistory, "historical", 5, 1)
    /\ DatabaseInv(Contents(5, FieldTable, None), "debug")
    /\ Reaches(Contents(5, FieldTable, None), "debug", 6, 1)
    /\ DatabaseInv(FieldHistory, "historical") /\ Reaches(FieldHistory, "historical", 8, 1)
    /\ \A ids \in {{}, {2, 3}} : DatabaseInv(Beside(ids), "debug") /\ Reaches(Beside(ids), "debug", 3, 1)
<1>1. \A db \in Databases : DatabaseInv(NoTables, db)
  BY ContentsInv DEF NoTables
<1>2. DatabaseInv(OldRecorder, "debug")
  <2> DEFINE t == Table(OldColumns, {1, 2}, "samples_debug")
  <2>1. /\ t \in Tables /\ IsFiniteSet(t.rows) /\ t.columns = OldColumns /\ t.rows # {}
        /\ \A row \in t.rows : row.origin = "samples_debug"
    BY RecorderTable, ColumnFacts
  <2> HIDE DEF t
  <2>2. DatabaseInv(Contents(0, None, t), "debug")
    BY <2>1, ColumnFacts, ContentsInv
  <2> QED
    BY <2>2 DEF OldRecorder, t
<1>3. DatabaseInv(OldHistory, "historical") /\ Reaches(OldHistory, "historical", 5, 1)
  <2> DEFINE u == Table(OldColumns, {1}, "samples")
             t == [u EXCEPT !.index = TRUE]
             d == Contents(4, t, None)
  <2>1. u \in Tables /\ IsFiniteSet(u.rows) /\ u.columns = OldColumns
    <3>1. IsFiniteSet({1}) /\ {1} \in SUBSET Nat /\ OldColumns \in SUBSET ColumnNames
      BY FewIds, ColumnFacts
    <3> QED
      BY <3>1, TableFacts
  <2>2. t \in Tables /\ IsFiniteSet(t.rows) /\ t.columns = OldColumns
    <3> HIDE DEF u
    <3> QED
      BY <2>1 DEF Tables
  <2> HIDE DEF t
  <2>3. DatabaseInv(d, "historical")
    BY <2>2, ColumnFacts, ContentsInv
  <2>4. d.tables["samples"] = t /\ d.tables["samples_debug"] = None
    BY ContentsFacts
  <2> HIDE DEF d
  <2>5. HasTable(d, "samples") /\ ~ HasTable(d, "samples_debug")
        /\ Measured \subseteq d.tables["samples"].columns
    BY <2>2, <2>4, ColumnFacts, NoneAssumption DEF HasTable
  <2>6. Reaches(d, "historical", 4 + 1, 1)
    <3>1. Provides(d, "historical", 4, Measured, FALSE)
      BY <2>5, HistoricalAsks DEF Provides
    <3>2. "historical" \in Databases /\ 4 \in Nat /\ 4 <= Len(Migrations["historical"])
      BY LadderLengths DEF Databases
    <3> QED
      BY <3>1, <3>2, FoundReaches
  <2> QED
    BY <2>3, <2>6 DEF OldHistory, d, t
<1>4. ASSUME NEW db \in Databases, NEW version \in {5, 7}, db = "debug" <=> version = 5
      PROVE  LET d == Contents(version, FieldTable, None)
             IN  DatabaseInv(d, db) /\ Reaches(d, db, version + 1, 1)
  <2> DEFINE columns == DebugColumns \cup {"power_state", "boot_id", "uptime_s"}
             u == Table(columns, {1}, "samples")
             d == Contents(version, FieldTable, None)
  <2>1. u \in Tables /\ IsFiniteSet(u.rows) /\ u.columns = columns
    <3>1. IsFiniteSet({1}) /\ {1} \in SUBSET Nat /\ columns \in SUBSET ColumnNames
      BY FewIds, ColumnFacts
    <3> HIDE DEF columns
    <3> QED
      BY <3>1, TableFacts
  <2>2. /\ FieldTable \in Tables /\ IsFiniteSet(FieldTable.rows) /\ FieldTable.columns = columns
        /\ FieldTable.index
    <3>1. FieldTable = [u EXCEPT !.index = TRUE]
      BY DEF FieldTable
    <3> HIDE DEF u
    <3> QED
      BY <2>1, <3>1 DEF Tables
  <2>3. DatabaseInv(d, db)
    <3> HIDE DEF u
    <3> QED
      BY <2>2, ColumnFacts, ContentsInv
  <2>4. d.tables["samples"] = FieldTable /\ d.tables["samples_debug"] = None
    BY ContentsFacts
  <2> HIDE DEF d
  <2>5. HasTable(d, "samples") /\ ~ HasTable(d, "samples_debug")
        /\ FieldColumns \subseteq d.tables["samples"].columns /\ d.tables["samples"].index
        /\ \A t \in TableNames : NoOld(d, t)
    BY <2>2, <2>4, ColumnFacts, NoneAssumption DEF HasTable, NoOld, HasColumn, TableNames, FieldColumns
  <2>6. \A s \in 1 .. version : \A i \in DOMAIN Migrations[db][s] :
            Asks(Migrations[db][s][i], FieldColumns, TRUE)
    BY <1>4, HistoricalAsks, DebugAsks DEF Databases
  <2>7. version \in Nat /\ version <= Len(Migrations[db])
    <3>1. (db = "debug" /\ version = 5) \/ (db = "historical" /\ version = 7)
      BY <1>4 DEF Databases
    <3>2. CASE db = "debug" /\ version = 5
      BY <3>2, LadderLengths
    <3>3. CASE db = "historical" /\ version = 7
      BY <3>3, LadderLengths
    <3> QED
      BY <3>1, <3>2, <3>3
  <2>8. Reaches(d, db, version + 1, 1)
    <3>1. Provides(d, db, version, FieldColumns, TRUE)
      BY <2>5, <2>6 DEF Provides
    <3> QED
      BY <2>7, <3>1, FoundReaches
  <2> QED
    BY <2>3, <2>8 DEF d
<1>5. ASSUME NEW ids \in {{}, {2, 3}}
      PROVE  DatabaseInv(Beside(ids), "debug") /\ Reaches(Beside(ids), "debug", 3, 1)
  <2> DEFINE t == Table(DebugColumns, ids, "samples")
             u == Table(DebugColumns, {1, 2}, "samples_debug")
             d == Contents(2, t, u)
  <2>1. ids \in SUBSET Nat /\ IsFiniteSet(ids)
    BY FewIds
  <2>2. t \in Tables /\ IsFiniteSet(t.rows) /\ t.columns = DebugColumns
    BY <2>1, ColumnFacts, TableFacts
  <2>3. /\ u \in Tables /\ IsFiniteSet(u.rows) /\ u.columns = DebugColumns /\ u.rows # {}
        /\ \A row \in u.rows : row.origin = "samples_debug"
    BY RecorderTable, ColumnFacts
  <2> HIDE DEF t, u
  <2>4. DatabaseInv(d, "debug")
    BY <2>2, <2>3, ColumnFacts, ContentsInv
  <2>5. d.tables["samples"] = t /\ d.tables["samples_debug"] = u
    BY ContentsFacts
  <2> HIDE DEF d
  <2>6. HasTable(d, "samples") /\ \A name \in TableNames : NoOld(d, name)
    BY <2>2, <2>3, <2>5, ColumnFacts, NoneAssumption DEF HasTable, NoOld, HasColumn, TableNames
  <2>7. Reaches(d, "debug", 2 + 1, 1)
    <3>1. Provides(d, "debug", 2, {}, TRUE)
      BY <2>6, DebugAsks, 2 > 0, ~ (2 > 2) DEF Provides
    <3>2. "debug" \in Databases /\ 2 \in Nat /\ 2 <= Len(Migrations["debug"])
      BY LadderLengths DEF Databases
    <3> QED
      BY <3>1, <3>2, FoundReaches
  <2> QED
    BY <2>4, <2>7 DEF Beside, d, t, u
<1>6. /\ DatabaseInv(Contents(5, FieldTable, None), "debug")
      /\ Reaches(Contents(5, FieldTable, None), "debug", 5 + 1, 1)
      /\ DatabaseInv(FieldHistory, "historical") /\ Reaches(FieldHistory, "historical", 7 + 1, 1)
  BY <1>4 DEF FieldHistory, Databases
<1> QED
  BY <1>1, <1>2, <1>3, <1>5, <1>6

LEMMA SchemaInit == Init => SchemaInv
<1> SUFFICES ASSUME Init PROVE SchemaInv
  OBVIOUS
<1> DEFINE Ready(d, db) ==
        /\ DatabaseInv(d, db) /\ d.version <= Len(Migrations[db])
        /\ Reaches(d, db, d.version + 1, 1)
<1>1. /\ \A db \in Databases : Ready(NoTables, db)
      /\ Ready(OldRecorder, "debug") /\ Ready(OldHistory, "historical")
      /\ Ready(Contents(5, FieldTable, None), "debug") /\ Ready(FieldHistory, "historical")
      /\ Ready(Beside({}), "debug") /\ Ready(Beside({2, 3}), "debug")
  <2>1. /\ NoTables.version = 0 /\ OldRecorder.version = 0 /\ OldHistory.version = 4
        /\ Contents(5, FieldTable, None).version = 5 /\ FieldHistory.version = 7
        /\ Beside({}).version = 2 /\ Beside({2, 3}).version = 2
    BY ContentsFacts DEF NoTables, OldRecorder, OldHistory, FieldHistory, Beside, Contents
  <2>2. \A db \in Databases : \A v \in 0 .. 5 : v <= Len(Migrations[db])
    <3>1. \A v \in 0 .. 5 : v <= 7 /\ v <= 9
      OBVIOUS
    <3> QED
      BY <3>1, LadderLengths DEF Databases
  <2>3. 7 <= Len(Migrations["historical"])
    BY LadderLengths
  <2>4. /\ \A db \in Databases : Reaches(NoTables, db, 0 + 1, 1)
        /\ Reaches(OldRecorder, "debug", 0 + 1, 1)
    BY FoundFresh DEF Databases
  <2>5. \A db \in Databases : Ready(NoTables, db)
    BY <2>1, <2>2, <2>4, FoundDatabases
  <2>6. Ready(OldRecorder, "debug")
    BY <2>1, <2>2, <2>4, FoundDatabases DEF Databases
  <2>7. Ready(OldHistory, "historical")
    BY <2>1, <2>2, FoundDatabases DEF Databases
  <2>8. Ready(Contents(5, FieldTable, None), "debug")
    BY <2>1, <2>2, FoundDatabases DEF Databases
  <2>9. Ready(FieldHistory, "historical")
    BY <2>1, <2>3, FoundDatabases
  <2>10. Ready(Beside({}), "debug") /\ Ready(Beside({2, 3}), "debug")
    BY <2>1, <2>2, FoundDatabases DEF Databases
  <2> QED
    BY <2>5, <2>6, <2>7, <2>8, <2>9, <2>10
<1> HIDE DEF Ready
<1>2. /\ store = [db \in Databases |-> store[db]]
      /\ \A db \in Databases : Ready(store[db], db)
  <2>1. PICK debug, historical :
            /\ store = Stores(debug, historical)
            /\ Ready(debug, "debug") /\ Ready(historical, "historical")
    BY <1>1 DEF Init, Found, Databases
  <2> QED
    BY <2>1 DEF Stores, Databases
<1>3. /\ pc = [p \in Processes |-> "down"] /\ at = [p \in Processes |-> None]
      /\ overtaken = FALSE
  BY DEF Init
<1> QED
  BY <1>2, <1>3 DEF SchemaInv, Ready, Steps

LEMMA SchemaInvariant == Spec => []SchemaInv
<1>1. SchemaInv /\ [Next]_vars => SchemaInv'
  BY SchemaStep DEF Kept
<1> QED
  BY <1>1, SchemaInit, PTL DEF Spec

\* user_version never records a step whose columns, names or tables are not all
\* there: with any number of daemons and one-shots migrating at once, each of
\* them killed anywhere, unless one has dropped a table another had just filled.
THEOREM RecordedIsThere == Spec => []VersionIsEarned
<1>1. SchemaInv => VersionIsEarned
  <2> SUFFICES ASSUME SchemaInv, ~ overtaken, NEW db \in Databases
               PROVE  HoldsUpTo(store[db], db, store[db].version)
    BY DEF VersionIsEarned
  <2>1. /\ store[db].version \in Nat /\ store[db].version <= Len(Migrations[db])
        /\ Reaches(store[db], db, store[db].version + 1, 1)
    BY DEF SchemaInv, DatabaseInv, IsDatabase
  <2> QED
    BY <2>1, ReachesEarned
<1> QED
  BY <1>1, SchemaInvariant, PTL

\* No statement of any process loses a row, whatever the others have run since
\* it looked, except one of the old recorder whose id another row has.
THEOREM RowsAreKept == Spec => RowsSurvive
<1>1. SchemaInv /\ [Next]_vars =>
          [overtaken' \/ \A r \in RowsOf(store["debug"]) : \E k \in RowsOf(store'["debug"]) :
              k.id = r.id /\ (r.origin # "samples_debug" => k = r)]_store
  <2> SUFFICES ASSUME SchemaInv, [Next]_vars, ~ overtaken', NEW r \in RowsOf(store["debug"])
               PROVE  \E k \in RowsOf(store'["debug"]) :
                          k.id = r.id /\ (r.origin # "samples_debug" => k = r)
    OBVIOUS
  <2>1. RowsKept(store["debug"], store'["debug"])
    BY SchemaStep DEF Kept, Databases
  <2>2. PICK t \in TableNames : HasTable(store["debug"], t) /\ r \in store["debug"].tables[t].rows
    BY DEF RowsOf
  <2>3. PICK u \in TableNames : HasTable(store'["debug"], u) /\
            \E k \in store'["debug"].tables[u].rows :
                k.id = r.id /\ (r.origin # "samples_debug" => k = r)
    BY <2>1, <2>2 DEF RowsKept
  <2>4. store'["debug"].tables[u].rows \subseteq RowsOf(store'["debug"])
    BY <2>3 DEF RowsOf
  <2> QED
    BY <2>3, <2>4
<1> QED
  BY <1>1, SchemaInvariant, PTL DEF Spec, RowsSurvive

\* Who may hold the lock, and how many ends there are.
HolderInv ==
    /\ holder \in Daemons \cup {None} /\ pidFile \in Daemons \cup {None}
    /\ ends \in 0 .. MaxEnds

LEMMA HolderStep == ASSUME LockInv, HolderInv, [Next]_vars PROVE HolderInv'
<1>1. CASE UNCHANGED vars
  BY <1>1 DEF HolderInv, vars
<1>2. ASSUME NEW p \in Processes, Flock(p) \/ WritePid(p) PROVE HolderInv'
  <2>1. p \in Daemons
    BY <1>2 DEF LockInv, Flock, WritePid, Processes, Inside
  <2> QED
    BY <1>2, <2>1 DEF HolderInv, Flock, WritePid
<1>3. ASSUME NEW p \in Processes, End(p) PROVE HolderInv'
  BY <1>3, ProcessAssumption DEF HolderInv, End, Exit
<1>4. ASSUME NEW p \in Processes, Truncate(p) PROVE HolderInv'
  BY <1>4 DEF HolderInv, Truncate
<1>5. ASSUME NEW p \in Processes,
             \/ Launch(p) \/ Lose(p) \/ Look(p) \/ Act(p) \/ Bump(p) \/ Migrated(p) \/ Insert(p)
             \/ OpenStore(p, "openDebug", "debug") \/ OpenStore(p, "openHistorical", "historical")
      PROVE  HolderInv'
  <2>1. UNCHANGED <<pidFile, ends>> /\ (UNCHANGED holder \/ Exit(p))
    BY <1>5 DEF Launch, Lose, Look, Act, Bump, Migrated, Insert, OpenStore
  <2> QED
    BY <2>1 DEF HolderInv, Exit
<1> QED
  BY <1>1, <1>2, <1>3, <1>4, <1>5 DEF Next, Progress

\* Every state is of the declared kind: the place of a migrating process is one
\* its ladder has, and no version is past the end of a ladder.
THEOREM StartupTypes == Spec => []TypeOK
<1>1. Init => HolderInv
  BY ProcessAssumption DEF Init, HolderInv
<1>2. LockInv /\ HolderInv /\ [Next]_vars => HolderInv'
  BY HolderStep
<1>3. SchemaInv /\ HolderInv => TypeOK
  <2> SUFFICES ASSUME SchemaInv, HolderInv PROVE TypeOK
    OBVIOUS
  <2>1. ASSUME NEW p \in Processes
        PROVE  IF pc[p] # "migrating" THEN at[p] = None
               ELSE /\ at[p].db \in Databases /\ at[p].plan \in Plans
                    /\ at[p].step \in 1 .. Len(Migrations[at[p].db]) + 1
    BY DEF SchemaInv, IsPlace
  <2>2. ASSUME NEW db \in Databases PROVE store[db].version \in 0 .. Len(Migrations[db])
    <3>1. Len(Migrations[db]) \in Nat /\ store[db].version \in Nat
          /\ store[db].version <= Len(Migrations[db])
      BY LadderStatements DEF SchemaInv, DatabaseInv, IsDatabase
    <3> QED
      BY <3>1
  <2> QED
    BY <2>1, <2>2 DEF TypeOK, HolderInv, SchemaInv
<1> QED
  BY <1>1, <1>2, <1>3, LockInvariant, SchemaInvariant, PTL DEF Spec
=============================================================================

---------------------------- MODULE LadderProofs ----------------------------
(***************************************************************************)
(* What the statements of a ladder do to a database, whichever process     *)
(* runs them and whatever the others have run in between: a database that  *)
(* follows another keeps what the recorded steps have left behind.         *)
(***************************************************************************)
EXTENDS Ladder, FiniteSetTheorems, TLAPS

Old(k) == Renames[k][1]
New(k) == Renames[k][2]

LEMMA RenamePairs ==
    /\ DOMAIN Renames = 1 .. 2
    /\ Old(1) = "percentage" /\ New(1) = "charge_pct"
    /\ Old(2) = "temperature_c" /\ New(2) = "battery_temp_c"
    /\ OldNames = {"percentage", "temperature_c"}
    /\ NewNames = {"charge_pct", "battery_temp_c"}
<1>1. DOMAIN Renames = 1 .. 2
  BY DEF Renames
<1>2. /\ Old(1) = "percentage" /\ New(1) = "charge_pct"
      /\ Old(2) = "temperature_c" /\ New(2) = "battery_temp_c"
  BY DEF Renames, Old, New
<1>3. OldNames = {Old(1), Old(2)} /\ NewNames = {New(1), New(2)}
  BY <1>1 DEF OldNames, NewNames, Old, New
<1> QED
  BY <1>1, <1>2, <1>3

-----------------------------------------------------------------------------
(***************************************************************************)
(* The ladders.                                                            *)
(***************************************************************************)
Plain == ColumnNames \ (OldNames \cup NewNames)
IsAdd(x) == x.op = "add" /\ x.column \in Plain
IsRename(x) ==
    /\ x.op = "rename" /\ x.table \in TableNames
    /\ \E k \in DOMAIN Renames : x.old = Old(k) /\ x.new = New(k)
IsCreate(x) == x.op = "create" /\ x.columns \in SUBSET (ColumnNames \ OldNames)
IsMove(x, db, step, i) == x.op = "move" /\ db = "debug" /\ step = 3 /\ i = 1

\* A table is created by the first statement of a ladder and never again; the
\* move is the first of the third step; a column the flight recorder adds, it
\* adds after that.
IsStatement(x, db, step, i) ==
    \/ IsCreate(x) /\ step = 1 /\ i = 1
    \/ x.op = "index" \/ x.op = "reindex"
    \/ IsAdd(x) /\ (db = "debug" => step > 3)
    \/ IsRename(x)
    \/ IsMove(x, db, step, i)

LEMMA AddsOne ==
    ASSUME NEW a
    PROVE  \A i \in DOMAIN Adds(<<a>>) : Adds(<<a>>)[i] = [op |-> "add", column |-> a]
  BY DEF Adds

LEMMA AddsTwo ==
    ASSUME NEW a, NEW b
    PROVE  \A i \in DOMAIN Adds(<<a, b>>) :
               \E c \in {a, b} : Adds(<<a, b>>)[i] = [op |-> "add", column |-> c]
  BY DEF Adds

LEMMA AddsOnly ==
    ASSUME NEW a \in Plain, NEW b \in Plain
    PROVE  /\ \A i \in DOMAIN Adds(<<a>>) : IsAdd(Adds(<<a>>)[i])
           /\ \A i \in DOMAIN Adds(<<a, b>>) : IsAdd(Adds(<<a, b>>)[i])
<1>1. ASSUME NEW c \in {a, b}, NEW x, x = [op |-> "add", column |-> c]
      PROVE  IsAdd(x)
  BY <1>1 DEF IsAdd
<1>2. ASSUME NEW i \in DOMAIN Adds(<<a>>)
      PROVE  IsAdd(Adds(<<a>>)[i])
  <2>1. Adds(<<a>>)[i] = [op |-> "add", column |-> a]
    BY AddsOne
  <2> QED
    BY <1>1, <2>1
<1>3. ASSUME NEW i \in DOMAIN Adds(<<a, b>>)
      PROVE  IsAdd(Adds(<<a, b>>)[i])
  <2>1. PICK c \in {a, b} : Adds(<<a, b>>)[i] = [op |-> "add", column |-> c]
    BY AddsTwo
  <2> QED
    BY <1>1, <2>1
<1> QED
  BY <1>2, <1>3

LEMMA StandardiseStatements ==
    ASSUME NEW table \in TableNames
    PROVE  /\ DOMAIN Standardise(table) = 1 .. 2 /\ Len(Standardise(table)) = 2
           /\ \A k \in 1 .. 2 :
                 Standardise(table)[k] =
                      [op |-> "rename", table |-> table, old |-> Old(k), new |-> New(k)]
  BY DEF Standardise, Renames, Old, New

LEMMA HistoricalStatements ==
    /\ Len(HISTORICAL_MIGRATIONS) = 9
    /\ \A step \in 1 .. 9 : \A i \in DOMAIN HISTORICAL_MIGRATIONS[step] :
          IsStatement(HISTORICAL_MIGRATIONS[step][i], "historical", step, i)
<1>1. /\ Len(HISTORICAL_MIGRATIONS) = 9
      /\ HISTORICAL_MIGRATIONS[1] = <<Create(HistoricalColumns), Index>>
      /\ HISTORICAL_MIGRATIONS[2] = Adds(<<"estimated_cycle_count">>)
      /\ HISTORICAL_MIGRATIONS[3] = Adds(Glances)
      /\ HISTORICAL_MIGRATIONS[4] = Adds(Flight)
      /\ HISTORICAL_MIGRATIONS[5] = Standardise("samples")
      /\ HISTORICAL_MIGRATIONS[6] = Adds(<<"power_state">>)
      /\ HISTORICAL_MIGRATIONS[7] = Adds(Boot)
      /\ HISTORICAL_MIGRATIONS[8] = Adds(Stalls)
      /\ HISTORICAL_MIGRATIONS[9] = Adds(Pressure)
  BY DEF HISTORICAL_MIGRATIONS
<1>2. ASSUME NEW step \in {2, 3, 4, 6, 7, 8, 9}, NEW i \in DOMAIN HISTORICAL_MIGRATIONS[step]
      PROVE  IsStatement(HISTORICAL_MIGRATIONS[step][i], "historical", step, i)
  <2>1. IsAdd(HISTORICAL_MIGRATIONS[step][i])
    <3>1. CASE step = 2
      BY <1>1, <1>2, <3>1, AddsOnly, RenamePairs DEF Plain, ColumnNames
    <3>2. CASE step \in {3, 4}
      BY <1>1, <1>2, <3>2, AddsOnly, RenamePairs DEF Plain, ColumnNames, Glances, Flight
    <3>3. CASE step = 6
      BY <1>1, <1>2, <3>3, AddsOnly, RenamePairs DEF Plain, ColumnNames
    <3>4. CASE step \in {7, 8, 9}
      BY <1>1, <1>2, <3>4, AddsOnly, RenamePairs DEF Plain, ColumnNames, Boot, Stalls, Pressure
    <3> QED
      BY <3>1, <3>2, <3>3, <3>4
  <2> QED
    BY <2>1 DEF IsStatement
<1>3. ASSUME NEW i \in DOMAIN HISTORICAL_MIGRATIONS[1]
      PROVE  IsStatement(HISTORICAL_MIGRATIONS[1][i], "historical", 1, i)
  <2>1. HistoricalColumns \in SUBSET (ColumnNames \ OldNames)
    BY RenamePairs DEF HistoricalColumns, ColumnNames
  <2> QED
    BY <1>1, <1>3, <2>1 DEF IsStatement, IsCreate, Create, Index
<1>4. ASSUME NEW i \in DOMAIN HISTORICAL_MIGRATIONS[5]
      PROVE  IsStatement(HISTORICAL_MIGRATIONS[5][i], "historical", 5, i)
  BY <1>1, <1>4, StandardiseStatements, RenamePairs DEF IsStatement, IsRename, TableNames
<1> QED
  BY <1>1, <1>2, <1>3, <1>4

LEMMA DebugStatements ==
    /\ Len(DEBUG_MIGRATIONS) = 7
    /\ \A step \in 1 .. 7 : \A i \in DOMAIN DEBUG_MIGRATIONS[step] :
          IsStatement(DEBUG_MIGRATIONS[step][i], "debug", step, i)
    /\ DEBUG_MIGRATIONS[1][1].op = "create" /\ DEBUG_MIGRATIONS[3] = <<Move, Reindex>>
    /\ \A table \in TableNames, k \in DOMAIN Renames :
          \E i \in DOMAIN DEBUG_MIGRATIONS[2] :
              /\ DEBUG_MIGRATIONS[2][i].op = "rename" /\ DEBUG_MIGRATIONS[2][i].table = table
              /\ DEBUG_MIGRATIONS[2][i].old = Old(k)
<1>1. /\ Len(DEBUG_MIGRATIONS) = 7
      /\ DEBUG_MIGRATIONS[1] = <<Create(DebugColumns), Index>>
      /\ DEBUG_MIGRATIONS[2] = Standardise("samples") \o Standardise("samples_debug")
      /\ DEBUG_MIGRATIONS[3] = <<Move, Reindex>>
      /\ DEBUG_MIGRATIONS[4] = Adds(<<"power_state">>)
      /\ DEBUG_MIGRATIONS[5] = Adds(Boot)
      /\ DEBUG_MIGRATIONS[6] = Adds(Stalls)
      /\ DEBUG_MIGRATIONS[7] = Adds(Pressure)
  BY DEF DEBUG_MIGRATIONS
<1>2. /\ DOMAIN DEBUG_MIGRATIONS[2] = 1 .. 4
      /\ \A k \in 1 .. 2 : DEBUG_MIGRATIONS[2][k]
            = [op |-> "rename", table |-> "samples", old |-> Old(k), new |-> New(k)]
      /\ \A k \in 1 .. 2 : DEBUG_MIGRATIONS[2][k + 2]
            = [op |-> "rename", table |-> "samples_debug", old |-> Old(k), new |-> New(k)]
  BY <1>1 DEF Standardise, Renames, Old, New
<1>3. ASSUME NEW step \in {4, 5, 6, 7}, NEW i \in DOMAIN DEBUG_MIGRATIONS[step]
      PROVE  IsStatement(DEBUG_MIGRATIONS[step][i], "debug", step, i)
  <2>1. IsAdd(DEBUG_MIGRATIONS[step][i])
    <3>1. CASE step = 4
      BY <1>1, <1>3, <3>1, AddsOnly, RenamePairs DEF Plain, ColumnNames
    <3>2. CASE step \in {5, 6, 7}
      BY <1>1, <1>3, <3>2, AddsOnly, RenamePairs DEF Plain, ColumnNames, Boot, Stalls, Pressure
    <3> QED
      BY <3>1, <3>2
  <2> QED
    BY <2>1 DEF IsStatement
<1>4. ASSUME NEW i \in DOMAIN DEBUG_MIGRATIONS[1]
      PROVE  IsStatement(DEBUG_MIGRATIONS[1][i], "debug", 1, i)
  <2>1. DebugColumns \in SUBSET (ColumnNames \ OldNames)
    <3>1. {Glances[k] : k \in DOMAIN Glances} = {"cpu_pct", "top_processes"}
      BY DEF Glances
    <3>2. {Flight[k] : k \in DOMAIN Flight} = {"cpu_freq_mhz", "load1"}
      BY DEF Flight
    <3> QED
      BY <3>1, <3>2, RenamePairs DEF DebugColumns, HistoricalColumns, ColumnNames
  <2> QED
    BY <1>1, <1>4, <2>1 DEF IsStatement, IsCreate, Create, Index
<1>5. ASSUME NEW i \in DOMAIN DEBUG_MIGRATIONS[2]
      PROVE  IsStatement(DEBUG_MIGRATIONS[2][i], "debug", 2, i)
  <2>1. IsRename(DEBUG_MIGRATIONS[2][i])
    BY <1>2, <1>5, RenamePairs DEF IsRename, TableNames
  <2> QED
    BY <2>1 DEF IsStatement
<1>6. ASSUME NEW i \in DOMAIN DEBUG_MIGRATIONS[3]
      PROVE  IsStatement(DEBUG_MIGRATIONS[3][i], "debug", 3, i)
  BY <1>1, <1>6 DEF IsStatement, IsMove, Move, Reindex
<1>7. DEBUG_MIGRATIONS[1][1].op = "create"
  BY <1>1 DEF Create
<1>8. \A table \in TableNames, k \in DOMAIN Renames :
          \E i \in DOMAIN DEBUG_MIGRATIONS[2] :
              /\ DEBUG_MIGRATIONS[2][i].op = "rename" /\ DEBUG_MIGRATIONS[2][i].table = table
              /\ DEBUG_MIGRATIONS[2][i].old = Old(k)
  <2>1. ASSUME NEW k \in 1 .. 2
        PROVE  k \in 1 .. 4 /\ k + 2 \in 1 .. 4
    OBVIOUS
  <2> QED
    BY <1>2, <2>1, RenamePairs DEF TableNames
<1>9. \A step \in 1 .. 7 : \A i \in DOMAIN DEBUG_MIGRATIONS[step] :
          IsStatement(DEBUG_MIGRATIONS[step][i], "debug", step, i)
  BY <1>3, <1>4, <1>5, <1>6
<1> QED
  BY <1>1, <1>7, <1>8, <1>9

\* The ladder of a database is one of the two.
LEMMA LadderStatements ==
    ASSUME NEW db \in Databases
    PROVE  /\ Len(Migrations[db]) \in Nat /\ Len(Migrations[db]) >= 3
           /\ DOMAIN Migrations[db] = 1 .. Len(Migrations[db])
           /\ \A step \in DOMAIN Migrations[db] : \A i \in DOMAIN Migrations[db][step] :
                 IsStatement(Migrations[db][step][i], db, step, i)
<1>1. DOMAIN HISTORICAL_MIGRATIONS = 1 .. 9 /\ DOMAIN DEBUG_MIGRATIONS = 1 .. 7
  BY DEF HISTORICAL_MIGRATIONS, DEBUG_MIGRATIONS
<1>2. \/ db = "debug" /\ Migrations[db] = DEBUG_MIGRATIONS
      \/ db = "historical" /\ Migrations[db] = HISTORICAL_MIGRATIONS
  BY DEF Migrations, Databases
<1>3. \E n \in {7, 9} :
          Len(Migrations[db]) = n /\ DOMAIN Migrations[db] = 1 .. n
  BY <1>1, <1>2, DebugStatements, HistoricalStatements
<1>4. ASSUME NEW step \in DOMAIN Migrations[db], NEW i \in DOMAIN Migrations[db][step]
      PROVE  IsStatement(Migrations[db][step][i], db, step, i)
  <2>1. CASE db = "debug"
    <3>1. step \in 1 .. 7 /\ i \in DOMAIN DEBUG_MIGRATIONS[step] /\ Migrations[db] = DEBUG_MIGRATIONS
      BY <1>1, <1>2, <2>1
    <3> QED
      BY <2>1, <3>1, DebugStatements
  <2>2. CASE db = "historical"
    <3>1. step \in 1 .. 9 /\ i \in DOMAIN HISTORICAL_MIGRATIONS[step]
          /\ Migrations[db] = HISTORICAL_MIGRATIONS
      BY <1>1, <1>2, <2>2
    <3> QED
      BY <2>2, <3>1, HistoricalStatements
  <2> QED
    BY <1>2, <2>1, <2>2
<1> QED
  BY <1>3, <1>4

LEMMA LadderLengths == Len(Migrations["debug"]) = 7 /\ Len(Migrations["historical"]) = 9
  BY DebugStatements, HistoricalStatements DEF Migrations, Databases

-----------------------------------------------------------------------------
(***************************************************************************)
(* The databases.                                                          *)
(***************************************************************************)
IsDatabase(d) ==
    /\ d \in [version : Nat, tables : [TableNames -> Tables \cup {None}]]
    /\ \A t \in TableNames : HasTable(d, t) => IsFiniteSet(d.tables[t].rows)

\* e is d with these two tables.
Becomes(d, e, samples, samples_debug) ==
    /\ e = [version |-> d.version, tables |-> e.tables]
    /\ e.tables \in [TableNames -> {samples, samples_debug}]
    /\ e.tables["samples"] = samples /\ e.tables["samples_debug"] = samples_debug

LEMMA WithTableBecomes ==
    ASSUME NEW d, IsDatabase(d), NEW contents
    PROVE  /\ Becomes(d, WithTable(d, "samples", contents), contents, d.tables["samples_debug"])
           /\ Becomes(d, WithTable(d, "samples_debug", contents), d.tables["samples"], contents)
  BY DEF IsDatabase, WithTable, Becomes, TableNames

LEMMA IndexedBecomes ==
    ASSUME NEW d, IsDatabase(d)
    PROVE  Becomes(d, Indexed(d), [d.tables["samples"] EXCEPT !.index = TRUE],
                   d.tables["samples_debug"])
<1>1. Indexed(d) = WithTable(d, "samples", [d.tables["samples"] EXCEPT !.index = TRUE])
  BY DEF Indexed, WithTable
<1> QED
  BY <1>1, WithTableBecomes

NonEmpty(d) == HasTable(d, "samples") /\ d.tables["samples"].rows # {}
Ids(table) == {row.id : row \in table.rows}
NoOld(d, t) == \A k \in DOMAIN Renames : ~ HasColumn(d, t, Old(k))

\* A column never has its old and its new name beside each other, and only the
\* flight recorder was ever called samples_debug; it has rows.
DatabaseInv(d, db) ==
    /\ IsDatabase(d)
    /\ \A t \in TableNames, k \in DOMAIN Renames :
          ~ (HasColumn(d, t, Old(k)) /\ HasColumn(d, t, New(k)))
    /\ HasTable(d, "samples_debug") =>
          /\ db = "debug" /\ d.tables["samples_debug"].rows # {}
          /\ \A row \in d.tables["samples_debug"].rows : row.origin = "samples_debug"

\* What no statement takes back.
Follows(d, e) ==
    /\ HasTable(e, "samples_debug") =>
          /\ HasTable(d, "samples_debug")
          /\ e.tables["samples_debug"].rows = d.tables["samples_debug"].rows
    /\ HasTable(d, "samples_debug") => HasTable(e, "samples_debug") \/ NonEmpty(e)
    /\ \A t \in TableNames, k \in DOMAIN Renames : HasColumn(e, t, Old(k)) => HasColumn(d, t, Old(k))
    /\ HasTable(d, "samples") /\ ~ HasTable(d, "samples_debug") =>
          /\ HasTable(e, "samples")
          /\ d.tables["samples"].index => e.tables["samples"].index
          /\ \A c \in d.tables["samples"].columns \ OldNames : c \in e.tables["samples"].columns
    /\ NonEmpty(d) => NonEmpty(e) /\ Ids(d.tables["samples"]) \subseteq Ids(e.tables["samples"])

\* A change of samples alone.
LEMMA SamplesChange ==
    ASSUME NEW db, NEW d, DatabaseInv(d, db), NEW table \in Tables, IsFiniteSet(table.rows),
           \A k \in DOMAIN Renames : Old(k) \in table.columns =>
               HasColumn(d, "samples", Old(k)) /\ New(k) \notin table.columns,
           HasTable(d, "samples") =>
               /\ d.tables["samples"].index => table.index
               /\ d.tables["samples"].columns \ OldNames \subseteq table.columns
               /\ d.tables["samples"].rows \subseteq table.rows,
           NEW e, Becomes(d, e, table, d.tables["samples_debug"])
    PROVE  DatabaseInv(e, db) /\ Follows(d, e) /\ e.version = d.version
<1>1. table # None
  BY NoneAssumption
<1>2. /\ e.tables["samples"] = table /\ e.tables["samples_debug"] = d.tables["samples_debug"]
      /\ e.version = d.version
  BY DEF Becomes
<1>3. HasTable(e, "samples") /\ (HasTable(e, "samples_debug") <=> HasTable(d, "samples_debug"))
  BY <1>1, <1>2 DEF HasTable
<1>4. IsDatabase(e)
  BY <1>2, <1>3 DEF Becomes, DatabaseInv, IsDatabase, TableNames
<1>5. \A t \in TableNames, k \in DOMAIN Renames :
          /\ HasColumn(e, t, Old(k)) => HasColumn(d, t, Old(k))
          /\ ~ (HasColumn(e, t, Old(k)) /\ HasColumn(e, t, New(k)))
  BY <1>2, <1>3 DEF DatabaseInv, HasColumn, TableNames
<1>6. DatabaseInv(e, db)
  BY <1>2, <1>3, <1>4, <1>5 DEF DatabaseInv
<1>7. NonEmpty(d) => NonEmpty(e) /\ Ids(d.tables["samples"]) \subseteq Ids(e.tables["samples"])
  BY <1>2, <1>3 DEF NonEmpty, Ids
<1> QED
  BY <1>2, <1>3, <1>5, <1>6, <1>7 DEF Follows

\* Of the rows of d none is lost, except one of the old recorder whose id
\* another has.
RowsKept(d, e) ==
    \A t \in TableNames : HasTable(d, t) => \A r \in d.tables[t].rows :
        \E u \in TableNames : HasTable(e, u) /\ \E k \in e.tables[u].rows :
            k.id = r.id /\ (r.origin # "samples_debug" => k = r)

Evolves(d, e, db) ==
    DatabaseInv(e, db) /\ Follows(d, e) /\ RowsKept(d, e) /\ e.version = d.version

\* Nothing changes, or only the recorded version does.
LEMMA SameTables ==
    ASSUME NEW db, NEW d, DatabaseInv(d, db), NEW e, e.tables = d.tables,
           e \in [version : Nat, tables : [TableNames -> Tables \cup {None}]]
    PROVE  DatabaseInv(e, db) /\ Follows(d, e) /\ RowsKept(d, e)
<1>1. \A t \in TableNames : /\ HasTable(e, t) <=> HasTable(d, t)
                            /\ e.tables[t] = d.tables[t]
  BY DEF HasTable
<1>2. \A t \in TableNames : \A c : HasColumn(e, t, c) <=> HasColumn(d, t, c)
  BY <1>1 DEF HasColumn
<1>3. DatabaseInv(e, db)
  BY <1>1, <1>2 DEF DatabaseInv, IsDatabase, TableNames
<1>4. Follows(d, e)
  BY <1>1, <1>2 DEF Follows, NonEmpty, TableNames
<1> QED
  BY <1>1, <1>3, <1>4 DEF RowsKept

LEMMA SamplesEvolve ==
    ASSUME NEW db, NEW d, DatabaseInv(d, db), NEW table \in Tables, IsFiniteSet(table.rows),
           \A k \in DOMAIN Renames : Old(k) \in table.columns =>
               HasColumn(d, "samples", Old(k)) /\ New(k) \notin table.columns,
           HasTable(d, "samples") =>
               /\ d.tables["samples"].index => table.index
               /\ d.tables["samples"].columns \ OldNames \subseteq table.columns
               /\ d.tables["samples"].rows \subseteq table.rows,
           NEW e, Becomes(d, e, table, d.tables["samples_debug"])
    PROVE  Evolves(d, e, db)
<1>1. DatabaseInv(e, db) /\ Follows(d, e) /\ e.version = d.version
  BY SamplesChange
<1>2. RowsKept(d, e)
  BY NoneAssumption DEF RowsKept, Becomes, HasTable, TableNames
<1> QED
  BY <1>1, <1>2 DEF Evolves

LEMMA CreatedEvolves ==
    ASSUME NEW db, NEW d, DatabaseInv(d, db), NEW columns \in SUBSET (ColumnNames \ OldNames)
    PROVE  /\ Evolves(d, Created(d, columns), db)
           /\ HasTable(Created(d, columns), "samples")
<1>1. CASE HasTable(d, "samples")
  BY <1>1, SameTables DEF Created, Evolves, DatabaseInv, IsDatabase
<1>2. CASE ~ HasTable(d, "samples")
  <2> DEFINE table == [columns |-> columns, rows |-> {}, index |-> FALSE]
  <2>1. table \in Tables /\ IsFiniteSet(table.rows)
    BY FS_EmptySet DEF Tables
  <2>2. \A k \in DOMAIN Renames : Old(k) \notin table.columns
    BY DEF OldNames, Old
  <2>3. Becomes(d, Created(d, columns), table, d.tables["samples_debug"])
    BY <1>2, WithTableBecomes DEF Created, DatabaseInv
  <2>4. Evolves(d, Created(d, columns), db)
    <3> HIDE DEF table
    <3> QED
      BY <1>2, <2>1, <2>2, <2>3, SamplesEvolve
  <2> QED
    BY <2>1, <2>3, <2>4, NoneAssumption DEF Becomes, HasTable
<1> QED
  BY <1>1, <1>2

LEMMA IndexedEvolves ==
    ASSUME NEW db, NEW d, DatabaseInv(d, db), HasTable(d, "samples")
    PROVE  /\ Evolves(d, Indexed(d), db)
           /\ HasTable(Indexed(d), "samples") /\ Indexed(d).tables["samples"].index
<1> DEFINE old == d.tables["samples"]
           table == [old EXCEPT !.index = TRUE]
<1>1. old \in Tables /\ IsFiniteSet(old.rows)
  BY DEF DatabaseInv, IsDatabase, HasTable, TableNames
<1>2. /\ table \in Tables /\ table.columns = old.columns /\ table.rows = old.rows
      /\ table.index = TRUE
  BY <1>1 DEF Tables
<1>3. Becomes(d, Indexed(d), table, d.tables["samples_debug"])
  BY IndexedBecomes DEF DatabaseInv
<1>4. \A k \in DOMAIN Renames : Old(k) \in table.columns =>
          HasColumn(d, "samples", Old(k)) /\ New(k) \notin table.columns
  BY <1>2 DEF DatabaseInv, HasColumn, TableNames
<1>5. Evolves(d, Indexed(d), db)
  <2> HIDE DEF table
  <2> QED
    BY <1>1, <1>2, <1>3, <1>4, SamplesEvolve
<1> QED
  BY <1>2, <1>3, <1>5, NoneAssumption DEF Becomes, HasTable

LEMMA AddedEvolves ==
    ASSUME NEW db, NEW d, DatabaseInv(d, db), HasTable(d, "samples"), NEW c \in Plain
    PROVE  Evolves(d, Added(d, c), db) /\ HasColumn(Added(d, c), "samples", c)
<1> DEFINE old == d.tables["samples"]
           table == [old EXCEPT !.columns = @ \cup {c}]
<1>1. old \in Tables /\ IsFiniteSet(old.rows)
  BY DEF DatabaseInv, IsDatabase, HasTable, TableNames
<1>2. /\ table \in Tables /\ table.columns = old.columns \cup {c} /\ table.rows = old.rows
      /\ table.index = old.index
  BY <1>1 DEF Tables, Plain
<1>3. Becomes(d, Added(d, c), table, d.tables["samples_debug"])
  <2>1. Added(d, c) = WithTable(d, "samples", table)
    BY DEF Added, WithTable
  <2> QED
    BY <2>1, WithTableBecomes DEF DatabaseInv
<1>4. \A k \in DOMAIN Renames : Old(k) \in table.columns =>
          HasColumn(d, "samples", Old(k)) /\ New(k) \notin table.columns
  <2>1. \A k \in DOMAIN Renames : Old(k) # c /\ New(k) # c
    BY DEF Plain, OldNames, NewNames, Old, New
  <2> QED
    BY <1>2, <2>1 DEF DatabaseInv, HasColumn, TableNames
<1>5. Evolves(d, Added(d, c), db)
  <2> HIDE DEF table
  <2> QED
    BY <1>1, <1>2, <1>3, <1>4, SamplesEvolve
<1> QED
  BY <1>2, <1>3, <1>5, NoneAssumption DEF Becomes, HasTable, HasColumn

LEMMA MergedEvolves ==
    ASSUME NEW db, NEW d, DatabaseInv(d, db), HasTable(d, "samples"), HasTable(d, "samples_debug")
    PROVE  /\ Evolves(d, Merged(d), db)
           /\ HasTable(Merged(d), "samples_debug")
           /\ Ids(Merged(d).tables["samples_debug"]) \subseteq Ids(Merged(d).tables["samples"])
<1> DEFINE old == d.tables["samples"]
           other == d.tables["samples_debug"]
           came == {row \in other.rows : row.id \notin {kept.id : kept \in old.rows}}
           table == [old EXCEPT !.rows = old.rows \cup came]
<1>1. /\ old \in Tables /\ IsFiniteSet(old.rows)
      /\ other \in Tables /\ IsFiniteSet(other.rows)
  BY DEF DatabaseInv, IsDatabase, HasTable, TableNames
<1>2. /\ table \in Tables /\ table.columns = old.columns /\ table.rows = old.rows \cup came
      /\ table.index = old.index
  BY <1>1 DEF Tables
<1>3. IsFiniteSet(table.rows)
  <2>1. IsFiniteSet(came)
    BY <1>1, FS_Subset
  <2>2. IsFiniteSet(old.rows \cup came)
    <3> HIDE DEF old, came
    <3> QED
      BY <1>1, <2>1, FS_Union
  <2> QED
    BY <1>2, <2>2
<1>4. Becomes(d, Merged(d), table, other)
  <2>1. Merged(d) = WithTable(d, "samples", table)
    BY DEF Merged, WithTable
  <2> QED
    BY <2>1, WithTableBecomes DEF DatabaseInv
<1>5. \A k \in DOMAIN Renames : Old(k) \in table.columns =>
          HasColumn(d, "samples", Old(k)) /\ New(k) \notin table.columns
  BY <1>2 DEF DatabaseInv, HasColumn, TableNames
<1>6. Evolves(d, Merged(d), db)
  <2>1. old.rows \subseteq table.rows /\ old.columns \ OldNames \subseteq table.columns
    BY <1>2
  <2> HIDE DEF table
  <2> QED
    BY <1>2, <1>3, <1>4, <1>5, <2>1, SamplesEvolve
<1>7. Ids(other) \subseteq Ids(table)
  <2> SUFFICES ASSUME NEW row \in other.rows PROVE row.id \in Ids(table)
    BY DEF Ids
  <2> QED
    BY <1>2 DEF Ids
<1> QED
  BY <1>4, <1>6, <1>7 DEF Becomes, HasTable

LEMMA RenamedEvolves ==
    ASSUME NEW db, NEW d, DatabaseInv(d, db), NEW t \in TableNames, NEW k \in DOMAIN Renames,
           HasColumn(d, t, Old(k)), ~ HasColumn(d, t, New(k))
    PROVE  LET e == Renamed(d, t, Old(k), New(k))
           IN  Evolves(d, e, db) /\ ~ HasColumn(e, t, Old(k))
<1> DEFINE old == d.tables[t]
           table == [old EXCEPT !.columns = (@ \ {Old(k)}) \cup {New(k)}]
           e == Renamed(d, t, Old(k), New(k))
<1>1. old \in Tables /\ IsFiniteSet(old.rows) /\ HasTable(d, t)
  BY DEF DatabaseInv, IsDatabase, HasTable, HasColumn
<1>2. /\ table.columns = (old.columns \ {Old(k)}) \cup {New(k)} /\ table.rows = old.rows
      /\ table.index = old.index /\ table \in Tables
  <2>1. New(k) \in ColumnNames
    BY RenamePairs DEF ColumnNames
  <2> QED
    BY <1>1, <2>1 DEF Tables
<1>3. \A j \in DOMAIN Renames :
          /\ Old(k) # New(j) /\ Old(j) # New(k)
          /\ j # k => Old(j) # Old(k) /\ New(j) # New(k)
  BY RenamePairs
<1>4. e = WithTable(d, t, table)
  BY DEF Renamed, WithTable
<1>5. \A j \in DOMAIN Renames : Old(j) \in table.columns =>
          HasColumn(d, t, Old(j)) /\ New(j) \notin table.columns
  BY <1>1, <1>2, <1>3 DEF DatabaseInv, HasColumn
<1>6. Old(k) \notin table.columns
  BY <1>2, <1>3
<1> HIDE DEF table
<1>7. CASE t = "samples"
  <2>1. Becomes(d, e, table, d.tables["samples_debug"])
    BY <1>4, <1>7, WithTableBecomes DEF DatabaseInv
  <2>2. /\ d.tables["samples"].index => table.index
        /\ d.tables["samples"].columns \ OldNames \subseteq table.columns
        /\ d.tables["samples"].rows \subseteq table.rows
    BY <1>2, <1>7 DEF OldNames, Old
  <2>3. Evolves(d, e, db)
    <3> HIDE DEF e
    <3> QED
      BY <1>1, <1>2, <1>5, <1>7, <2>1, <2>2, SamplesEvolve
  <2> QED
    BY <1>6, <1>7, <2>1, <2>3 DEF Becomes, HasColumn
<1>8. CASE t = "samples_debug"
  <2>1. Becomes(d, e, d.tables["samples"], table)
    BY <1>4, <1>8, WithTableBecomes DEF DatabaseInv
  <2> HIDE DEF e
  <2>2. /\ e.tables["samples"] = d.tables["samples"] /\ e.tables["samples_debug"] = table
        /\ e.version = d.version
    BY <2>1 DEF Becomes
  <2>3. /\ HasTable(e, "samples_debug") /\ HasTable(d, "samples_debug")
        /\ HasTable(e, "samples") <=> HasTable(d, "samples")
    BY <1>1, <1>2, <1>8, <2>2, NoneAssumption DEF HasTable
  <2>4. IsDatabase(e)
    BY <1>1, <1>2, <1>8, <2>1, <2>2, <2>3 DEF Becomes, DatabaseInv, IsDatabase, TableNames
  <2>5. \A u \in TableNames, j \in DOMAIN Renames :
            /\ HasColumn(e, u, Old(j)) => HasColumn(d, u, Old(j))
            /\ ~ (HasColumn(e, u, Old(j)) /\ HasColumn(e, u, New(j)))
    BY <1>5, <1>8, <2>2, <2>3 DEF DatabaseInv, HasColumn, TableNames
  <2>6. DatabaseInv(e, db)
    BY <1>2, <1>8, <2>2, <2>3, <2>4, <2>5 DEF DatabaseInv
  <2>7. NonEmpty(d) => NonEmpty(e) /\ Ids(d.tables["samples"]) \subseteq Ids(e.tables["samples"])
    BY <2>2, <2>3 DEF NonEmpty
  <2>8. Follows(d, e)
    BY <1>2, <1>8, <2>2, <2>3, <2>5, <2>7 DEF Follows
  <2>9. RowsKept(d, e)
    BY <1>2, <1>8, <2>2, <2>3 DEF RowsKept, TableNames
  <2> QED
    BY <1>6, <2>2, <2>6, <2>8, <2>9, <1>8 DEF Evolves, HasColumn, e
<1> QED
  BY <1>7, <1>8 DEF TableNames

\* The old recorder takes the place of a table that is not there.
LEMMA MovedEvolves ==
    ASSUME NEW db, NEW d, DatabaseInv(d, db), HasTable(d, "samples_debug"), ~ HasTable(d, "samples")
    PROVE  /\ DatabaseInv(Moved(d), db) /\ RowsKept(d, Moved(d)) /\ Moved(d).version = d.version
           /\ HasTable(Moved(d), "samples") /\ ~ HasTable(Moved(d), "samples_debug")
           /\ NoOld(d, "samples_debug") => Follows(d, Moved(d))
<1> DEFINE e == Moved(d)
           f == WithTable(d, "samples", d.tables["samples_debug"])
<1>1. /\ e.tables["samples"] = d.tables["samples_debug"] /\ e.tables["samples_debug"] = None
      /\ e = [version |-> d.version, tables |-> e.tables]
      /\ e.tables \in [TableNames -> Tables \cup {None}]
  <2>1. Becomes(d, f, d.tables["samples_debug"], d.tables["samples_debug"])
    BY WithTableBecomes DEF DatabaseInv
  <2>2. d.tables["samples_debug"] \in Tables
    BY DEF DatabaseInv, IsDatabase, HasTable, TableNames
  <2>3. IsDatabase(f)
    <3> HIDE DEF f
    <3> QED
      BY <2>1, <2>2 DEF Becomes, DatabaseInv, IsDatabase, HasTable, TableNames
  <2>4. Becomes(f, e, f.tables["samples"], None)
    <3> HIDE DEF f
    <3>1. e = WithTable(f, "samples_debug", None)
      BY DEF Moved, Dropped, f
    <3> QED
      BY <2>3, <3>1, WithTableBecomes
  <2> HIDE DEF e, f
  <2> QED
    BY <2>1, <2>2, <2>4 DEF Becomes
<1> HIDE DEF e
<1>2. HasTable(e, "samples") /\ ~ HasTable(e, "samples_debug") /\ e.version = d.version
  BY <1>1 DEF HasTable
<1>3. IsDatabase(e)
  BY <1>1, <1>2 DEF DatabaseInv, IsDatabase, TableNames, HasTable
<1>4. \A c : HasColumn(e, "samples", c) <=> HasColumn(d, "samples_debug", c)
  BY <1>1, <1>2 DEF HasColumn
<1>5. DatabaseInv(e, db)
  BY <1>2, <1>3, <1>4 DEF DatabaseInv, HasColumn, TableNames
<1>6. RowsKept(d, e)
  BY <1>1, <1>2 DEF RowsKept, TableNames
<1>7. ASSUME NoOld(d, "samples_debug") PROVE Follows(d, e)
  <2>1. \A t \in TableNames, k \in DOMAIN Renames : ~ HasColumn(e, t, Old(k))
    BY <1>2, <1>4, <1>7 DEF NoOld, HasColumn, TableNames
  <2>2. NonEmpty(e) /\ ~ NonEmpty(d)
    BY <1>1, <1>2 DEF NonEmpty, DatabaseInv
  <2> QED
    BY <1>2, <2>1, <2>2 DEF Follows
<1> QED
  BY <1>2, <1>5, <1>6, <1>7 DEF e

\* A table goes.
LEMMA DroppedEvolves ==
    ASSUME NEW db, NEW d, DatabaseInv(d, db), NEW t \in TableNames
    PROVE  LET e == Dropped(d, t)
               other == IF t = "samples" THEN "samples_debug" ELSE "samples"
           IN  /\ DatabaseInv(e, db) /\ e.version = d.version
               /\ ~ HasTable(e, t) /\ e.tables[other] = d.tables[other]
<1> DEFINE e == Dropped(d, t)
           other == IF t = "samples" THEN "samples_debug" ELSE "samples"
<1>1. /\ e = [version |-> d.version, tables |-> e.tables]
      /\ e.tables \in [TableNames -> {None, d.tables[other]}]
      /\ e.tables[t] = None /\ e.tables[other] = d.tables[other]
  <2>1. CASE t = "samples"
    <3>1. Becomes(d, e, None, d.tables["samples_debug"])
      BY <2>1, WithTableBecomes DEF Dropped, DatabaseInv
    <3> HIDE DEF e
    <3> QED
      BY <2>1, <3>1 DEF Becomes
  <2>2. CASE t = "samples_debug"
    <3>1. Becomes(d, e, d.tables["samples"], None)
      BY <2>2, WithTableBecomes DEF Dropped, DatabaseInv
    <3> HIDE DEF e
    <3> QED
      BY <2>2, <3>1 DEF Becomes
  <2> QED
    BY <2>1, <2>2 DEF TableNames
<1> HIDE DEF e
<1>2. other \in TableNames /\ other # t /\ \A u \in TableNames : u = t \/ u = other
  BY DEF TableNames
<1> HIDE DEF other
<1>3. ~ HasTable(e, t) /\ (HasTable(e, other) <=> HasTable(d, other))
  BY <1>1 DEF HasTable
<1>4. \A u \in TableNames : \A c : HasColumn(e, u, c) => HasColumn(d, u, c)
  BY <1>1, <1>2, <1>3 DEF HasColumn
<1>5. IsDatabase(e)
  <2>1. /\ d \in [version : Nat, tables : [TableNames -> Tables \cup {None}]]
        /\ HasTable(d, other) => IsFiniteSet(d.tables[other].rows)
    BY <1>2 DEF DatabaseInv, IsDatabase
  <2> QED
    BY <1>1, <1>2, <1>3, <2>1 DEF IsDatabase
<1>6. HasTable(e, "samples_debug") =>
          HasTable(d, "samples_debug") /\ e.tables["samples_debug"] = d.tables["samples_debug"]
  BY <1>1, <1>2, <1>3 DEF TableNames
<1>7. DatabaseInv(e, db)
  BY <1>4, <1>5, <1>6 DEF DatabaseInv
<1> QED
  BY <1>1, <1>3, <1>7 DEF e, other

\* An empty table goes, and leaves the old recorder.
LEMMA EmptyDropEvolves ==
    ASSUME NEW db, NEW d, DatabaseInv(d, db), HasTable(d, "samples_debug"),
           HasTable(d, "samples"), d.tables["samples"].rows = {}
    PROVE  Evolves(d, Dropped(d, "samples"), db)
<1> DEFINE e == Dropped(d, "samples")
<1>1. /\ DatabaseInv(e, db) /\ e.version = d.version
      /\ ~ HasTable(e, "samples") /\ e.tables["samples_debug"] = d.tables["samples_debug"]
  BY DroppedEvolves DEF TableNames
<1> HIDE DEF e
<1>2. HasTable(e, "samples_debug")
  BY <1>1 DEF HasTable
<1>3. \A t \in TableNames, k \in DOMAIN Renames : HasColumn(e, t, Old(k)) => HasColumn(d, t, Old(k))
  BY <1>1, <1>2 DEF HasColumn, TableNames
<1>4. Follows(d, e)
  BY <1>1, <1>2, <1>3 DEF Follows, NonEmpty
<1>5. RowsKept(d, e)
  BY <1>1, <1>2 DEF RowsKept, TableNames
<1> QED
  BY <1>1, <1>4, <1>5 DEF Evolves, e

\* The old recorder goes, once a table has its ids.
LEMMA OldDropEvolves ==
    ASSUME NEW db, NEW d, DatabaseInv(d, db), HasTable(d, "samples_debug"), NonEmpty(d),
           Ids(d.tables["samples_debug"]) \subseteq Ids(d.tables["samples"])
    PROVE  Evolves(d, Dropped(d, "samples_debug"), db)
<1> DEFINE e == Dropped(d, "samples_debug")
<1>1. /\ DatabaseInv(e, db) /\ e.version = d.version
      /\ ~ HasTable(e, "samples_debug") /\ e.tables["samples"] = d.tables["samples"]
  BY DroppedEvolves DEF TableNames
<1> HIDE DEF e
<1>2. HasTable(e, "samples") /\ HasTable(d, "samples") /\ NonEmpty(e)
  BY <1>1 DEF HasTable, NonEmpty
<1>3. \A t \in TableNames, k \in DOMAIN Renames : HasColumn(e, t, Old(k)) => HasColumn(d, t, Old(k))
  BY <1>1, <1>2 DEF HasColumn, TableNames
<1>4. Follows(d, e)
  BY <1>1, <1>2, <1>3 DEF Follows
<1>5. RowsKept(d, e)
  <2>1. \A r \in d.tables["samples_debug"].rows :
            /\ r.origin = "samples_debug"
            /\ \E k \in d.tables["samples"].rows : k.id = r.id
    BY DEF Ids, DatabaseInv
  <2> QED
    BY <1>1, <1>2, <2>1 DEF RowsKept, TableNames
<1> QED
  BY <1>1, <1>4, <1>5 DEF Evolves, e

-----------------------------------------------------------------------------
(***************************************************************************)
(* How far the statements of a ladder are behind a database.               *)
(***************************************************************************)

\* As Holds, before the index of a table that was moved is created again.
Left(d, x) ==
    IF x.op = "move" THEN ~ HasTable(d, "samples_debug") /\ HasTable(d, "samples") ELSE Holds(d, x)

Before(s, i, step, n) == s < step \/ (s = step /\ i < n)

\* Every statement before the n-th of a step has been run on d by some process.
Reaches(d, db, step, n) ==
    /\ \A s \in DOMAIN Migrations[db] : \A i \in DOMAIN Migrations[db][s] :
          Before(s, i, step, n) => Left(d, Migrations[db][s][i])
    /\ db = "debug" /\ Before(3, 2, step, n) => d.tables["samples"].index
    /\ Before(1, 1, step, n) => HasTable(d, "samples") \/ HasTable(d, "samples_debug")

LEMMA NamedStatements ==
    /\ \A db \in Databases :
          /\ 1 \in DOMAIN Migrations[db] /\ Len(Migrations[db][1]) = 2
          /\ Migrations[db][1][1].op = "create"
    /\ DOMAIN Migrations["debug"] = 1 .. 7 /\ Migrations["debug"] = DEBUG_MIGRATIONS
    /\ Migrations["debug"][3] = <<Move, Reindex>>
    /\ 1 \in DOMAIN Migrations["debug"][3] /\ Migrations["debug"][3][1].op = "move"
    /\ Len(Migrations["debug"][3]) = 2
<1>1. /\ DOMAIN HISTORICAL_MIGRATIONS = 1 .. 9 /\ Len(HISTORICAL_MIGRATIONS[1]) = 2
      /\ HISTORICAL_MIGRATIONS[1][1].op = "create"
  BY DEF HISTORICAL_MIGRATIONS, Create
<1>2. /\ DOMAIN DEBUG_MIGRATIONS = 1 .. 7 /\ Len(DEBUG_MIGRATIONS[1]) = 2
      /\ DEBUG_MIGRATIONS[3] = <<Move, Reindex>> /\ DEBUG_MIGRATIONS[1][1].op = "create"
  BY DEF DEBUG_MIGRATIONS, Create
<1>3. /\ Migrations["debug"] = DEBUG_MIGRATIONS
      /\ Migrations["historical"] = HISTORICAL_MIGRATIONS
  BY DEF Migrations, Databases
<1>4. Move.op = "move"
  BY DEF Move
<1> QED
  BY <1>1, <1>2, <1>3, <1>4 DEF Databases

\* A step is a sequence of statements.
IsStep(x) == Len(x) \in Nat /\ DOMAIN x = 1 .. Len(x)

LEMMA AddsSteps ==
    ASSUME NEW a, NEW b
    PROVE  IsStep(Adds(<<a>>)) /\ IsStep(Adds(<<a, b>>))
  BY DEF Adds, IsStep

LEMMA StatementsAreSequences ==
    \A db \in Databases : \A step \in DOMAIN Migrations[db] : IsStep(Migrations[db][step])
<1>1. /\ \A step \in {2, 3, 4, 6, 7, 8, 9} : IsStep(HISTORICAL_MIGRATIONS[step])
      /\ \A step \in {4, 5, 6, 7} : IsStep(DEBUG_MIGRATIONS[step])
  <2>1. /\ HISTORICAL_MIGRATIONS[2] = Adds(<<"estimated_cycle_count">>)
        /\ HISTORICAL_MIGRATIONS[3] = Adds(<<"cpu_pct", "top_processes">>)
        /\ HISTORICAL_MIGRATIONS[4] = Adds(<<"cpu_freq_mhz", "load1">>)
        /\ HISTORICAL_MIGRATIONS[6] = Adds(<<"power_state">>)
        /\ HISTORICAL_MIGRATIONS[7] = Adds(<<"boot_id", "uptime_s">>)
        /\ HISTORICAL_MIGRATIONS[8] = Adds(<<"iowait_pct", "psi_io_full">>)
        /\ HISTORICAL_MIGRATIONS[9] = Adds(<<"psi_mem_some", "psi_mem_full">>)
    BY DEF HISTORICAL_MIGRATIONS, Glances, Flight, Boot, Stalls, Pressure
  <2>2. /\ DEBUG_MIGRATIONS[4] = Adds(<<"power_state">>)
        /\ DEBUG_MIGRATIONS[5] = Adds(<<"boot_id", "uptime_s">>)
        /\ DEBUG_MIGRATIONS[6] = Adds(<<"iowait_pct", "psi_io_full">>)
        /\ DEBUG_MIGRATIONS[7] = Adds(<<"psi_mem_some", "psi_mem_full">>)
    BY DEF DEBUG_MIGRATIONS, Boot, Stalls, Pressure
  <2> QED
    BY <2>1, <2>2, AddsSteps
<1>2. /\ IsStep(HISTORICAL_MIGRATIONS[1]) /\ IsStep(HISTORICAL_MIGRATIONS[5])
      /\ IsStep(DEBUG_MIGRATIONS[1]) /\ IsStep(DEBUG_MIGRATIONS[2]) /\ IsStep(DEBUG_MIGRATIONS[3])
  <2>1. \A table \in TableNames : IsStep(Standardise(table))
    BY StandardiseStatements DEF IsStep
  <2>2. IsStep(Standardise("samples") \o Standardise("samples_debug"))
    BY DEF Standardise, Renames, IsStep
  <2> QED
    BY <2>1, <2>2 DEF HISTORICAL_MIGRATIONS, DEBUG_MIGRATIONS, IsStep, TableNames
<1>3. DOMAIN HISTORICAL_MIGRATIONS = 1 .. 9 /\ DOMAIN DEBUG_MIGRATIONS = 1 .. 7
  BY DEF HISTORICAL_MIGRATIONS, DEBUG_MIGRATIONS
<1>4. /\ Migrations["debug"] = DEBUG_MIGRATIONS
      /\ Migrations["historical"] = HISTORICAL_MIGRATIONS
  BY DEF Migrations, Databases
<1> QED
  BY <1>1, <1>2, <1>3, <1>4 DEF Databases

\* Once a recorder's table was moved it stays, and nothing of it goes.
LEMMA MovedStays ==
    ASSUME NEW d, NEW step \in Nat, NEW n \in Nat, Reaches(d, "debug", step, n),
           Before(3, 1, step, n)
    PROVE  ~ HasTable(d, "samples_debug") /\ HasTable(d, "samples")
  BY NamedStatements DEF Reaches, Left

LEMMA ReachesFollows ==
    ASSUME NEW db \in Databases, NEW d, DatabaseInv(d, db), NEW e, DatabaseInv(e, db),
           Follows(d, e), NEW step \in Nat, NEW n \in Nat, Reaches(d, db, step, n)
    PROVE  Reaches(e, db, step, n)
<1>1. ASSUME NEW s \in DOMAIN Migrations[db], NEW i \in DOMAIN Migrations[db][s],
             Before(s, i, step, n)
      PROVE  Left(e, Migrations[db][s][i])
  <2> DEFINE x == Migrations[db][s][i]
  <2> SUFFICES Left(e, x)
    OBVIOUS
  <2>1. Left(d, x) /\ IsStatement(x, db, s, i)
    BY <1>1, LadderStatements DEF Reaches
  <2>2. s \in Nat
    BY LadderStatements
  <2> HIDE DEF x
  <2>3. CASE x.op = "move"
    BY <2>1, <2>3 DEF Left, Follows
  <2>4. CASE IsAdd(x) /\ (db = "debug" => s > 3)
    <3>1. ~ HasTable(d, "samples_debug")
      <4>1. CASE db = "debug"
        <5>1. Before(3, 1, step, n)
          BY <1>1, <2>2, <2>4, <4>1 DEF Before
        <5> QED
          BY <4>1, <5>1, MovedStays
      <4>2. CASE db # "debug"
        BY <4>2 DEF DatabaseInv
      <4> QED
        BY <4>1, <4>2
    <3>2. HasColumn(d, "samples", x.column) /\ x.column \notin OldNames
      BY <2>1, <2>4 DEF Left, Holds, IsAdd, Plain
    <3> QED
      BY <2>4, <3>1, <3>2 DEF Follows, HasColumn, Left, Holds, IsAdd
  <2>5. CASE IsRename(x)
    BY <2>1, <2>5 DEF Left, Holds, IsRename, Follows
  <2>6. CASE x.op \in {"create", "index", "reindex"}
    BY <2>6 DEF Left, Holds
  <2> QED
    BY <2>1, <2>3, <2>4, <2>5, <2>6 DEF IsStatement, IsCreate, IsMove
<1>2. ASSUME db = "debug", Before(3, 2, step, n) PROVE e.tables["samples"].index
  <2>1. ~ HasTable(d, "samples_debug") /\ HasTable(d, "samples")
    BY <1>2, MovedStays DEF Before
  <2> QED
    BY <1>2, <2>1 DEF Reaches, Follows
<1>3. ASSUME Before(1, 1, step, n) PROVE HasTable(e, "samples") \/ HasTable(e, "samples_debug")
  BY <1>3 DEF Reaches, Follows, NonEmpty
<1> QED
  BY <1>1, <1>2, <1>3 DEF Reaches

LEMMA ReachesNext ==
    ASSUME NEW db \in Databases, NEW d, NEW step \in DOMAIN Migrations[db],
           NEW n \in DOMAIN Migrations[db][step], n \in Nat,
           Reaches(d, db, step, n), Left(d, Migrations[db][step][n]),
           db = "debug" /\ step = 3 /\ n = 2 => d.tables["samples"].index,
           HasTable(d, "samples") \/ HasTable(d, "samples_debug")
    PROVE  Reaches(d, db, step, n + 1)
<1>1. ASSUME NEW s \in DOMAIN Migrations[db], NEW i \in DOMAIN Migrations[db][s], i \in Nat,
             Before(s, i, step, n + 1)
      PROVE  Before(s, i, step, n) \/ (s = step /\ i = n)
  BY <1>1 DEF Before
<1>2. step \in Nat
  BY LadderStatements
<1>3. Before(3, 2, step, n + 1) => Before(3, 2, step, n) \/ (step = 3 /\ n = 2)
  BY <1>2 DEF Before
<1>4. ASSUME NEW s \in DOMAIN Migrations[db]
      PROVE  \A i \in DOMAIN Migrations[db][s] : i \in Nat
  BY StatementsAreSequences DEF IsStep
<1> QED
  BY <1>1, <1>3, <1>4 DEF Reaches

LEMMA ReachesStep ==
    ASSUME NEW db \in Databases, NEW d, NEW step \in DOMAIN Migrations[db],
           Reaches(d, db, step, Len(Migrations[db][step]) + 1)
    PROVE  Reaches(d, db, step + 1, 1)
<1> DEFINE len == Len(Migrations[db][step])
           n == len + 1
<1>1. ASSUME NEW s \in DOMAIN Migrations[db], NEW i \in DOMAIN Migrations[db][s],
             Before(s, i, step + 1, 1)
      PROVE  Before(s, i, step, n)
  <2>1. s \in Nat /\ step \in Nat
    BY LadderStatements
  <2>2. i \in 1 .. Len(Migrations[db][s]) /\ Len(Migrations[db][s]) \in Nat
    BY StatementsAreSequences DEF IsStep
  <2> QED
    BY <1>1, <2>1, <2>2 DEF Before
<1>2. step \in Nat /\ step >= 1 /\ n \in Nat /\ (step = 1 => n = 3)
      /\ (db = "debug" /\ step = 3 => n = 3)
  <2>1. step \in Nat /\ step >= 1
    BY LadderStatements
  <2>2. len \in Nat
    BY StatementsAreSequences DEF IsStep
  <2>3. step = 1 => len = 2
    BY NamedStatements
  <2>4. db = "debug" /\ step = 3 => len = 2
    BY NamedStatements
  <2> HIDE DEF len
  <2> QED
    BY <2>1, <2>2, <2>3, <2>4
<1>3. /\ db = "debug" /\ Before(3, 2, step + 1, 1) => Before(3, 2, step, n)
      /\ Before(1, 1, step, n)
  BY <1>2 DEF Before
<1> QED
  BY <1>1, <1>3 DEF Reaches

\* Where every statement of the recorded steps has been run, each holds.
LEMMA ReachesEarned ==
    ASSUME NEW db \in Databases, NEW d, NEW version \in Nat, version <= Len(Migrations[db]),
           Reaches(d, db, version + 1, 1)
    PROVE  HoldsUpTo(d, db, version)
<1> SUFFICES ASSUME NEW s \in 1 .. version, NEW i \in DOMAIN Migrations[db][s]
             PROVE  Holds(d, Migrations[db][s][i])
  BY DEF HoldsUpTo
<1>1. s \in DOMAIN Migrations[db] /\ Before(s, i, version + 1, 1)
  BY LadderStatements DEF Before
<1>2. Left(d, Migrations[db][s][i]) /\ IsStatement(Migrations[db][s][i], db, s, i)
  BY <1>1, LadderStatements DEF Reaches
<1>3. CASE Migrations[db][s][i].op = "move"
  <2>1. db = "debug" /\ s = 3
    BY <1>2, <1>3 DEF IsStatement, IsCreate, IsAdd, IsRename, IsMove
  <2>2. Before(3, 2, version + 1, 1)
    BY <2>1 DEF Before
  <2> QED
    BY <1>2, <1>3, <2>1, <2>2 DEF Left, Holds, Reaches
<1> QED
  BY <1>2, <1>3 DEF Left

\* What a process found that it is about to act on.
Planned(a, d) ==
    /\ a.plan = "drop" => a.rows = 0 /\ (HasTable(d, "samples_debug") \/ NonEmpty(d))
    /\ a.plan \in {"merge", "dropOld"} => NonEmpty(d)
    /\ a.plan = "dropOld" /\ HasTable(d, "samples_debug") =>
          Ids(d.tables["samples_debug"]) \subseteq Ids(d.tables["samples"])

LEMMA PlannedFollows ==
    ASSUME NEW d, NEW e, Follows(d, e), NEW a, Planned(a, d)
    PROVE  Planned(a, e)
<1>1. NonEmpty(d) => NonEmpty(e) /\ Ids(d.tables["samples"]) \subseteq Ids(e.tables["samples"])
  BY DEF Follows
<1>2. HasTable(e, "samples_debug") =>
          HasTable(d, "samples_debug")
          /\ Ids(e.tables["samples_debug"]) = Ids(d.tables["samples_debug"])
  BY DEF Follows, Ids
<1>3. HasTable(d, "samples_debug") => HasTable(e, "samples_debug") \/ NonEmpty(e)
  BY DEF Follows
<1> QED
  BY <1>1, <1>2, <1>3 DEF Planned
=============================================================================

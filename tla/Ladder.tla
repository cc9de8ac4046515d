------------------------------- MODULE Ladder -------------------------------
(***************************************************************************)
(* The schema ladders of src/src/migrations.rs: what each step executes,   *)
(* statement by statement, and what a statement does to a database.  Every *)
(* statement commits on its own.                                           *)
(*                                                                         *)
(* A table is its columns, its rows (an id, and where the row came from)   *)
(* and whether its time index exists; None is a table that does not.  The  *)
(* columns no later step names are one, "base", and of the columns one     *)
(* step adds or renames one by one the first and the last are kept.        *)
(***************************************************************************)
EXTENDS Naturals, Sequences, FiniteSets

CONSTANT None

ColumnNames ==
    { "base", "estimated_cycle_count", "power_state", "cpu_pct", "top_processes",
      "cpu_freq_mhz", "load1", "boot_id", "uptime_s", "iowait_pct", "psi_io_full",
      "psi_mem_some", "psi_mem_full", "percentage", "temperature_c", "charge_pct",
      "battery_temp_c" }

Tables ==
    [ columns : SUBSET ColumnNames,
      rows : SUBSET [id : Nat, origin : {"samples", "samples_debug", "tick"}],
      index : BOOLEAN ]

ASSUME NoneAssumption == None \notin Tables

Databases == {"debug", "historical"}
TableNames == {"samples", "samples_debug"}

-----------------------------------------------------------------------------
Create(columns) == [op |-> "create", columns |-> columns]
Index == [op |-> "index"]      \* fails if there is no table
Reindex == [op |-> "reindex"]  \* skipped if there is no table
Move == [op |-> "move"]
Adds(columns) == [i \in DOMAIN columns |-> [op |-> "add", column |-> columns[i]]]

Renames == << <<"percentage", "charge_pct">>, <<"temperature_c", "battery_temp_c">> >>

OldNames == {Renames[i][1] : i \in DOMAIN Renames}
NewNames == {Renames[i][2] : i \in DOMAIN Renames}

\* standardise_column_names
Standardise(table) ==
    [i \in DOMAIN Renames |->
        [op |-> "rename", table |-> table, old |-> Renames[i][1], new |-> Renames[i][2]]]

Glances == <<"cpu_pct", "top_processes">>
Flight == <<"cpu_freq_mhz", "load1">>
Boot == <<"boot_id", "uptime_s">>
Stalls == <<"iowait_pct", "psi_io_full">>
Pressure == <<"psi_mem_some", "psi_mem_full">>

HistoricalColumns == {"base"} \cup NewNames
DebugColumns ==
    HistoricalColumns \cup {"estimated_cycle_count"}
        \cup {Glances[i] : i \in DOMAIN Glances} \cup {Flight[i] : i \in DOMAIN Flight}

HISTORICAL_MIGRATIONS ==
    << <<Create(HistoricalColumns), Index>>,
       Adds(<<"estimated_cycle_count">>),
       Adds(Glances),
       Adds(Flight),
       Standardise("samples"),
       Adds(<<"power_state">>),
       Adds(Boot),
       Adds(Stalls),
       Adds(Pressure) >>

\* Mutant: the index is not created again after the move.
DebugUnindexed ==
    << <<Create(DebugColumns), Index>>,
       Standardise("samples") \o Standardise("samples_debug"),
       <<Move>>,
       Adds(<<"power_state">>),
       Adds(Boot),
       Adds(Stalls),
       Adds(Pressure) >>

DEBUG_MIGRATIONS ==
    << <<Create(DebugColumns), Index>>,
       Standardise("samples") \o Standardise("samples_debug"),
       <<Move, Reindex>>,
       Adds(<<"power_state">>),
       Adds(Boot),
       Adds(Stalls),
       Adds(Pressure) >>

\* A step's version is its place in the ladder.
Migrations == [db \in Databases |->
    IF db = "debug" THEN DEBUG_MIGRATIONS ELSE HISTORICAL_MIGRATIONS]

-----------------------------------------------------------------------------
(***************************************************************************)
(* Reading and changing a database d.                                      *)
(***************************************************************************)
HasTable(d, table) == d.tables[table] # None

HasColumn(d, table, column) ==
    HasTable(d, table) /\ column \in d.tables[table].columns

\* The guards of add_column_if_not_exists and rename_column_if_exists.
\* Mutant: a column is added without looking.
NeededUnseen(d, s) ==
    \/ s.op = "add"
    \/ s.op = "rename" /\ HasColumn(d, s.table, s.old) /\ ~ HasColumn(d, s.table, s.new)

Needed(d, s) ==
    \/ s.op = "add" /\ ~ HasColumn(d, "samples", s.column)
    \/ s.op = "rename" /\ HasColumn(d, s.table, s.old) /\ ~ HasColumn(d, s.table, s.new)

WithTable(d, table, contents) == [d EXCEPT !.tables[table] = contents]

Created(d, columns) ==
    IF HasTable(d, "samples") THEN d
    ELSE WithTable(d, "samples", [columns |-> columns, rows |-> {}, index |-> FALSE])

Indexed(d) == [d EXCEPT !.tables["samples"].index = TRUE]

Added(d, column) ==
    [d EXCEPT !.tables["samples"].columns = @ \cup {column}]

Renamed(d, table, old, new) ==
    [d EXCEPT !.tables[table].columns = (@ \ {old}) \cup {new}]

Dropped(d, table) == WithTable(d, table, None)

\* ALTER TABLE samples_debug RENAME TO samples
Moved(d) ==
    Dropped(WithTable(d, "samples", d.tables["samples_debug"]), "samples_debug")

\* INSERT OR IGNORE INTO samples SELECT * FROM samples_debug
Merged(d) ==
    LET kept == d.tables["samples"].rows
        ids == {row.id : row \in kept}
    IN  [d EXCEPT !.tables["samples"].rows =
            kept \cup {row \in d.tables["samples_debug"].rows : row.id \notin ids}]

\* The row AUTOINCREMENT inserts next.
Fresh(table) ==
    LET ids == {0} \cup {row.id : row \in table.rows}
    IN  [id |-> 1 + CHOOSE i \in ids : \A j \in ids : j <= i, origin |-> "tick"]

\* Mutant: the destination is not asked for its rows.
MovePlanUncounted(d) ==
    IF ~ HasTable(d, "samples_debug") THEN "none"
    ELSE IF ~ HasTable(d, "samples") THEN "rename"
    ELSE "drop"

\* What rename_table_if_exists finds to do: "none", or the first statement.
MovePlan(d) ==
    IF ~ HasTable(d, "samples_debug") THEN "none"
    ELSE IF ~ HasTable(d, "samples") THEN "rename"
    ELSE IF d.tables["samples"].rows = {} THEN "drop"
    ELSE "merge"

-----------------------------------------------------------------------------
\* What a statement of a recorded step leaves behind, whoever ran it.
Holds(d, statement) ==
    \/ statement.op \in {"create", "index", "reindex"}
    \/ statement.op = "add" /\ HasColumn(d, "samples", statement.column)
    \/ statement.op = "rename" /\ ~ HasColumn(d, statement.table, statement.old)
    \/ /\ statement.op = "move"
       /\ ~ HasTable(d, "samples_debug")
       /\ HasTable(d, "samples") /\ d.tables["samples"].index

HoldsUpTo(d, db, version) ==
    \A step \in 1 .. version :
        \A i \in DOMAIN Migrations[db][step] : Holds(d, Migrations[db][step][i])

\* Every column INSERT_SQL names, in one table, with its index.
Whole(d, db) ==
    /\ HasTable(d, "samples") /\ d.tables["samples"].index
    /\ NewNames \cup {"base", "estimated_cycle_count"} \subseteq d.tables["samples"].columns
    /\ HoldsUpTo(d, db, Len(Migrations[db]))
=============================================================================

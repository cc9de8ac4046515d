----------------------------- MODULE Processes -----------------------------
(***************************************************************************)
(* The CPU share of each process: ProcessReader                            *)
(* (src/src/telemetry/processes.rs) over the totals ProcReader reads       *)
(* (src/src/telemetry/proc.rs).                                            *)
(*                                                                         *)
(* /proc/stat is read first, each process after it, while they all run: a  *)
(* total is a moment older than what it is compared with.  Processes come  *)
(* and go, a PID is given again, a file or the whole listing may not read. *)
(* Names, memory and the cut to the five busiest groups are left out: a    *)
(* group's ticks are the sum of its processes'.                            *)
(***************************************************************************)
EXTENDS Integers, FiniteSetsExt, Functions

CONSTANTS
    Pids,
    MaxTicks        \* bound: CPU time since boot

ASSUME ProcessesAssumption == MaxTicks \in Nat

VARIABLES
    total,                  \* CPU time of the machine
    work,                   \* CPU time of each live process
    stat,                   \* the total of this tick's /proc/stat, until the listing
    memTotal,               \* ProcReader::mem_total_kb has been resolved
    previous,               \* per-PID ticks of the last listing
    previous_total_ticks,
    rows,                   \* ticks the last snapshot gives each process
    elapsed,                \* ticks it measures them against
    did,                    \* history variable: what each listed process did since
    skew,                   \* history variable: work between total and listing
    unlisted                \* history variable: a listing failed since the last one

processVars ==
    <<total, work, stat, memTotal, previous, previous_total_ticks, rows, elapsed, did, skew,
      unlisted>>

Unread == -1
Nobody == [p \in {} |-> 0]
ItsTicks(f, p) == IF p \in DOMAIN f THEN f[p] ELSE 0
Saturating(x) == IF x < 0 THEN 0 ELSE x

-----------------------------------------------------------------------------
\* The beginning of a tick: proc_stat and mem_total_kb.  Only a total that was
\* read is kept; without both there is no listing.
ReadStat(statReads, meminfoReads) ==
    /\ memTotal' = (memTotal \/ meminfoReads)
    /\ stat' = IF statReads /\ memTotal' THEN total ELSE Unread
    /\ rows' = Nobody /\ elapsed' = 0
    /\ UNCHANGED <<total, work, previous, previous_total_ticks, did, skew, unlisted>>

\* Mutant: what a process did before it was first seen is counted.
LifetimeDelta(p) == Saturating(work[p] - ItsTicks(previous, p))

\* A process seen for the first time has done nothing yet.
Delta(p) == IF p \in DOMAIN previous THEN Saturating(work[p] - previous[p]) ELSE 0

\* Mutant: processes that were not read are kept from the listing before.
SwapKeeping(listed) ==
    [p \in listed \cup DOMAIN previous |-> IF p \in listed THEN work[p] ELSE previous[p]]

\* The maps are swapped: previous is this listing, and nothing else.
Swap(listed) == Restrict(work, listed)

\* read: the total is kept whether or not there is a listing.
List ==
    /\ stat # Unread
    /\ previous_total_ticks' = stat
    /\ \E listed \in SUBSET DOMAIN work :
          /\ previous' = Swap(listed)
          /\ elapsed' = Saturating(stat - previous_total_ticks)
          /\ rows' = [p \in IF elapsed' = 0 THEN {} ELSE listed |-> Delta(p)]
          /\ did' = [p \in listed |-> 0]
          /\ skew' = total - stat /\ unlisted' = FALSE
    /\ stat' = Unread
    /\ UNCHANGED <<total, work, memTotal>>

ListFails ==
    /\ stat # Unread
    /\ previous_total_ticks' = stat
    /\ stat' = Unread /\ unlisted' = TRUE
    /\ UNCHANGED <<total, work, memTotal, previous, rows, elapsed, did, skew>>

-----------------------------------------------------------------------------
\* The machine: time passes, in a process or not, with as many cores as it takes.
Work(p) ==
    /\ p \in DOMAIN work /\ total < MaxTicks
    /\ total' = total + 1 /\ work' = [work EXCEPT ![p] = @ + 1]
    /\ did' = IF p \in DOMAIN did THEN [did EXCEPT ![p] = @ + 1] ELSE did
    /\ UNCHANGED <<stat, memTotal, previous, previous_total_ticks, rows, elapsed, skew, unlisted>>

Idle ==
    /\ total < MaxTicks
    /\ total' = total + 1
    /\ UNCHANGED <<work, stat, memTotal, previous, previous_total_ticks, rows, elapsed, did, skew,
                   unlisted>>

\* A process ends, or one starts, under a PID that may have been another's.
Ends(p) ==
    /\ p \in DOMAIN work
    /\ work' = Restrict(work, DOMAIN work \ {p})
    /\ UNCHANGED <<total, stat, memTotal, previous, previous_total_ticks, rows, elapsed, did, skew,
                   unlisted>>

Starts(p) ==
    /\ p \notin DOMAIN work
    /\ work' = [q \in DOMAIN work \cup {p} |-> ItsTicks(work, q)]
    /\ UNCHANGED <<total, stat, memTotal, previous, previous_total_ticks, rows, elapsed, did, skew,
                   unlisted>>

MachineStep ==
    Idle \/ \E p \in Pids : Work(p) \/ Ends(p) \/ Starts(p)

\* This part alone: Telemetry runs it within its ticks.
ProcessNext ==
    \/ stat = Unread /\ \E statReads, meminfoReads \in BOOLEAN : ReadStat(statReads, meminfoReads)
    \/ List \/ ListFails
    \/ MachineStep

ProcessInit ==
    /\ total = 0 /\ work = Nobody /\ stat = Unread /\ memTotal = FALSE
    /\ previous = Nobody /\ previous_total_ticks = 0
    /\ rows = Nobody /\ elapsed = 0
    /\ did = Nobody /\ skew = 0 /\ unlisted = FALSE

ProcessSpec == ProcessInit /\ [][ProcessNext]_processVars

-----------------------------------------------------------------------------
Listing == stat # Unread /\ stat' = Unread

\* No process is given CPU time it did not spend since it was last listed:
\* across missed reads, ends, and PIDs given again, no tick counts twice and no
\* newcomer brings its past (read: that "would make every new process look like
\* a runaway").
NothingCreditedTwice ==
    [][Listing => \A p \in DOMAIN rows' : rows'[p] <= ItsTicks(did, p)]_processVars

\* Together the processes are given no more than the interval had, but for what
\* ran between the two reads.  After a listing that failed they may be: the
\* total was kept, the processes were not.
SharesFit ==
    [][Listing => unlisted \/ SumFunction(rows') <= elapsed' + skew']_processVars
=============================================================================

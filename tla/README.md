# batmon in TLA+

A verification project for batmon, a battery flight recorder: a daemon that
samples a laptop's battery once a second into a rolling SQLite database
(`debug.db`), once a minute into a permanent one (`battery.db`), counts charge
cycles by energy throughput, and announces battery conditions on the desktop.

Paths below are those of the repository, `src/` standing for its Rust sources.
`PROJECT.json` maps every definition to its lines.

## 1. The system

| component | state it keeps | operations | interacts with |
|---|---|---|---|
| Recorder (`daemon.rs`) | `previous`, `battery_was_absent`, `tick_count` | one tick: prune, sample, adopt, record, alert, append to the history | everything below; single thread |
| Store (`db.rs`) | one table of rows per database, WAL, `synchronous=NORMAL` | `latest`, `insert`, `insert_integrating_cycles`, `retain_newest`, `checkpoint` | shared by the daemon and a one-shot |
| Cycle integrator (`cycles.rs`) | none | `compute_estimated_cycles` | called on both tables |
| One-shot (`main.rs`) | none between runs | sample, insert into both tables, checkpoint | runs beside the daemon, takes no lock |
| Alert engine (`alerts/`) | six latches | `evaluate`, `reset` | fed by the tick, feeds the notifier |
| Thresholds, schedule (`config.rs`) | constants | `validate` | assumption of engine and recorder |
| Battery reader, sampler (`telemetry/battery.rs`, `sampler.rs`) | cached runtime estimates, a warning flag | `sample`: a sample, an absent pack, or nothing | sysfs, UPower, thermal, proc |
| Thermal reader (`telemetry/thermal.rs`) | cached sensor paths, reads since the scan | `read` | hwmon, renumbered at will |
| CPU and process rates (`telemetry/proc.rs`, `processes.rs`) | previous counters, per-PID ticks, `boot_id` | `cpu_rates`, `read` | `/proc` |
| Notifier (`dbus/notifications.rs`) | proxy, last attempt, bubble per family | `deliver` | the notification server, over D-Bus |
| UPower (`dbus/upower.rs`) | proxy | two property reads with a timeout | UPower |
| Lock (`lock.rs`) | `flock` and a PID in the file | `acquire` | other daemons |
| Migrations (`migrations.rs`) | `user_version` and the schema | `migrate` | every process that opens a store |
| Discovery (`paths.rs`) | the chosen battery | `discover_battery_path`, once | the power supplies |
| Formats, units, scripts | none | pure, or I/O | - |

What is hard here. A tick is a dozen fallible steps, and `?` may end it between
any two of them: each leaves a different piece of memory behind the tables. The
process can die between two commits; the machine can lose power and with it a
suffix of each table, independently; another process can insert in between. The
pack can be unreadable, gone, or another one. The alert latches must say one
thing once, over readings that dither, jump and drop out, in six families whose
thresholds and deadbands overlap. Everything runs on one thread, so that a slow
tick, a late sleep and a desktop that does not answer all delay the next sample.
Two processes may migrate one database at once, statement by statement, with the
version recorded by a statement of its own. And three readers remember something
of hardware that is renumbered, put to sleep, swapped or replaced between reads.

What makes each component correct:

- *integrator and recorder*: the count never falls and never shows wear that did
  not go through a load; a restart picks up exactly where the tables are; the
  recorder stays bounded and pruning never takes a row of the window;
- *alert engine*: what is to be warned of is announced once, in time, and nothing
  else is;
- *notifier, service loop*: recording does not depend on the desktop; an alert
  reaches a server that is there;
- *lock and migrations*: one daemon at a time; an interrupted ladder resumes;
- *telemetry*: a cache never speaks for hardware that changed under it.

`PROJECT.json` lists the hazards line by line, with the properties that cover
each, or why none does yet.

## 2. The modules

| module | models | kind |
|---|---|---|
| `Cycles` | `cycles.rs`, and the part of a sample and of a row it reads | pure operators |
| `Recorder` | `daemon.rs`, `db.rs`, the life of the daemon and the one-shot of `main.rs`, with machine and battery as environment | a state machine |
| `CycleMeter` | the promise `cycles.rs` and `db.rs` make of the count | an abstract specification |
| `Thresholds` | `Thresholds::validate` | a predicate, assumed of `T` |
| `Alerts` | the six families and the debounce | pure operators |
| `AlertEngine` | `evaluate`, `reset`, and what lost attributes become in a sample | a state machine |
| `MCAlertEngine` | the default thresholds and readings around each | TLC definitions |
| `Service` | the loop of `daemon.rs` in time, the termination thread of `main.rs`, `dbus/notifications.rs`, with the session as environment | a state machine with fairness |
| `Ladder` | the steps of `migrations.rs` and what a statement does to a database | data and pure operators |
| `Startup` | `lock.rs`, `migrate`, `Store::open` by several processes | a state machine with fairness |
| `Thermal` | `telemetry/thermal.rs` | a reader: operators and actions |
| `Processes` | `telemetry/processes.rs` and the totals of `telemetry/proc.rs` | a reader, and a specification of its own |
| `Estimates` | the estimates of `telemetry/sampler.rs` and `dbus/upower.rs` | a reader |
| `Discovery` | `discover_battery_path` of `paths.rs` | operators and two actions |
| `Telemetry` | one tick of the sampler: the four above, composed | a state machine |
| `Induction` | induction over naturals and finite sets, least and greatest members | lemmas |
| `LadderProofs` | what the statements of a ladder keep of a database | lemmas |
| `CyclesProofs`, `RecorderProofs`, `AlertProofs`, `ServiceProofs`, `StartupProofs`, `TelemetryProofs` | theorems | proofs |

`Recorder`, `Service` and `Telemetry` are three views of one tick: what it writes,
how long it takes and whom it calls, what it reads. They share no variable in the
code but the sample and the alerts, and each takes the others' as free choices: any
sample in `Recorder`, any set of alerts and any cost in `Service`, any readability
in `Telemetry`.

### Recorder

A tick is a sequence of steps, one per SQLite statement or reading; `pc` says
which is next (`prune`, `trim`, `sample`, `adoptDebug`, `adoptHistory`, `record`,
`alert`, `history`, `append`). A statement that may fail is a step with a failing
alternative, `FailedTick`, which ends the tick as `?` does and leaves everything
it did so far in place. `previous`, `batteryWasAbsent` and `tickCount` are the
fields of `Daemon`; `sample`, `count`, `boundary`, `found` are the tick's locals.
`tickCount` is kept modulo the two intervals, which is all the code asks of it.

A table is a function from row ids to rows, and a row is what the integration
reads back: energy, boot, uptime and count. Every time the daemon wakes, one interval
of the world has passed (`Used`, `Removed`, `Seated`). In one interval the pack discharges the whole time or is on the
charger the whole time; a discharge within a sample interval that a charge hides is
below the recorder's resolution, and leaving it out makes `drained` (the wear that
really went through a load, a history variable) exactly what an ideal recorder
would count. On the charger the reading may drift either way (`Drifts`). Energies are whole watt-hours and a count is a number of
`CycleUnits`-ths of a cycle, so that the division is exact: what floating point
rounds is outside the model.

`Life` is what surrounds the tick: `Start`, `Stop` (a signal, seen between two
ticks, then the two checkpoints), `Kill` at any step, `IdleInterval`s with no
daemon, `Reboot`, `PowerLoss`. With `synchronous=NORMAL` a commit survives the
process but not a loss of power: `debugSynced` and `historySynced` are what of
each table is on the disk, `Writeback` and a checkpoint advance them, and
`PowerLoss` sets each table back to its own.

`OneShot` is the second process, statement by statement, on the same tables.

Alerting is one abstract latch here (`latched`, readings `raised`, `held`,
`clear`): enough to ask what unreadable, failed and absent ticks do to it. The
real latches are the other half of the project.

`Faults` and `Events` choose what may go wrong in a run. `CycleMeter` is the
abstraction: a meter that counts up, by at most one cycle at a time, whose
readings become durable now and then, and which a loss of power sets back to a
durable one. `Recorder` is shown to implement it with the newest row's count as
the meter.

### AlertEngine

A latch is a variable, a family is two operators of `Alerts` (the latch after a
sample; what the step announces), and `Evaluate` steps all six. The environment
picks a condition of the hardware and at most one attribute that will not read;
`Sampled` is what the sampler makes of the two. The properties are about the
hardware. `spoken` counts how often each alert spoke of what it last spoke of,
and forgets when that has gone by the whole deadband (`Relieved`, from the
README of batmon and the names of the thresholds); `hot` and `idle` count the run
of samples a debounced alert needs; `undue` and `owed` are what the last sample
announced without a cause, or should have and did not. These are written from
the hardware condition and never look at a latch. `atBandEnd` remembers that the
health was exactly at the end of its band, the one boundary the README and the
code put differently.

### Service

`pc` is where the thread is: `loop` (the flag is read), `tick`, `deliver`,
`asleep`, `flush`, `down`. Time is a number and relative to the thread: `slack` is
the deadline minus now, `sinceAttempt` the age of `last_attempt`; a step that takes
time chooses how much from `Costs` or `Oversleeps` (`Passes`). `Pace` is the end of
an iteration: the deadline moves on by one interval, or to now if that is past
already. `Signal`, `Watch` and `Finish` are a signal, the thread that sees it and
the loop that sees what that thread wrote. `behind`, `last` and `prior` only
measure.

`Deliver` is `deliver` up to the call: bind again if there is no proxy and
`RECONNECT_INTERVAL` has passed. `Answered` and `Failed` are how the call returns;
while the server is `hung` neither is possible, and the thread waits. The session
is a bus that comes and goes, a server that starts, stops, hangs and recovers on
it, other programs' bubbles, and people who close them. A restarted server counts
its identifiers from 1 again: `mixedUp` records that the daemon still held some.

### Ladder and Startup

A schema is a table's columns, rows and index. The columns no step names are one
column, and of those one step adds or renames one by one the first and the last are
kept: two, so that an interruption can fall between them. A step is a sequence of
statements, each committed alone. `Look` is a guard (`add_column_if_not_exists`
asks, `rename_table_if_exists` asks and counts) or a statement that needs none;
`Act` is the statement the guard planned, against whatever the database has become;
a statement SQLite refuses ends the process. `Bump` records the step.

A daemon takes the lock before it opens a database and a one-shot takes none, as in
`main.rs`; both then open and migrate the flight recorder and the history. `End`
kills a process, or fails it, at any point, and the kernel drops its lock. A daemon
that runs inserts rows (`Insert`), so that a second process migrates a database in
use. `Found` is what the releases have left in the field: nothing, the flight
recorder under its old table name, alone or beside an empty or a filled new one,
old column names, and the versions field databases sit at.

### Telemetry

A tick that reads the battery reads the sensors (`ReadThermals`), the estimates
(`RefreshEstimates`) and `/proc/stat` (`ReadStat`); the processes are listed later,
by `List`, and the machine runs on in between. A tick that does not read it drops
the estimates and touches nothing else (`NoSample`). Between any two steps the
machine may change: a sensor fails or wakes, an hwmon directory is vacated and
taken by another device, a process works, ends, starts under an old PID, a pack is
pulled and another seated, a supply appears.

The scan of the hwmon tree is a recursive function, `walk`: what is known after the
first so many directories, in name order. A directory's listing is any permutation of
its names, sorted as `names.sort()` does; the candidates are places in what is sorted,
and `Iterator::find` takes the least place of the first tier that has one.

A path is the directory it is under, a reading the directory it came from, an
estimate the pack and the rail it was asked of: what the properties need to ask
whether a thing read is the thing recorded. The four parts share only the tick, so
that one of them varies in each behaviour (`Parts`).

## 3. The runs

Each finishes within two minutes with two workers.

| run | asks | answer |
|---|---|---|
| `recorder_faults` | one pack that stays; every statement may fail, kills, losses of power, unreadable pack or design capacity | holds: types, history never falls, no phantom wear in either table, prune keeps the window |
| `recorder_series` | as above, history inserts and prunes succeed | holds: recorder's count never falls and implements `CycleMeter`, recorder stays bounded |
| `recorder_swap` | packs removed and seated, of two design capacities, readings that drift on the charger; no statement fails, restarts while a pack is seated | holds: no phantom wear in the recorder |
| `recorder_oneshot` | a one-shot between the daemon's statements, kills, packs unreadable or away, any statement failing | holds: prune keeps the window, no announcement repeated for want of a reading |
| `alerts` | default thresholds, all bands, one attribute lost at a time | holds: speaks once, in time, with cause; but for a health at exactly 82% |
| `startup` | a service, a second daemon and a one-shot start, migrate and insert over every database a release left, one kill or failure anywhere | holds: one daemon, its PID in the file, the version is earned, no row is lost, some daemon ends up serving |
| `service` | ticks and sleeps that overrun, signals and kills, a bus and a server that come, go, restart and hang | holds: no burst, no drift, one bubble per family and only its own, recording goes on, a signal ends it, a late bus is found |
| `telemetry` | sensors, processes, packs and supplies that change between any two steps of a tick | holds: one GPU, nothing missed for long or misattributed, no CPU time counted twice, no estimate outlives its pack, the system's battery is chosen |
| `swap_history` | a swap, nothing fails | **violated**: the history counts the difference between the packs |
| `history_fails` | one insert into the history fails | **violated**: the recorder's count falls |
| `oneshot_series` | a one-shot beside the daemon | **violated**: the recorder's count falls |
| `voltage_gap` | the design voltage may be unreadable | **violated**: the over-voltage alert repeats |

These four violations are disagreements between the code and what it, its comments
or its changelog say; `PROJECT.json` quotes the lines. The shortest story of each:

- *swap_history*: append to the history; take the pack out; put a lower one in;
  the next append, while discharging, integrates across. The recorder's own guard,
  `battery_was_absent`, is not passed to `insert_integrating_cycles`.
- *history_fails*: the row is in `debug.db`, the history insert fails, `?` skips
  `previous = Some(sample)`. The next tick starts from the row before, and if the
  charger is in by then the discharge in between is dropped below a row that has it.
- *oneshot_series*: a one-shot takes its sample before the daemon records, or
  inserts between two ticks; the daemon integrates from its memory.
- *voltage_gap*: with `voltage_min_design` unreadable the sampler substitutes the
  present voltage, the ratio is 1, and the latch is released.

Some properties of the passing runs hold but for a case that they name. In the first
three the code and its documents disagree, as in the violated runs; the others are
limits of the code:

- *a health of exactly 82%* (`atBandEnd`): "Battery Health Degradation: Warning when
  full capacity drops below 80% [...] (re-arms above 82%)", says batmon's README
  (`README.md:141`), and `health.rs:43` re-arms at 82% as well, a value that a
  percentage rounded to two decimals does take. On 79, 82, 79 the alert speaks twice.
  `config.rs:227-232` takes the code's side: it lets `cap_warn` and the band sum to
  100, which is a re-arm point only if reaching it is enough. `Relieved` takes the
  README's; every other band ends where both say. Without the exception TLC refutes
  `SpeaksOnce` in three readings.
- *a server that hangs* (`Responsive`): `Notify` is called without a timeout
  (`notifications.rs:128`; UPower's calls have one, `upower.rs:24`), on the thread
  that samples. While it waits nothing is recorded, and a signal only sets a flag
  nobody reads, though `main.rs:146-147` says that "shutdown latency is bounded by one
  tick, because a sleeping thread finishes its sleep first": it is, unless the thread
  is not asleep but in that call.
- *a failed listing* (`unlisted`, `processes.rs:99`): the total of `/proc/stat` is kept
  and the per-process ticks are not, so that the next shares measure two intervals
  of work against one, and may sum to more than one. "CPU is the share of the
  interval's total ticks", says `processes.rs:94-95`.
- *a server that restarts* (`mixedUp`): the identifiers held are the old server's,
  and the next alert may replace a bubble of another program that has been given
  the same number.
- *a bus that restarts*: the proxy is bound and dead, `server.is_none()` is false,
  and `deliver` never binds again. `Heard` says only that a bus is found.
- *a one-shot that migrates beside a daemon* (`overtaken`): between counting no rows
  in `samples` and dropping it (`migrations.rs:106-113`) the other process may have
  moved the old table there, rows and all. It needs a database of the release that
  left both tables, and a process that takes no lock: two daemons cannot
  (`DaemonsNeverOvertake`).
- *a pack that was swapped unseen* (`unnoticed`, `sampler.rs:147`): if every tick in
  between read the attributes and the rail is the same, the old pack's estimate stays
  for the TTL. That includes a tick that read them beside a `present` = 0 and could
  have told the packs apart: the cache is dropped only where they do not read.
- *a directory reused* (`reused`, `thermal.rs:147`): a device that takes the number
  another left between two reads is read as the other, since nothing failed.
- *nothing but a peripheral* (`paths.rs:189`): the daemon keeps it, and looks again only
  when it is restarted.

### Bounds, and why they are enough

`MaxId` 3 (5 for the one-shot) rows per table is one more than any property
compares, with rows before and after a prune, a restart and an absence; ids are
never reused, so a table's *past* length is bounded, not only its present one.
`HistoryInterval` 2 gives ticks that append and ticks that do not;
`PruneInterval` 1 or 2 and `RetentionRows` 1 or 2 make pruning happen in every
behaviour of more than two ticks. `MaxEnergy` 1 or 2 Wh over `Designs` {2} or
{1, 2} has partial and whole cycles, deltas above the design capacity and, in
`recorder_swap`, packs that differ. `MaxDrained` 2 or 3 units is more than one
cycle, so that a discharge counted twice shows. `MaxBoots` 2 is one reboot or
power loss, in any state; the restarts of the process are not bounded. The
proofs below lift every bound for the properties they cover.

`AlertEngine` needs no bound: its state is finite under any thresholds.
`MCAlertEngine` has a reading on each side of every threshold and inside every
band of each family, the health exactly at the end of its band, and conditions in
which all families are at their worst;
families share no latch, so their readings are mostly moved one family at a time.

`startup` has two daemons, one of them restarted by systemd, and a one-shot: three
processes that may be anywhere in a ladder, two of them behind no lock from each
other. `MaxEnds` 1 is one kill or failure, at any statement; starting again is not
bounded. `MaxRows` 4 is one row more than a merge of the two filled tables leaves.

`service` has an `Interval` of 2, ticks and answers that cost 0, 1 or 3 (none, half
an interval, more than one) and sleeps that end on time or 3 late, so that a
deadline is met, missed by less than an interval and by more. `Reconnect` 3 is more
than an interval: alerts come in between. Two families and `MaxBubbles` 2
identifiers are enough for a bubble to be taken by the wrong one, and for the
numbers to start again; the proofs lift both.

`telemetry` has two hwmon directories (a second GPU, a device that takes another's
place) and one class of sensor beside the GPU's, as the code locates the CPU's and
the NVMe drive's alike; `RESCAN_INTERVAL` 3 for 60 and `ESTIMATE_TTL` 2 ticks for 60
seconds leave reads on either side of each; two PIDs and four ticks of CPU time
make a PID used again and a share above its interval; two packs and three rails;
three supplies, two of them named like batteries.

What the runs leave out on purpose:

- `recorder_swap` lets no statement fail, and stops the daemon only while a pack is
  seated: if the insert or the prune fails, or the daemon restarts, `batteryWasAbsent`
  is lost and the next tick integrates across the absence. A removal is always
  seen as an absence by a tick: a directory that is gone or `present` = 0, for a
  tick or more, as `is_present` reports it.
- Readings drift only in intervals that a tick ends, and in no run with unreadable
  ticks, failures or kills: what lies between the two ends of a gap is counted by its
  net difference if the gap ends discharging, whatever the charger did in it.
- Every sample has its `boot_id` and none an uptime, so that the uptime half of
  `crossed_boot_boundary` decides nothing in a run (`CountRises` covers both).
- `alerts` keeps `energy_full_design` and `voltage_min_design` readable. Losing the
  first makes the health read 100, which releases the health latch; the second is
  `voltage_gap`.
- `SpeaksOnce` is checked for the default thresholds. `check_charge` accepts a low
  threshold within a deadband of the critical one; there, a level that dithers just
  above low makes critical speak again inside its deadband. (Give
  `NarrowThresholds` to `T` in `Alerts.cfg` to see it.)

### Fairness

`Recorder`, `AlertEngine` and `Telemetry` have none: what is checked of them is
safety, and a daemon may be killed, or sleep, for ever.

`Service`: weak fairness of the thread and of the watcher. Both are threads the
kernel runs, a sleep ends, a call that cannot be delivered returns an error, and a
server that answers does answer. Nothing of the environment is fair, and a server
that hangs for good disables the thread: `Recording` and `SignalEnds` are claimed
only of desktops that do not (`Responsive`), and `Heard` of a bus that stays.

`Startup`: weak fairness of each process's progress, as above, and of starting the
service, because its unit says `Restart=on-failure` (`systemd/batmon.service:8`) and
every way a start ends in the model is a failure. A daemon started by hand and a
one-shot need never be started again. `Served` is therefore of the pair: whoever
holds the lock, some daemon ends up running on two whole databases.

### Mutants

Each property of each passing run has a mutation of the code it must catch: a
boundary one row off, a guard on reboots or absences dropped, an adoption from
the coarser table, a streak that survives a lull, a gap that releases a latch, a
lock that is let go once the PID is written, a column added without looking, a
deadline made up for, a replacement identifier shared, a second GPU's power beside
the first one's temperature.
They stand before the definition they replace, under the comment "Mutant".

## 4. What is proved

With TLAPS, for every value of the constants that the modules' assumptions allow:

- `CountRises` (`CyclesProofs`): `compute_estimated_cycles` returns at least the
  carried count and at most one cycle more. From `DesignsAssumption`: a design
  capacity divides the unit of the count.
- `TypeCorrect` (`RecorderProofs`): `Spec => []TypeOK`. The invariant, `TypeInv`,
  adds what the locals are at each `pc`, that the row a pending `DELETE` keeps is
  in the table, and that a non-empty table has a newest row (`HasNewest`: the code
  takes `ORDER BY id DESC LIMIT 1`, the model a `CHOOSE`, which means something only
  if there is one).
- `SeriesNeverFalls`: `Spec => []DebugSeriesNeverFalls`, if no history insert fails
  and no one-shot runs (`Undisturbed`) - the two cases the violated runs show. That
  the rows rise is not inductive: `SeriesInv` adds that between ticks `previous`
  carries the newest row's count, that during one the newest row is the one just
  inserted, and that the history is adopted from only while the recorder is empty.
- `HistoryNeverFalls`: `Spec => []HistorySeriesNeverFalls`, if no one-shot runs.
  Failures do not matter to it: `HistoryInv` needs only that what a tick found
  newest is still newest when it appends.
- `RecorderImplementsMeter`: `Spec => ImplementsCycleMeter`, as `SeriesNeverFalls`.
  A recorded row is a `Count`, a prune a stutter, a checkpoint a `Persist`.
- `WindowKept`: `Spec => PruneKeepsNewest`, one-shots and all. `PruneInv` adds that while
  a `DELETE` is pending, `RetentionRows` rows reach back to its boundary; rows only
  come until it runs.
- `AnnouncementsReleased`: `Spec => []AnnouncedOnce`. A latch that is not set has been
  released (`LatchInv`).
- `WearIsReal`, `HistoryWearIsReal`: `Spec => []NoPhantomWear` and its twin, while one
  pack stays in its seat, its readings do not drift on the charger, and no one-shot
  runs (`OnePack`). That no row shows more than `drained` is not inductive, since a
  tick may integrate from any row it finds newest after a failure, a restart or a
  loss of power. `WearInv` says of every row of the four tables, and of what the
  daemon holds, that its count and the discharge from its energy down to the present
  one are together within `drained`, unless the row is of an earlier boot, which
  `crossed_boot_boundary` keeps from being integrated (`Backed`).
- `SwapIsNoWear`: `Spec => []NoPhantomWear` with packs taken out and seated and readings
  that drift on the charger, when no statement fails, every pack is readable and the
  daemon is stopped only while a recorded pack is seated (`Swapping`). Rows of a pack
  that is gone are backed by nothing, so `SwapInv` asks it of the newest row alone, and
  only while a tick could integrate from it (`Exposed`): a pack is seated, no absence
  is remembered, and it is not on the charger.
- `AlertTypes` (`AlertProofs`): `Spec => []TypeOK`, for all validated thresholds.
- `AlertsSpeakOnce`, `AlertsAreDue`, `AlertsHaveCause`: `SpeaksOnce`, `NothingOwed` and
  `NothingUndue` (the first with the exception it names) for all validated thresholds
  with `charge_crit_warn + charge_hysteresis_pct < charge_low_warn` (`Apart`), and
  `Gaps` without the two design attributes (`Handled`). `AlertInv` couples each latch with what has been
  said: an alert has spoken exactly while a latch that stands for it is set (of the
  health's latch, unless `atBandEnd`, only that it has while the latch is set), and a
  debounced latch counts the run of hot samples. One lemma per family shows its
  step keeps the coupling; the engine's step is their conjunction.
- `LockExcludes`, `FileNamesHolder` (`StartupProofs`): `OneDaemon` and `PidStands`, for
  any number of daemons and one-shots and any deaths. `LockInv`: a daemon
  holds the lock from `flock` to its end, and the file names it from the end of
  `acquire`; a one-shot comes near neither.
- `DaemonsNeverOvertake`: without one-shots, `overtaken` stays false. `CountInv`: a
  daemon about to drop a table counted just the rows it has, as nobody else is past
  the lock to insert one.
- `TicksSpread`, `CadenceHeld` (`ServiceProofs`): `NoBurst` and `Cadence`, for every
  interval, cost and oversleep. `LoopInv` says where in
  the loop which of the last two ticks makes up for the slack that is left.
- `BubblesReplaced`, `BubblesOwn`: `OneBubblePerFamily` and `OwnBubble`, for any families
  and identifiers. `BubbleInv`: a bubble of a family's is the one its entry names;
  until a server starts behind the entries, an entry names a bubble of that family
  or one that was closed, and none yet to be given out.
- `CreditedOnce` (`TelemetryProofs`): `Spec => NothingCreditedTwice`. The invariant
  bounds what is above a process's baseline by what it did since it was listed; it is
  proved of `ProcessSpec`, which a tick of `Telemetry` refines.
- `RuntimeOfItsPack`: `Spec => RuntimeFits`, from what the cached estimate is of while
  no unseen swap has happened.
- `FlightRecorderBounded` (`RecorderProofs`): `Spec => []DebugBounded`, if no prune fails
  and no one-shot runs (`Pruning`). That the table stays within the window and a prune
  interval is not inductive: `BoundInv` gives the rows it may have at each phase of the
  interval (`Room`), of the table and of what of it is on the disk, and says that a pending
  `DELETE` leaves `RetentionRows`. A prune that finds no boundary leaves the table as it
  is, and is right to: `NthNewest` exists whenever there are that many rows.
- `RecordedIsThere` (`StartupProofs`): `Spec => []VersionIsEarned`, for any number of
  daemons and one-shots. `SchemaInv` says what a database at a version, with a process at
  a statement, must already have (`Reaches`): the effect of every statement before it.
  This survives the other processes because no statement takes back what a recorded step
  has left behind (`Follows`, in `LadderProofs`, statement by statement); the one that
  does, dropping a table whose rows were counted too early, sets `overtaken`.
- `RowsAreKept`: `Spec => RowsSurvive`, from the same. `SchemaInv` says of a planned
  statement what is still so when it runs, whatever the others have run since the guard
  looked (`Planned`): a merge finds rows to merge into, a drop an empty table or sets
  `overtaken`.
- `StartupTypes`: `Spec => []TypeOK`. From `NoneAssumption`: the absence of a table is not
  a table.
- `LatenessBounded` (`ServiceProofs`): `Spec => []TypeOK`, whose bound on the slack is the
  point of it: the deadline is never further behind than the longest oversleep, one slow
  tick and a slow answer to each alert. `Bounded` is assumed: costs, oversleeps and
  families are finite sets. `LateInv`: at the start of an iteration it is behind by an
  oversleep at most, and in one by as many answers more as alerts have been dealt with.
- `OneGpuAlways`, `ReadingsAttributed` (`TelemetryProofs`): `Spec => []OneGpu` and
  `Spec => Attributed`, for any number of directories. `WalkedTo` is what the scan keeps
  from one directory to the next, proved by induction over them; `ThermalInv` carries it
  into the cache: a cached path is of a device of its class until the directory is vacated.
- `FoundAlways`: `Spec => []Found`, for every `RESCAN_INTERVAL` above 1 (it is 60,
  `thermal.rs:42`; with 1 a scan that has just failed is already a miss too many).
  `CountInv`: a reading is missed only while the cache is incomplete, and then no more
  often than the reads since the last scan.
- `SharesWithinTotal`: `Spec => SharesFit`, for any processes. `AccountInv`: what the
  processes of the last listing have done since, the total that was kept and what ran
  before that listing are together within the total. It rests on lemmas about
  `SumFunction`: it exists, does not depend on an order, and is monotone.
- `SystemBatteryFirst`: `Spec => SystemFirst`, for any names. What is sorted exists and is
  the same for every listing (`AscendingExists`), so that the first place of a tier is its
  least name. `DiscoveryInv`: a directory has finitely many entries.
- `TelemetryTypes`: `Spec => []TypeOK`, from the readers' invariants together.
- `TicksOfProcesses`: `Spec => ProcessSpec`, the refinement that lets `CreditedOnce` and
  `SharesWithinTotal` be proved of the process reader alone.

Every invariant and every action property of the passing runs is the subject of a theorem.
The assumptions that a theorem makes beyond those of the modules (`Undisturbed`, `OnePack`,
`Swapping`, `Pruning`, `Apart`, `Handled`, `Bounded`, `RESCAN_INTERVAL > 1`) are met by the
constants of the run that checks its property.

Where a definition is recursive (`walk`, `SumFunction`), the induction is over a set in the
place of a predicate (`NaturalInduction`, `SubsetInduction`, from the library's theorem that
finite sets are well founded), and begins with the existence of the function.

Only model-checked: `Served`, `Recording`, `SignalEnds` and `Heard`, liveness under
fairness, which is out of the prover's reach.

## 5. Plan

Done: every module of the first plan, their runs, and the theorems above. What a
next step could take, in this order:

1. The restart that forgets `battery_was_absent`, stated as a property with its
   exception.
2. The ranking of process groups and the cut to the five busiest, against a
   reference definition; `cpu_rates`.
3. The charge-reporting packs of the battery reader: what a changed
   `voltage_min_design` does to the count.

## 6. Not modelled

Floating point, rounding, formatting and parsing (`formats.rs`, `units.rs`): no state,
and arithmetic TLC does not have. The unit conversions of the battery reader, and with
them what a changed `voltage_min_design` does to a pack that reports charge instead of
energy. `cpu_rates`, the difference of two counters, the `boot_id` that is read once, the
readers of single files (load, pressure, frequencies, power), and the grouping, ranking
and rendering of processes: one pass over fresh values each, with nothing remembered.
A `time_to_full` that is negative because `energy_now` is above `energy_full`
(`sampler.rs:231`): the magnitude of an estimate is not in `Estimates`. Which file of an
hwmon directory a reading is in. The encoding of a UPower object path. The overrides by
environment variables. Texts, icons and urgencies of notifications; what a one-shot's
own alert engine announces. SQLite itself, whose statements are atomic, durable against
the death of a process, and rolled back by a loss of power to a prefix; in `Startup`
its lock is a statement that fails, or waits. The installer and the service unit, but
for its `Restart`.

Time in `Service` is the thread's. On Linux `Instant` is `CLOCK_MONOTONIC`, which stands
still while the machine is suspended, so that a suspend is no oversleep and the
resynchronisation of `run` does not see it, whatever the comment at `daemon.rs:192` hopes;
a slow tick or a starved thread is what `Oversleeps` stands for.

------------------------------ MODULE Thermal ------------------------------
(***************************************************************************)
(* ThermalReader (src/src/telemetry/thermal.rs): where the sensors were    *)
(* found is remembered between reads, while drivers load late, devices go  *)
(* to sleep and directories change their numbers.                          *)
(*                                                                         *)
(* A temperature is whether it can be read; a path is the directory it is  *)
(* under.  The CPU and the NVMe drive are located alike (the first device  *)
(* in name order that has a usable sensor), so an instance may take one.   *)
(***************************************************************************)
EXTENDS Integers

CONSTANTS
    None,
    Directories,        \* bound: hwmon directories, in name order 1 .. Directories
    Singles,            \* of "cpu" and "nvme", the classes looked for
    HasTemp,            \* the battery has a temp attribute of its own
    RESCAN_INTERVAL

ASSUME ThermalAssumption ==
    /\ Directories \in Nat /\ RESCAN_INTERVAL \in Nat \ {0}
    /\ Singles \subseteq {"cpu", "nvme"} /\ HasTemp \in BOOLEAN
    /\ None \notin Nat

VARIABLES
    hwmon,              \* the device each directory stands for: its driver's kind
                        \* and which of its sensors read
    child,              \* the sensor under the battery's own directory
    sensors,            \* ThermalReader::sensors
    reads_since_scan,
    thermals,           \* where the last read got each reading from
    missed,             \* history variable: consecutive reads that were without a
                        \* reading some device offered
    vacated,            \* history variable: directories vacated since the last read
    reused              \* history variable: one of those was taken by another device

thermalVars == <<hwmon, child, sensors, reads_since_scan, thermals, missed, vacated, reused>>

Dirs == 1 .. Directories
Device(kind, temp, power) == [kind |-> kind, temp |-> temp, power |-> power]

\* Only amdgpu reports power.
Devices ==
    {None} \cup {Device(k, t, FALSE) : k \in Singles, t \in BOOLEAN}
           \cup {Device("gpu", t, p) : t, p \in BOOLEAN}
Children == {None, 1, 2}

Is(d, kind) == hwmon[d] # None /\ hwmon[d].kind = kind
Temp(d) == hwmon[d] # None /\ hwmon[d].temp
Power(d) == hwmon[d] # None /\ hwmon[d].power
Path(holds, d) == IF holds THEN d ELSE None

-----------------------------------------------------------------------------
Nothing ==
    [single |-> [c \in Singles |-> None], gpu_temp |-> None, gpu_power |-> None, battery |-> None]

is_incomplete(s) ==
    \/ \E c \in Singles : s.single[c] = None
    \/ s.gpu_temp = None \/ s.gpu_power = None \/ s.battery = None

\* Mutant: each reading is taken from the first GPU that has it.
AdoptApart(s, d) ==
    IF ~ Is(d, "gpu") THEN s
    ELSE [s EXCEPT !.gpu_temp = IF @ = None THEN Path(Temp(d), d) ELSE @,
                   !.gpu_power = IF @ = None THEN Path(Power(d), d) ELSE @]

\* A GPU's two readings are adopted together, if nothing was yet, or the pair
\* is whole and the one adopted is not.
Adopt(s, d) ==
    LET have_both == s.gpu_temp # None /\ s.gpu_power # None
        nothing_adopted_yet == s.gpu_temp = None /\ s.gpu_power = None
    IN  IF Is(d, "gpu") /\ (nothing_adopted_yet \/ (~ have_both /\ Temp(d) /\ Power(d)))
        THEN [s EXCEPT !.gpu_temp = Path(Temp(d), d), !.gpu_power = Path(Power(d), d)]
        ELSE s

\* One device of the walk over the tree.
Visit(s, d) ==
    [Adopt(s, d) EXCEPT !.single =
        [c \in Singles |-> IF @[c] = None /\ Is(d, c) THEN Path(Temp(d), d) ELSE @[c]]]

\* What the devices up to d leave located.
walk[d \in 0 .. Directories] ==
    IF d = 0 THEN [Nothing EXCEPT !.battery = child] ELSE Visit(walk[d - 1], d)

scan == walk[Directories]

\* What the located paths give now.
Reading(s) ==
    [ single |-> [c \in Singles |-> IF s.single[c] # None /\ Temp(s.single[c])
                                    THEN s.single[c] ELSE None],
      gpu_temp |-> IF s.gpu_temp # None /\ Temp(s.gpu_temp) THEN s.gpu_temp ELSE None,
      gpu_power |-> IF s.gpu_power # None /\ Power(s.gpu_power) THEN s.gpu_power ELSE None,
      battery |-> IF s.battery # None /\ s.battery = child THEN s.battery ELSE None ]

\* Mutant: the battery's sensor is not counted.
StaleSystem(s) == [Reading(s) EXCEPT !.battery = s.battery] # s
\* Mutant: the cache is dropped when nothing it has reads.
StaleWhole(s) == Reading(s) = Nothing

\* A located path that does not read.
Stale(s) == Reading(s) # s

\* A read without a reading that some device offered.
Offered(c) ==
    CASE c \in Singles -> \E d \in Dirs : Is(d, c) /\ Temp(d)
      [] c = "gpu" -> \E d \in Dirs : Is(d, "gpu") /\ Temp(d) /\ Power(d)
      [] c = "battery" -> HasTemp \/ child # None
Got(r, c) ==
    CASE c \in Singles -> r.single[c] # None
      [] c = "gpu" -> r.gpu_temp # None /\ r.gpu_power # None
      [] c = "battery" -> HasTemp \/ r.battery # None
Classes == Singles \cup {"gpu", "battery"}

Least(x, y) == IF x < y THEN x ELSE y

\* read: the cache is dropped beforehand when it is incomplete and old, and
\* afterwards when a path of it failed; what did read is returned either way.
ReadThermals ==
    LET reads == Least(reads_since_scan + 1, RESCAN_INTERVAL)
        drop == reads >= RESCAN_INTERVAL /\ sensors # None /\ is_incomplete(sensors)
        rescan == drop \/ sensors = None
        s == IF rescan THEN scan ELSE sensors
    IN  /\ reads_since_scan' = IF rescan THEN 0 ELSE reads
        /\ thermals' = Reading(s)
        /\ sensors' = IF Stale(s) THEN None ELSE s
        /\ missed' = [c \in Classes |->
              IF Offered(c) /\ ~ Got(Reading(s), c)
              THEN Least(missed[c] + 1, RESCAN_INTERVAL) ELSE 0]
        /\ vacated' = {}
        /\ UNCHANGED <<hwmon, child, reused>>

Successors(d) ==
    IF hwmon[d] = None THEN Devices \ {None}
    ELSE {device \in Devices \ {hwmon[d]} : device = None \/ device.kind = hwmon[d].kind}

\* The kernel: a sensor of a device fails or comes back, a device leaves, and
\* the next to arrive may get its number.
HwmonChanges(d) ==
    /\ \E device \in Successors(d) :
          /\ hwmon' = [hwmon EXCEPT ![d] = device]
          /\ vacated' = IF device = None THEN vacated \cup {d} ELSE vacated
          /\ reused' = (reused \/ (hwmon[d] = None /\ d \in vacated))
    /\ UNCHANGED <<child, sensors, reads_since_scan, thermals, missed>>

ChildChanges ==
    /\ child' \in Children \ {child}
    /\ UNCHANGED <<hwmon, sensors, reads_since_scan, thermals, missed, vacated, reused>>

ThermalInit ==
    /\ hwmon = [d \in Dirs |-> None] /\ child = None
    /\ sensors = None /\ reads_since_scan = 0
    /\ thermals = Nothing /\ missed = [c \in Classes |-> 0]
    /\ vacated = {} /\ reused = FALSE

-----------------------------------------------------------------------------
\* The GPU's temperature and its power are of one device, whatever was asleep
\* when the tree was walked and whatever has moved since (scan: they "can only
\* ever describe one device").
OneGpu ==
    thermals.gpu_temp # None /\ thermals.gpu_power # None => thermals.gpu_temp = thermals.gpu_power

\* A reading some device offers at every read is not missed for a
\* RESCAN_INTERVAL, whatever else fails, and whether its place was once known,
\* has changed, or was never there when the tree was walked.
Found == \A c \in Classes : missed[c] < RESCAN_INTERVAL

\* The kind of device each reading is of, and the directory it was got from.
Sources(r) ==
    {<<c, r.single[c]>> : c \in Singles} \cup {<<"gpu", r.gpu_temp>>, <<"gpu", r.gpu_power>>}

\* No reading is of another kind of device than it is recorded as, though the
\* directories are renumbered: unless one changed hands between two reads, when
\* no read of it failed (read: "A sensor that stops reading invalidates the
\* cache ... That covers the cases where hwmon numbering really can change").
Attributed ==
    [][ReadThermals => \/ reused
                       \/ \A s \in Sources(thermals') : s[2] # None => Is(s[2], s[1])]_thermalVars
=============================================================================

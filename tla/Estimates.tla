----------------------------- MODULE Estimates -----------------------------
(***************************************************************************)
(* The runtime estimates: the Sampler's cache of what UPower says          *)
(* (src/src/telemetry/sampler.rs, src/src/dbus/upower.rs) and the          *)
(* arithmetic it falls back to.  An estimate is the pack and the rail it   *)
(* is of, and its age; packs are swapped, the charger comes and goes, and  *)
(* a pack's attributes read, fail, or outlive it.                          *)
(***************************************************************************)
EXTENDS Integers

CONSTANTS
    Absent,
    Rails,          \* of PowerState
    Seatable,       \* the packs
    ESTIMATE_TTL    \* in ticks

ASSUME EstimatesAssumption ==
    ESTIMATE_TTL \in Nat \ {0} /\ Absent \notin Seatable

VARIABLES
    seated,         \* the pack in the seat
    rail,           \* the power state its status gives
    readable,       \* its energy and capacity read
    upower,         \* UPower has the device, and answers with more than zero
    poll,           \* last_power_state, what was cached, and since last_estimate_poll
    runtime,        \* the runtime in the last sample
    gone,           \* history variable: the seat is empty, and whether a tick could tell
    unnoticed       \* history variable: since the poll, a pack came and every tick
                    \* in between read the attributes, whether of a pack that had
                    \* left them behind or beside a present = 0

estimateVars == <<seated, rail, readable, upower, poll, runtime, gone, unnoticed>>

-----------------------------------------------------------------------------
Estimate(age) == [pack |-> seated, rail |-> rail, age |-> age]

\* device.get_property: an error, and anything not above zero, is no estimate;
\* nor is one asked for off the two rails.
Asked == IF upower /\ rail \in {"Discharging", "Charging"} THEN Estimate(0) ELSE Absent

\* Mutant: what was cached is kept while the rail is the same.
PolledOnRail ==
    IF poll = Absent \/ poll.rail # rail
    THEN [rail |-> rail, cached |-> Asked, age |-> 0]
    ELSE [poll EXCEPT !.age = @ + 1]

\* refresh_estimates
Polled ==
    IF poll = Absent \/ poll.rail # rail \/ poll.age + 1 >= ESTIMATE_TTL
    THEN [rail |-> rail, cached |-> Asked, age |-> 0]
    ELSE [poll EXCEPT !.age = @ + 1]

\* A tick that reads the battery.  Without an estimate, what is left is divided
\* by a draw that is worth dividing by.
RefreshEstimates ==
    /\ readable
    /\ poll' = Polled
    /\ \E draws \in BOOLEAN :
          runtime' = IF Polled.cached # Absent THEN [Polled.cached EXCEPT !.age = Polled.age]
                     ELSE IF draws /\ rail \in {"Discharging", "Charging"} THEN Estimate(0)
                     ELSE Absent
    /\ unnoticed' = (unnoticed /\ Polled.age # 0)
    /\ UNCHANGED <<seated, rail, readable, upower, gone>>

\* Mutant: the cache outlives a battery that does not read.
InvalidateNothing ==
    /\ ~ readable
    /\ runtime' = Absent
    /\ gone' = IF gone = "unseen" THEN "seen" ELSE gone
    /\ UNCHANGED <<seated, rail, readable, upower, poll, unnoticed>>

\* A tick that does not: no sample, or one that says the pack is gone.
InvalidateEstimates ==
    /\ ~ readable
    /\ poll' = Absent /\ runtime' = Absent
    /\ gone' = IF gone = "unseen" THEN "seen" ELSE gone
    /\ unnoticed' = FALSE
    /\ UNCHANGED <<seated, rail, readable, upower>>

\* The hardware: the attributes of a pack may read for a while after it is gone.
Pull ==
    /\ seated # Absent
    /\ seated' = Absent /\ gone' = "unseen"
    /\ UNCHANGED <<rail, readable, upower, poll, runtime, unnoticed>>

Seat(p) ==
    /\ seated = Absent
    /\ seated' = p /\ gone' = "no"
    /\ unnoticed' = (unnoticed \/ gone = "unseen")
    /\ UNCHANGED <<rail, readable, upower, poll, runtime>>

Attributes ==
    /\ rail' \in Rails /\ readable' \in BOOLEAN /\ upower' \in BOOLEAN
    /\ seated = Absent => ~ (readable' /\ ~ readable)
    /\ UNCHANGED <<seated, poll, runtime, gone, unnoticed>>

HardwareStep == Pull \/ (\E p \in Seatable : Seat(p)) \/ Attributes

EstimateInit ==
    /\ seated \in Seatable /\ rail \in Rails /\ readable = TRUE /\ upower \in BOOLEAN
    /\ poll = Absent /\ runtime = Absent /\ gone = "no" /\ unnoticed = FALSE

-----------------------------------------------------------------------------
\* A runtime that is recorded is of the pack and the rail it is recorded with,
\* and not older than the TTL, through every swap, plug and failed read:
\* unless every tick between the two packs read its attributes (sample: an
\* unreadable battery drops the cache "rather than attributing the old pack's
\* time-to-empty to the new reading").  A tick that reads them beside a
\* present = 0 could tell the packs apart, and does not: sample asks presence
\* only once the attributes have failed.
RuntimeFits ==
    [][RefreshEstimates /\ runtime' # Absent /\ seated # Absent =>
          \/ unnoticed'
          \/ runtime'.pack = seated /\ runtime'.rail = rail /\ runtime'.age < ESTIMATE_TTL
      ]_estimateVars
=============================================================================

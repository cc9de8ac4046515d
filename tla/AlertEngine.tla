----------------------------- MODULE AlertEngine -----------------------------
(***************************************************************************)
(* The alert engine (src/src/alerts.rs) fed by the sampler                 *)
(* (src/src/telemetry/battery.rs) through the daemon's tick                *)
(* (src/src/daemon.rs): a recorded tick evaluates one sample, a tick that  *)
(* finds no battery resets every latch, any other leaves them alone.       *)
(*                                                                         *)
(* What a battery attribute that will not read becomes in the sample is    *)
(* the sampler's choice.  The properties are about the hardware: an alert  *)
(* speaks once while what it warns of lasts, whichever readings are lost.  *)
(***************************************************************************)
EXTENDS Alerts

CONSTANTS
    Hardware,  \* the conditions the machine may be in, of Samples
    Gaps       \* the attributes that may fail to read, of GapKinds

GapKinds == {"temp", "energy_full_design", "voltage_now", "voltage_min_design",
             "cpuTemp", "cpuPct", "power_now", "status"}

ASSUME HardwareAssumption ==
    /\ Hardware \subseteq Samples
    /\ \A hw \in Hardware : hw.designVolts > 0
    /\ Gaps \subseteq GapKinds

Names == {"ChargeHigh", "ChargeLow", "ChargeCritical", "TempWarn",
          "TempCritical", "Health", "Voltage", "CpuHeat", "Anomaly"}

VARIABLES
    charge, batteryTemp, health, voltage, cpuHeat, anomaly,  \* the latches
    \* history variables
    spoken,    \* how often each alert spoke of what it last spoke of, up to 2
    hot, idle, \* how many evaluated samples in a row were hot, up to what fires
    undue,     \* alerts the last sample announced without cause
    owed,      \* alerts it did not announce, though nobody had been told
    atBandEnd  \* since the health alert spoke, the health was exactly where its
               \* band ends, and no further

latches == <<charge, batteryTemp, health, voltage, cpuHeat, anomaly>>
vars == <<latches, spoken, hot, idle, undue, owed, atBandEnd>>

-----------------------------------------------------------------------------
(***************************************************************************)
(* The sampler.                                                            *)
(***************************************************************************)
\* The readings an attribute that is lost leaves of the hardware's.
Sampled(hw, lost) ==
    [ state  |-> IF lost = "status" THEN "Unknown" ELSE hw.state,
      charge |-> hw.charge,
      temp   |-> IF lost = "temp" THEN None ELSE hw.temp,
      health |-> IF lost = "energy_full_design" THEN 100 ELSE hw.health,
      volts  |-> IF lost = "voltage_now" THEN 0 ELSE hw.volts,
      designVolts |-> IF lost = "voltage_min_design" THEN hw.volts
                      ELSE hw.designVolts,
      cpuTemp |-> IF lost = "cpuTemp" THEN None ELSE hw.cpuTemp,
      cpuPct  |-> IF lost = "cpuPct" THEN None ELSE hw.cpuPct,
      power   |-> IF lost = "power_now" THEN 0 ELSE hw.power ]

-----------------------------------------------------------------------------
(***************************************************************************)
(* What the README and the validated bands say of each alert.  A reading   *)
(* that was lost is no evidence: it is neither a cause nor a relief.  A    *)
(* lost status is the exception: Unknown is not charging.                  *)
(***************************************************************************)
HotCharger(s) == IsCharging(s) /\ s.cpuTemp # None /\ s.cpuTemp >= T.cpu_hot_charging

HotIdle(s) ==
    ~ IsCharging(s) /\ s.cpuTemp # None /\ s.cpuTemp >= T.cpu_anomaly_temp /\ IsIdle(s)

\* How long a run of hot samples is with this one, up to what fires.
Run(run, isHot, required) ==
    IF ~ isHot THEN 0 ELSE IF run = required THEN run ELSE run + 1

\* The alerts the sample gives cause for; hs and is are the runs up to it.
Caused(s, lost, hs, is) ==
    {a \in Names :
        \/ a = "ChargeHigh" /\ IsCharging(s) /\ s.charge >= T.charge_high_warn
        \/ a = "ChargeLow" /\ s.state = "Discharging"
              /\ s.charge > T.charge_crit_warn /\ s.charge <= T.charge_low_warn
        \/ a = "ChargeCritical" /\ s.state = "Discharging"
              /\ s.charge <= T.charge_crit_warn
        \/ a = "TempWarn" /\ s.temp # None
              /\ s.temp >= T.temp_warn /\ s.temp < T.temp_crit
        \/ a = "TempCritical" /\ s.temp # None /\ s.temp >= T.temp_crit
        \/ a = "Health" /\ lost # "energy_full_design"
              /\ s.health < T.cap_warn
        \/ a = "Voltage" /\ lost # "voltage_min_design" /\ HasVoltages(s)
              /\ IsCharging(s) /\ OverVoltage(s)
        \/ a = "CpuHeat" /\ hs = T.cpu_heat_debounce_samples
        \/ a = "Anomaly" /\ is = T.cpu_anomaly_debounce_samples }

\* The alerts whose cause is gone by the full deadband.  Each end of a band is
\* where the README puts it: health is relieved above its own, not at it.
Relieved(s, lost) ==
    {a \in Names :
        \/ a = "ChargeHigh" /\ s.charge < T.charge_high_warn - T.charge_hysteresis_pct
        \/ a = "ChargeLow" /\ (\/ s.state \in {"Charging", "AcIdle"}
                               \/ /\ s.state = "Discharging"
                                  /\ s.charge > T.charge_low_warn + T.charge_hysteresis_pct)
        \/ a = "ChargeCritical" /\ (\/ s.state \in {"Charging", "AcIdle"}
                               \/ /\ s.state = "Discharging"
                                  /\ s.charge > T.charge_crit_warn + T.charge_hysteresis_pct)
        \/ a = "TempWarn" /\ s.temp # None /\ s.temp < T.temp_warn - T.temp_hysteresis_c
        \/ a = "TempCritical" /\ s.temp # None /\ s.temp < T.temp_crit - T.temp_hysteresis_c
        \/ a = "Health" /\ lost # "energy_full_design"
              /\ s.health > T.cap_warn + T.cap_hysteresis_pct
        \/ a = "Voltage" /\ (\/ ~ IsCharging(s)
                             \/ /\ lost # "voltage_min_design" /\ HasVoltages(s)
                                /\ s.volts * 100 <= s.designVolts * T.voltage_clear_ratio)
        \/ a = "CpuHeat" /\ (\/ ~ IsCharging(s)
                             \/ /\ s.cpuTemp # None
                                /\ s.cpuTemp < T.cpu_hot_charging - T.cpu_temp_hysteresis_c)
        \/ a = "Anomaly" /\ (\/ IsCharging(s)
                             \/ /\ s.cpuTemp # None
                                /\ s.cpuTemp < T.cpu_anomaly_temp - T.cpu_anomaly_hysteresis_c) }

\* The health is exactly where its band ends: HealthState::step lets go there
\* already, the README only above it.
OnBandEnd(s, lost) ==
    lost # "energy_full_design" /\ s.health = T.cap_warn + T.cap_hysteresis_pct

\* A critical alert also speaks for the warning below it.
SpokenFor(announced) ==
    announced \cup {a \in {"ChargeLow"} : "ChargeCritical" \in announced}
              \cup {a \in {"TempWarn"} : "TempCritical" \in announced}

\* How often each alert spoke of its present cause, once these have spoken.
Speak(announced, relieved) ==
    [a \in Names |->
        LET before == IF a \in relieved THEN 0 ELSE spoken[a]
        IN  IF a \in announced THEN IF before = 0 THEN 1 ELSE 2
            ELSE IF a \in SpokenFor(announced) /\ before = 0 THEN 1
            ELSE before]

-----------------------------------------------------------------------------
\* AlertEngine::evaluate
Announced(s) ==
    ChargeAlerts(charge, s) \cup ThermalAlerts(batteryTemp, s)
        \cup HealthAlerts(health, s) \cup VoltageAlerts(voltage, s)
        \cup CpuHeatAlerts(cpuHeat, s) \cup AnomalyAlerts(anomaly, s)

StepLatches(s) ==
    /\ charge' = ChargeStep(charge, s)
    /\ batteryTemp' = ThermalStep(batteryTemp, s)
    /\ health' = HealthStep(health, s)
    /\ voltage' = VoltageStep(voltage, s)
    /\ cpuHeat' = CpuHeatStep(cpuHeat, s)
    /\ anomaly' = AnomalyStep(anomaly, s)

\* A tick that records its sample.
Evaluate(hw, lost) ==
    LET s == Sampled(hw, lost)
        relieved == Relieved(s, lost)
        caused == Caused(s, lost, hot', idle')
    IN  /\ StepLatches(s)
        /\ hot' = Run(hot, HotCharger(s), T.cpu_heat_debounce_samples)
        /\ idle' = Run(idle, HotIdle(s), T.cpu_anomaly_debounce_samples)
        /\ spoken' = Speak(Announced(s), relieved)
        /\ undue' = Announced(s) \ caused
        /\ owed' = {a \in caused : spoken'[a] = 0}
        /\ atBandEnd' = /\ "Health" \notin relieved
                        /\ atBandEnd \/ (spoken["Health"] # 0 /\ OnBandEnd(s, lost))

Init ==
    /\ charge = "Normal" /\ batteryTemp = "Normal"
    /\ health = FALSE /\ voltage = FALSE
    /\ cpuHeat = 0 /\ anomaly = 0
    /\ spoken = [a \in Names |-> 0] /\ hot = 0 /\ idle = 0
    /\ undue = {} /\ owed = {} /\ atBandEnd = FALSE

\* AlertEngine::reset, at a tick that finds no battery, and a restart.
Reset ==
    /\ charge' = "Normal" /\ batteryTemp' = "Normal"
    /\ health' = FALSE /\ voltage' = FALSE
    /\ cpuHeat' = 0 /\ anomaly' = 0
    /\ spoken' = [a \in Names |-> 0] /\ hot' = 0 /\ idle' = 0
    /\ undue' = {} /\ owed' = {} /\ atBandEnd' = FALSE

Next == \/ \E hw \in Hardware, lost \in Gaps \cup {"nothing"} : Evaluate(hw, lost)
        \/ Reset

Spec == Init /\ [][Next]_vars

-----------------------------------------------------------------------------
\* Every latch has its type; a debounced one counts up to the required samples.
TypeOK ==
    /\ charge \in ChargeStates /\ batteryTemp \in ThermalStates
    /\ health \in BOOLEAN /\ voltage \in BOOLEAN
    /\ cpuHeat \in 0 .. T.cpu_heat_debounce_samples
    /\ anomaly \in 0 .. T.cpu_anomaly_debounce_samples
    /\ spoken \in [Names -> 0 .. 2]
    /\ hot \in 0 .. T.cpu_heat_debounce_samples
    /\ idle \in 0 .. T.cpu_anomaly_debounce_samples
    /\ undue \subseteq Names /\ owed \subseteq Names /\ atBandEnd \in BOOLEAN

\* However the readings dither, drop out and come back, an alert speaks once of
\* what it warns of, until that has gone by the whole deadband
\* (README.md, Desktop Notifications & Alerts: "re-arms below ...", and of the
\* health "re-arms above $82\%$").  The health alert is the exception: where its
\* band ends, at 82% exactly, the code lets go of the latch (health.rs:43) and
\* the README does not, and the alert speaks twice of one lasting cause.
SpeaksOnce ==
    \A a \in Names : spoken[a] < 2 \/ (a = "Health" /\ atBandEnd)

\* Whatever an alert warns of has been announced, by the sample that first shows
\* it at the latest, or by the critical alert above it: no latch, suppression
\* or gap swallows it.
NothingOwed == owed = {}

\* Nothing is announced without a cause the readings show: a debounced alert
\* only after its whole run of samples, no alert on a reading that is missing.
NothingUndue == undue = {}
=============================================================================

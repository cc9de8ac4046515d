------------------------------- MODULE Alerts -------------------------------
(***************************************************************************)
(* The six alert families of src/src/alerts/, each a latch that a sample   *)
(* steps.  For every family there is the latch after a sample, and the set *)
(* of alerts the step announces.                                           *)
(***************************************************************************)
EXTENDS Thresholds

CONSTANT None  \* a reading that is missing (Rust's Option::None)

ASSUME NoReadingAssumption == None \notin Int

PowerStates == {"Charging", "Discharging", "AcIdle", "Unknown"}

\* What the families read of a sample.  The design voltage is the sampler's:
\* positive, or that of a pack which says nothing.
Samples == [ state : PowerStates, charge : Int, temp : Int \cup {None},
             health : Int, volts : Nat, designVolts : Nat,
             cpuTemp : Int \cup {None}, cpuPct : Int \cup {None}, power : Nat ]

IsCharging(s) == s.state = "Charging"

-----------------------------------------------------------------------------
(***************************************************************************)
(* charge.rs                                                               *)
(***************************************************************************)
ChargeStates == {"Normal", "HighFired", "LowFired", "CriticalFired"}

Unlatched(latch, s) ==
    IF /\ latch = "HighFired"
       /\ s.charge < T.charge_high_warn - T.charge_hysteresis_pct
    THEN "Normal" ELSE latch

WithoutDischargeLatches(latch) ==
    IF latch \in {"LowFired", "CriticalFired"} THEN "Normal" ELSE latch

OnCharger(latch, s) ==
    IF s.charge >= T.charge_high_warn
    THEN "HighFired" ELSE WithoutDischargeLatches(latch)

OnBattery(latch, s) ==
    IF s.charge <= T.charge_crit_warn THEN "CriticalFired"
    ELSE IF s.charge <= T.charge_low_warn
    THEN IF /\ latch = "CriticalFired"
            /\ s.charge <= T.charge_crit_warn + T.charge_hysteresis_pct
         THEN "CriticalFired" ELSE "LowFired"
    ELSE IF s.charge > T.charge_low_warn + T.charge_hysteresis_pct
    THEN WithoutDischargeLatches(latch)
    ELSE IF latch = "CriticalFired" THEN "LowFired" ELSE latch

ChargeStep(latch, s) ==
    LET from == Unlatched(latch, s)
    IN  IF IsCharging(s) THEN OnCharger(from, s)
        ELSE IF s.state = "AcIdle" THEN WithoutDischargeLatches(from)
        ELSE IF s.state = "Discharging" THEN OnBattery(from, s)
        ELSE from

\* Mutant: critical is announced only where low was not.
NoEscalation(latch, s) ==
    LET from == Unlatched(latch, s)
        to   == ChargeStep(latch, s)
    IN  {a \in {"ChargeHigh", "ChargeLow", "ChargeCritical"} :
            \/ a = "ChargeHigh" /\ to = "HighFired" /\ from # "HighFired"
            \/ a = "ChargeCritical" /\ to = "CriticalFired" /\ from = "Normal"
            \/ a = "ChargeLow" /\ to = "LowFired"
                  /\ from \notin {"LowFired", "CriticalFired"}}

\* A critical latch that recovers into the low one says nothing.
ChargeAlerts(latch, s) ==
    LET from == Unlatched(latch, s)
        to   == ChargeStep(latch, s)
    IN  {a \in {"ChargeHigh", "ChargeLow", "ChargeCritical"} :
            \/ a = "ChargeHigh" /\ to = "HighFired" /\ from # "HighFired"
            \/ a = "ChargeCritical" /\ to = "CriticalFired" /\ from # "CriticalFired"
            \/ a = "ChargeLow" /\ to = "LowFired"
                  /\ from \notin {"LowFired", "CriticalFired"}}

-----------------------------------------------------------------------------
(***************************************************************************)
(* thermal.rs                                                              *)
(***************************************************************************)
ThermalStates == {"Normal", "WarnFired", "CriticalFired"}

\* Mutant: a missing reading is taken for a cool pack.
GapCools(latch, s) ==
    IF s.temp = None THEN "Normal"
    ELSE IF s.temp >= T.temp_crit THEN "CriticalFired"
    ELSE IF s.temp >= T.temp_warn
    THEN IF /\ latch = "CriticalFired"
            /\ s.temp >= T.temp_crit - T.temp_hysteresis_c
         THEN "CriticalFired" ELSE "WarnFired"
    ELSE IF s.temp < T.temp_warn - T.temp_hysteresis_c THEN "Normal"
    ELSE IF latch = "CriticalFired" THEN "WarnFired" ELSE latch

ThermalStep(latch, s) ==
    IF s.temp = None THEN latch
    ELSE IF s.temp >= T.temp_crit THEN "CriticalFired"
    ELSE IF s.temp >= T.temp_warn
    THEN IF /\ latch = "CriticalFired"
            /\ s.temp >= T.temp_crit - T.temp_hysteresis_c
         THEN "CriticalFired" ELSE "WarnFired"
    ELSE IF s.temp < T.temp_warn - T.temp_hysteresis_c THEN "Normal"
    ELSE IF latch = "CriticalFired" THEN "WarnFired" ELSE latch

ThermalAlerts(latch, s) ==
    LET to == ThermalStep(latch, s)
    IN  {a \in {"TempWarn", "TempCritical"} :
            \/ a = "TempCritical" /\ to = "CriticalFired" /\ latch # "CriticalFired"
            \/ a = "TempWarn" /\ to = "WarnFired" /\ latch = "Normal"}

-----------------------------------------------------------------------------
(***************************************************************************)
(* health.rs and voltage.rs: one latch each, FALSE for Normal.             *)
(***************************************************************************)
HealthStep(fired, s) ==
    \/ s.health < T.cap_warn
    \/ fired /\ s.health < T.cap_warn + T.cap_hysteresis_pct

HealthAlerts(fired, s) ==
    IF s.health < T.cap_warn /\ ~ fired THEN {"Health"} ELSE {}

OverVoltage(s) == s.volts * 100 > s.designVolts * T.voltage_over_ratio

HasVoltages(s) == s.designVolts > 0 /\ s.volts > 0

VoltageStep(fired, s) ==
    /\ IsCharging(s)
    /\ IF HasVoltages(s)
       THEN \/ OverVoltage(s)
            \/ fired /\ s.volts * 100 > s.designVolts * T.voltage_clear_ratio
       ELSE fired

VoltageAlerts(fired, s) ==
    IF IsCharging(s) /\ HasVoltages(s) /\ OverVoltage(s) /\ ~ fired
    THEN {"Voltage"} ELSE {}

-----------------------------------------------------------------------------
(***************************************************************************)
(* debounce.rs: a latch is the number of consecutive qualifying samples,   *)
(* 0 for Clear and the required number for Fired.                          *)
(***************************************************************************)
\* Mutants: the count runs on past what fires; a lull does not break a streak.
CountsOn(streak, observation, required) ==
    IF observation = "Clearing" THEN 0
    ELSE IF observation = "Qualifying" THEN streak + 1
    ELSE IF streak >= required THEN streak
    ELSE 0

LullsKept(streak, observation, required) ==
    IF observation = "Clearing" THEN 0
    ELSE IF streak = required THEN required
    ELSE IF observation = "Qualifying" THEN streak + 1
    ELSE streak

Observe(streak, observation, required) ==
    IF observation = "Clearing" THEN 0
    ELSE IF streak = required THEN required
    ELSE IF observation = "Qualifying" THEN streak + 1
    ELSE 0

\* cpu_heat.rs
CpuHeatObservation(s) ==
    IF s.cpuTemp = None THEN "Neutral"
    ELSE IF s.cpuTemp >= T.cpu_hot_charging THEN "Qualifying"
    ELSE IF s.cpuTemp < T.cpu_hot_charging - T.cpu_temp_hysteresis_c THEN "Clearing"
    ELSE "Neutral"

CpuHeatStep(streak, s) ==
    IF IsCharging(s)
    THEN Observe(streak, CpuHeatObservation(s), T.cpu_heat_debounce_samples)
    ELSE 0

\* idle_evidence of anomaly.rs
IsIdle(s) ==
    \/ s.cpuPct # None /\ s.cpuPct <= T.cpu_anomaly_max_load_pct
    \/ s.power > 0 /\ s.power <= T.cpu_anomaly_max_power_w

\* anomaly.rs
AnomalyObservation(s) ==
    IF s.cpuTemp = None THEN "Neutral"
    ELSE IF s.cpuTemp >= T.cpu_anomaly_temp /\ IsIdle(s) THEN "Qualifying"
    ELSE IF s.cpuTemp < T.cpu_anomaly_temp - T.cpu_anomaly_hysteresis_c THEN "Clearing"
    ELSE "Neutral"

AnomalyStep(streak, s) ==
    IF IsCharging(s) THEN 0
    ELSE Observe(streak, AnomalyObservation(s), T.cpu_anomaly_debounce_samples)

CpuHeatAlerts(streak, s) ==
    LET required == T.cpu_heat_debounce_samples
    IN  IF streak # required /\ CpuHeatStep(streak, s) = required
        THEN {"CpuHeat"} ELSE {}

AnomalyAlerts(streak, s) ==
    LET required == T.cpu_anomaly_debounce_samples
    IN  IF streak # required /\ AnomalyStep(streak, s) = required
        THEN {"Anomaly"} ELSE {}
=============================================================================

---------------------------- MODULE MCAlertEngine ----------------------------
(***************************************************************************)
(* AlertEngine with the thresholds the daemon runs with                    *)
(* (Thresholds::default) and readings on each side of every one of them.   *)
(***************************************************************************)
EXTENDS AlertEngine

DefaultThresholds ==
    [ charge_high_warn |-> 80, charge_low_warn |-> 20, charge_crit_warn |-> 10,
      charge_hysteresis_pct |-> 5,
      temp_warn |-> 45, temp_crit |-> 50, temp_hysteresis_c |-> 3,
      cap_warn |-> 80, cap_hysteresis_pct |-> 2,
      cpu_hot_charging |-> 85, cpu_temp_hysteresis_c |-> 5,
      cpu_heat_debounce_samples |-> 3,
      cpu_anomaly_temp |-> 80, cpu_anomaly_max_load_pct |-> 20,
      cpu_anomaly_max_power_w |-> 12, cpu_anomaly_hysteresis_c |-> 5,
      cpu_anomaly_debounce_samples |-> 3,
      voltage_over_ratio |-> 115, voltage_clear_ratio |-> 110 ]

\* Validated, with the two discharge thresholds closer than the deadband.
NarrowThresholds == [DefaultThresholds EXCEPT !.charge_low_warn = 12]

\* A condition inside every band: the latches of the other families mostly hold
\* while one family's reading moves.
Calm == [ state |-> "Unknown", charge |-> 23, temp |-> 43, health |-> 81,
          volts |-> 23, designVolts |-> 20, cpuTemp |-> 82, cpuPct |-> 50,
          power |-> 20 ]

States == {"Charging", "Discharging", "AcIdle", "Unknown"}

\* Each family's readings on both sides of each threshold and inside each band.
LadderHardware ==
    {[Calm EXCEPT !.state = st, !.charge = c, !.temp = d] :
        st \in States, c \in {10, 15, 16, 20, 25, 26, 74, 75, 80},
        d \in {41, 42, 46, 47, 50}}

HealthHardware == {[Calm EXCEPT !.health = h] : h \in {79, 80, 82, 83}}

VoltageHardware ==
    {[Calm EXCEPT !.state = st, !.volts = v] :
        st \in {"Charging", "Unknown"}, v \in {22, 23, 24}}

CpuHardware ==
    {[Calm EXCEPT !.state = st, !.cpuTemp = c, !.cpuPct = p, !.power = w] :
        st \in {"Charging", "Discharging", "AcIdle"}, c \in {74, 75, 79, 80, 85},
        p \in {20, 21}, w \in {12, 13}}

\* Everything at its worst, on the charger and off it.
Worst ==
    {[ state |-> st, charge |-> c, temp |-> 50, health |-> 79, volts |-> 24,
       designVolts |-> 20, cpuTemp |-> 85, cpuPct |-> 20, power |-> 12 ] :
        st \in {"Charging", "Discharging"}, c \in {10, 80}}

AllHardware == LadderHardware \cup HealthHardware
                   \cup VoltageHardware \cup CpuHardware \cup Worst
=============================================================================

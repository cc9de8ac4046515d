----------------------------- MODULE Thresholds -----------------------------
(***************************************************************************)
(* The alert thresholds and what src/src/config.rs validates of them.      *)
(*                                                                         *)
(* Percentages, degrees and watts are whole numbers; the two voltage       *)
(* ratios are in percent.                                                  *)
(***************************************************************************)
EXTENDS Integers

CONSTANT T

Fields == {"charge_high_warn", "charge_low_warn", "charge_crit_warn",
           "charge_hysteresis_pct", "temp_warn", "temp_crit", "temp_hysteresis_c",
           "cap_warn", "cap_hysteresis_pct", "cpu_hot_charging",
           "cpu_temp_hysteresis_c", "cpu_heat_debounce_samples",
           "cpu_anomaly_temp", "cpu_anomaly_max_load_pct",
           "cpu_anomaly_max_power_w", "cpu_anomaly_hysteresis_c",
           "cpu_anomaly_debounce_samples", "voltage_over_ratio",
           "voltage_clear_ratio"}

CheckCharge(t) ==
    /\ 0 < t.charge_crit_warn
    /\ t.charge_crit_warn < t.charge_low_warn
    /\ t.charge_low_warn < t.charge_high_warn
    /\ t.charge_high_warn <= 100
    /\ t.charge_high_warn - t.charge_hysteresis_pct > t.charge_low_warn

CheckTemperature(t) ==
    /\ 0 < t.temp_warn
    /\ t.temp_warn < t.temp_crit
    /\ t.temp_crit < t.cpu_hot_charging
    /\ t.temp_crit - t.temp_hysteresis_c > t.temp_warn
    /\ t.cpu_temp_hysteresis_c < t.cpu_hot_charging
    /\ t.cpu_anomaly_hysteresis_c < t.cpu_anomaly_temp

CheckHealthAndWorkload(t) ==
    /\ t.cap_warn \in 1 .. 100
    /\ t.cap_warn + t.cap_hysteresis_pct <= 100
    /\ t.cpu_anomaly_temp > 0
    /\ t.cpu_anomaly_max_load_pct \in 1 .. 100
    /\ t.cpu_anomaly_max_power_w > 0

CheckBands(t) ==
    /\ t.charge_hysteresis_pct > 0
    /\ t.temp_hysteresis_c > 0
    /\ t.cap_hysteresis_pct > 0
    /\ t.cpu_temp_hysteresis_c > 0
    /\ t.cpu_anomaly_hysteresis_c > 0
    /\ t.cpu_heat_debounce_samples >= 1
    /\ t.cpu_anomaly_debounce_samples >= 1
    /\ t.voltage_over_ratio > t.voltage_clear_ratio
    /\ t.voltage_clear_ratio >= 100

\* Thresholds::validate
Validated(t) ==
    /\ CheckCharge(t) /\ CheckTemperature(t)
    /\ CheckHealthAndWorkload(t) /\ CheckBands(t)

ASSUME ThresholdsAssumption ==
    /\ T \in [Fields -> Int]
    /\ Validated(T)
=============================================================================

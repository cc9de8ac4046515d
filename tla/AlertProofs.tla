----------------------------- MODULE AlertProofs -----------------------------
(***************************************************************************)
(* What holds of the alert engine for every validated set of thresholds    *)
(* and every sequence of samples.                                          *)
(***************************************************************************)
EXTENDS AlertEngine, TLAPS

\* The attributes whose loss the families are written to bear.
Handled == Gaps \cap {"energy_full_design", "voltage_min_design"} = {}

\* The two discharge thresholds are further apart than the deadband.  It is the
\* one condition on the bands that Validated lacks.
Apart == T.charge_crit_warn + T.charge_hysteresis_pct < T.charge_low_warn

\* An alert has spoken exactly while a latch that stands for it is set, and a
\* debounced latch that is not set counts the present run of hot samples.
ChargeCoupled ==
    /\ charge \in ChargeStates
    /\ spoken["ChargeHigh"] = 1 <=> charge = "HighFired"
    /\ spoken["ChargeLow"] = 1 <=> charge \in {"LowFired", "CriticalFired"}
    /\ spoken["ChargeCritical"] = 1 <=> charge = "CriticalFired"

ThermalCoupled ==
    /\ batteryTemp \in ThermalStates
    /\ spoken["TempWarn"] = 1 <=> batteryTemp # "Normal"
    /\ spoken["TempCritical"] = 1 <=> batteryTemp = "CriticalFired"

\* Where its band ends, the health's latch is let go of while the alert has spoken.
HealthCoupled ==
    /\ health \in BOOLEAN
    /\ health = TRUE => spoken["Health"] # 0
    /\ ~ atBandEnd => (spoken["Health"] = 1 <=> health = TRUE)

VoltageCoupled == voltage \in BOOLEAN /\ (spoken["Voltage"] = 1 <=> voltage = TRUE)

DebounceCoupled(name, streak, run, required) ==
    /\ streak \in 0 .. required /\ run \in 0 .. required
    /\ spoken[name] = 1 <=> streak = required
    /\ streak # required => run = streak

CpuHeatCoupled ==
    DebounceCoupled("CpuHeat", cpuHeat, hot, T.cpu_heat_debounce_samples)

AnomalyCoupled ==
    DebounceCoupled("Anomaly", anomaly, idle, T.cpu_anomaly_debounce_samples)

SpokenOnce ==
    /\ spoken \in [Names -> 0 .. 2]
    /\ \A a \in Names : a # "Health" \/ ~ atBandEnd => spoken[a] \in {0, 1}

AlertInv ==
    /\ SpokenOnce
    /\ ChargeCoupled /\ ThermalCoupled /\ HealthCoupled /\ VoltageCoupled
    /\ CpuHeatCoupled /\ AnomalyCoupled
    /\ undue = {} /\ owed = {}

-----------------------------------------------------------------------------
LEMMA ThresholdTypes ==
    /\ T.charge_high_warn \in Int /\ T.charge_low_warn \in Int
    /\ T.charge_crit_warn \in Int /\ T.charge_hysteresis_pct \in Int
    /\ T.temp_warn \in Int /\ T.temp_crit \in Int /\ T.temp_hysteresis_c \in Int
    /\ T.cap_warn \in Int /\ T.cap_hysteresis_pct \in Int
    /\ T.cpu_hot_charging \in Int /\ T.cpu_temp_hysteresis_c \in Int
    /\ T.cpu_anomaly_temp \in Int /\ T.cpu_anomaly_hysteresis_c \in Int
    /\ T.cpu_heat_debounce_samples \in Nat \ {0}
    /\ T.cpu_anomaly_debounce_samples \in Nat \ {0}
    /\ T.voltage_over_ratio \in Int /\ T.voltage_clear_ratio \in Int
  BY ThresholdsAssumption DEF Fields, Validated, CheckBands

LEMMA SampledType ==
    ASSUME NEW hw \in Hardware, NEW lost
    PROVE  Sampled(hw, lost) \in Samples
<1>1. hw \in Samples
  BY HardwareAssumption
<1> QED
  BY <1>1 DEF Sampled, Samples, PowerStates

\* What one alert of a family becomes: it announces only with cause, it has
\* spoken once its cause shows, and then exactly while its latch is set.
Sound(a, s, lost, latched) ==
    LET told == Speak(Announced(s), Relieved(s, lost))[a]
    IN  /\ told \in {0, 1}
        /\ told = 1 <=> latched
        /\ a \in Announced(s) => a \in Caused(s, lost, hot', idle')
        /\ a \in Caused(s, lost, hot', idle') => told = 1

LEMMA ChargeSound ==
    ASSUME SpokenOnce, ChargeCoupled, Apart, NEW s \in Samples, NEW lost
    PROVE  LET to == ChargeStep(charge, s)
           IN  /\ to \in ChargeStates
               /\ Sound("ChargeHigh", s, lost, to = "HighFired")
               /\ Sound("ChargeLow", s, lost, to \in {"LowFired", "CriticalFired"})
               /\ Sound("ChargeCritical", s, lost, to = "CriticalFired")
<1> DEFINE from == Unlatched(charge, s)
           to == ChargeStep(charge, s)
           high == T.charge_high_warn
           low == T.charge_low_warn
           crit == T.charge_crit_warn
           band == T.charge_hysteresis_pct
<1>1. /\ high \in Int /\ low \in Int /\ crit \in Int /\ band \in Int
      /\ s.charge \in Int /\ s.state \in PowerStates
      /\ 0 < band /\ crit < low /\ low < high - band /\ crit + band < low
  BY ThresholdTypes, ThresholdsAssumption
     DEF Samples, Apart, Validated, CheckCharge, CheckBands
<1>2. from = IF charge = "HighFired" /\ s.charge < high - band THEN "Normal" ELSE charge
  BY DEF Unlatched
<1>3. \A a \in {"ChargeHigh", "ChargeLow", "ChargeCritical"} :
         a \in Announced(s) <=> a \in ChargeAlerts(charge, s)
  BY DEF Announced, ThermalAlerts, HealthAlerts, VoltageAlerts, CpuHeatAlerts,
         AnomalyAlerts
<1> QED
  BY <1>1, <1>2, <1>3
     DEF Sound, ChargeCoupled, SpokenOnce, ChargeStates, PowerStates, Names,
         ChargeAlerts, ChargeStep, OnCharger, OnBattery, WithoutDischargeLatches, Speak, SpokenFor,
         Relieved, Caused, IsCharging

LEMMA ThermalSound ==
    ASSUME SpokenOnce, ThermalCoupled, NEW s \in Samples, NEW lost
    PROVE  LET to == ThermalStep(batteryTemp, s)
           IN  /\ to \in ThermalStates
               /\ Sound("TempWarn", s, lost, to # "Normal")
               /\ Sound("TempCritical", s, lost, to = "CriticalFired")
<1> DEFINE warn == T.temp_warn
           crit == T.temp_crit
           band == T.temp_hysteresis_c
<1>1. /\ warn \in Int /\ crit \in Int /\ band \in Int
      /\ s.temp = None \/ (s.temp # None /\ s.temp \in Int)
      /\ 0 < band /\ warn < crit - band
  BY ThresholdTypes, ThresholdsAssumption
     DEF Samples, Validated, CheckTemperature, CheckBands
<1>2. \A a \in {"TempWarn", "TempCritical"} :
         a \in Announced(s) <=> a \in ThermalAlerts(batteryTemp, s)
  BY DEF Announced, ChargeAlerts, HealthAlerts, VoltageAlerts, CpuHeatAlerts,
         AnomalyAlerts
<1> QED
  BY <1>1, <1>2
     DEF Sound, ThermalCoupled, SpokenOnce, ThermalStates, Names, ThermalAlerts,
         ThermalStep, Speak, SpokenFor, Relieved, Caused

LEMMA HealthSound ==
    ASSUME SpokenOnce, HealthCoupled, NEW s \in Samples,
           NEW lost, lost # "energy_full_design"
    PROVE  LET told == Speak(Announced(s), Relieved(s, lost))["Health"]
               caused == "Health" \in Caused(s, lost, hot', idle')
               atEnd == /\ "Health" \notin Relieved(s, lost)
                        /\ atBandEnd \/ (spoken["Health"] # 0 /\ OnBandEnd(s, lost))
           IN  /\ told \in 0 .. 2
               /\ HealthStep(health, s) = TRUE => told # 0
               /\ ~ atEnd => Sound("Health", s, lost, HealthStep(health, s) = TRUE)
               /\ "Health" \in Announced(s) => caused
               /\ caused => told # 0
<1>1. /\ T.cap_warn \in Int /\ T.cap_hysteresis_pct \in Int /\ s.health \in Int
      /\ 0 < T.cap_hysteresis_pct
  BY ThresholdTypes, ThresholdsAssumption DEF Samples, Validated, CheckBands
<1>2. "Health" \in Announced(s) <=> s.health < T.cap_warn /\ ~ health
  BY DEF Announced, ChargeAlerts, ThermalAlerts, HealthAlerts, VoltageAlerts,
         CpuHeatAlerts, AnomalyAlerts
<1> QED
  BY <1>1, <1>2
     DEF Sound, HealthCoupled, SpokenOnce, Names, HealthStep, Speak, SpokenFor,
         Relieved, Caused, OnBandEnd

LEMMA VoltageSound ==
    ASSUME SpokenOnce, VoltageCoupled, NEW s \in Samples,
           NEW lost, lost # "voltage_min_design"
    PROVE  Sound("Voltage", s, lost, VoltageStep(voltage, s))
<1> DEFINE over  == s.designVolts * T.voltage_over_ratio
           clear == s.designVolts * T.voltage_clear_ratio
           volts == s.volts * 100
<1>1. over \in Int /\ clear \in Int /\ volts \in Int
  BY ThresholdTypes DEF Samples
<1>2. HasVoltages(s) => clear < over
  <2>1. /\ T.voltage_over_ratio \in Int /\ T.voltage_clear_ratio \in Int
        /\ T.voltage_clear_ratio < T.voltage_over_ratio /\ s.designVolts \in Nat
    BY ThresholdTypes, ThresholdsAssumption DEF Samples, Validated, CheckBands
  <2> QED
    BY <2>1 DEF HasVoltages
<1>3. "Voltage" \in Announced(s)
         <=> IsCharging(s) /\ HasVoltages(s) /\ volts > over /\ ~ voltage
  BY DEF Announced, ChargeAlerts, ThermalAlerts, HealthAlerts, VoltageAlerts,
         CpuHeatAlerts, AnomalyAlerts, OverVoltage
<1>4. VoltageStep(voltage, s)
         <=> /\ IsCharging(s)
             /\ IF HasVoltages(s) THEN volts > over \/ (voltage /\ volts > clear)
                ELSE voltage
  BY DEF VoltageStep, OverVoltage
<1>5. /\ "Voltage" \in Caused(s, lost, hot', idle')
            <=> HasVoltages(s) /\ IsCharging(s) /\ volts > over
      /\ "Voltage" \in Relieved(s, lost)
            <=> ~ IsCharging(s) \/ (HasVoltages(s) /\ volts <= clear)
  BY DEF Caused, Relieved, OverVoltage, Names
<1> HIDE DEF over, clear, volts
<1> QED
  BY <1>1, <1>2, <1>3, <1>4, <1>5
     DEF Sound, VoltageCoupled, SpokenOnce, Names, Speak, SpokenFor

\* A debounced alert, whatever it watches: relieved when the observation clears
\* or the family does not apply, caused at the end of a full run.
LEMMA ObserveRuns ==
    ASSUME NEW required \in Nat \ {0}, NEW streak \in 0 .. required,
           NEW run \in 0 .. required, streak # required => run = streak,
           NEW observation \in {"Clearing", "Neutral", "Qualifying"}
    PROVE  LET to   == Observe(streak, observation, required)
               next == Run(run, observation = "Qualifying", required)
           IN  /\ to \in 0 .. required /\ next \in 0 .. required
               /\ to # required => next = to
               /\ to = required <=>
                     \/ streak = required /\ observation # "Clearing"
                     \/ streak # required /\ next = required
               /\ next = required => to = required
  BY DEF Observe, Run

LEMMA CpuHeatSound ==
    ASSUME SpokenOnce, CpuHeatCoupled, NEW s \in Samples, NEW lost,
           hot' = Run(hot, HotCharger(s), T.cpu_heat_debounce_samples)
    PROVE  LET to == CpuHeatStep(cpuHeat, s)
               required == T.cpu_heat_debounce_samples
           IN  /\ Sound("CpuHeat", s, lost, to = required)
               /\ to \in 0 .. required /\ hot' \in 0 .. required
               /\ to # required => hot' = to
<1> DEFINE required == T.cpu_heat_debounce_samples
           to == CpuHeatStep(cpuHeat, s)
           observation == CpuHeatObservation(s)
           cool == T.cpu_hot_charging - T.cpu_temp_hysteresis_c
<1>1. /\ required \in Nat \ {0} /\ cool \in Int /\ T.cpu_hot_charging \in Int
      /\ cool < T.cpu_hot_charging
      /\ s.cpuTemp = None \/ (s.cpuTemp # None /\ s.cpuTemp \in Int)
  BY ThresholdTypes, ThresholdsAssumption DEF Samples, Validated, CheckBands
<1>2. "CpuHeat" \in Announced(s) <=> cpuHeat # required /\ to = required
  BY DEF Announced, ChargeAlerts, ThermalAlerts, HealthAlerts, VoltageAlerts,
         CpuHeatAlerts, AnomalyAlerts
<1>3. /\ "CpuHeat" \in Caused(s, lost, hot', idle') <=> hot' = required
      /\ "CpuHeat" \in Relieved(s, lost)
            <=> ~ IsCharging(s) \/ observation = "Clearing"
  BY <1>1 DEF Caused, Relieved, Names, CpuHeatObservation
<1>4. CASE IsCharging(s)
  <2>1. observation \in {"Clearing", "Neutral", "Qualifying"}
        /\ (observation = "Qualifying" <=> HotCharger(s))
    BY <1>4 DEF CpuHeatObservation, HotCharger
  <2>2. to = Observe(cpuHeat, observation, required)
        /\ hot' = Run(hot, observation = "Qualifying", required)
    BY <1>4, <2>1 DEF CpuHeatStep, Run
  <2>3. /\ to \in 0 .. required /\ hot' \in 0 .. required
        /\ to # required => hot' = to
        /\ to = required <=> \/ cpuHeat = required /\ observation # "Clearing"
                             \/ cpuHeat # required /\ hot' = required
        /\ hot' = required => to = required
    <3> HIDE DEF observation, required, to
    <3> QED
      BY <1>1, <2>1, <2>2, ObserveRuns DEF CpuHeatCoupled, DebounceCoupled, required
  <2> HIDE DEF observation, required, to
  <2>4. Sound("CpuHeat", s, lost, to = required)
    BY <1>2, <1>3, <1>4, <2>3
       DEF Sound, CpuHeatCoupled, DebounceCoupled, required, SpokenOnce, Names,
           Speak, SpokenFor
  <2> QED
    BY <2>3, <2>4 DEF to, required
<1>5. CASE ~ IsCharging(s)
  <2>1. to = 0 /\ hot' = 0
    BY <1>5 DEF CpuHeatStep, HotCharger, Run
  <2> HIDE DEF observation, required, to
  <2>2. Sound("CpuHeat", s, lost, to = required)
    BY <1>1, <1>2, <1>3, <1>5, <2>1
       DEF Sound, SpokenOnce, Names, Speak, SpokenFor
  <2> QED
    BY <1>1, <2>1, <2>2 DEF to, required
<1> QED
  BY <1>4, <1>5

LEMMA AnomalySound ==
    ASSUME SpokenOnce, AnomalyCoupled, NEW s \in Samples, NEW lost,
           idle' = Run(idle, HotIdle(s), T.cpu_anomaly_debounce_samples)
    PROVE  LET to == AnomalyStep(anomaly, s)
               required == T.cpu_anomaly_debounce_samples
           IN  /\ Sound("Anomaly", s, lost, to = required)
               /\ to \in 0 .. required /\ idle' \in 0 .. required
               /\ to # required => idle' = to
<1> DEFINE required == T.cpu_anomaly_debounce_samples
           to == AnomalyStep(anomaly, s)
           observation == AnomalyObservation(s)
           cool == T.cpu_anomaly_temp - T.cpu_anomaly_hysteresis_c
<1>1. /\ required \in Nat \ {0} /\ cool \in Int /\ T.cpu_anomaly_temp \in Int
      /\ cool < T.cpu_anomaly_temp
      /\ s.cpuTemp = None \/ (s.cpuTemp # None /\ s.cpuTemp \in Int)
  BY ThresholdTypes, ThresholdsAssumption DEF Samples, Validated, CheckBands
<1>2. "Anomaly" \in Announced(s) <=> anomaly # required /\ to = required
  BY DEF Announced, ChargeAlerts, ThermalAlerts, HealthAlerts, VoltageAlerts,
         CpuHeatAlerts, AnomalyAlerts
<1>3. /\ "Anomaly" \in Caused(s, lost, hot', idle') <=> idle' = required
      /\ "Anomaly" \in Relieved(s, lost)
            <=> IsCharging(s) \/ observation = "Clearing"
  BY <1>1 DEF Caused, Relieved, Names, AnomalyObservation
<1>4. CASE ~ IsCharging(s)
  <2>1. observation \in {"Clearing", "Neutral", "Qualifying"}
        /\ (observation = "Qualifying" <=> HotIdle(s))
    BY <1>4 DEF AnomalyObservation, HotIdle
  <2>2. to = Observe(anomaly, observation, required)
        /\ idle' = Run(idle, observation = "Qualifying", required)
    BY <1>4, <2>1 DEF AnomalyStep, Run
  <2>3. /\ to \in 0 .. required /\ idle' \in 0 .. required
        /\ to # required => idle' = to
        /\ to = required <=> \/ anomaly = required /\ observation # "Clearing"
                             \/ anomaly # required /\ idle' = required
        /\ idle' = required => to = required
    <3> HIDE DEF observation, required, to
    <3> QED
      BY <1>1, <2>1, <2>2, ObserveRuns DEF AnomalyCoupled, DebounceCoupled, required
  <2> HIDE DEF observation, required, to
  <2>4. Sound("Anomaly", s, lost, to = required)
    BY <1>2, <1>3, <1>4, <2>3
       DEF Sound, AnomalyCoupled, DebounceCoupled, required, SpokenOnce, Names,
           Speak, SpokenFor
  <2> QED
    BY <2>3, <2>4 DEF to, required
<1>5. CASE IsCharging(s)
  <2>1. to = 0 /\ idle' = 0
    BY <1>5 DEF AnomalyStep, HotIdle, Run
  <2> HIDE DEF observation, required, to
  <2>2. Sound("Anomaly", s, lost, to = required)
    BY <1>1, <1>2, <1>3, <1>5, <2>1
       DEF Sound, SpokenOnce, Names, Speak, SpokenFor
  <2> QED
    BY <1>1, <2>1, <2>2 DEF to, required
<1> QED
  BY <1>4, <1>5

-----------------------------------------------------------------------------
LEMMA FreshAlertInv ==
    /\ Init => AlertInv
    /\ Reset => AlertInv'
<1>1. T.cpu_heat_debounce_samples \in Nat \ {0}
      /\ T.cpu_anomaly_debounce_samples \in Nat \ {0}
  BY ThresholdTypes
<1>2. ASSUME Init PROVE AlertInv
  <2>1. SpokenOnce /\ \A a \in Names : spoken[a] = 0
    BY <1>2 DEF Init, SpokenOnce
  <2>2. ChargeCoupled /\ ThermalCoupled
    BY <1>2, <2>1 DEF Init, ChargeCoupled, ThermalCoupled, ChargeStates,
                      ThermalStates, Names
  <2>3. CpuHeatCoupled /\ AnomalyCoupled
    BY <1>1, <1>2, <2>1 DEF Init, CpuHeatCoupled, AnomalyCoupled, DebounceCoupled, Names
  <2>4. undue = {} /\ owed = {}
    BY <1>2 DEF Init
  <2>5. HealthCoupled /\ VoltageCoupled
    <3>1. spoken["Health"] # 1 /\ spoken["Voltage"] # 1
      BY <2>1 DEF Names
    <3>2. health = FALSE /\ voltage = FALSE
      BY <1>2 DEF Init
    <3> QED
      BY <3>1, <3>2, Zenon DEF HealthCoupled, VoltageCoupled
  <2> QED
    BY <2>1, <2>2, <2>3, <2>4, <2>5 DEF AlertInv
<1>3. ASSUME Reset PROVE AlertInv'
  <2>1. SpokenOnce' /\ \A a \in Names : spoken'[a] = 0
    BY <1>3 DEF Reset, SpokenOnce
  <2>2. ChargeCoupled' /\ ThermalCoupled'
    BY <1>3, <2>1 DEF Reset, ChargeCoupled, ThermalCoupled, ChargeStates,
                      ThermalStates, Names
  <2>3. CpuHeatCoupled' /\ AnomalyCoupled'
    BY <1>1, <1>3, <2>1 DEF Reset, CpuHeatCoupled, AnomalyCoupled, DebounceCoupled, Names
  <2>4. undue' = {} /\ owed' = {}
    BY <1>3 DEF Reset
  <2>5. HealthCoupled' /\ VoltageCoupled'
    <3>1. spoken'["Health"] # 1 /\ spoken'["Voltage"] # 1
      BY <2>1 DEF Names
    <3>2. health' = FALSE /\ voltage' = FALSE
      BY <1>3 DEF Reset
    <3> QED
      BY <3>1, <3>2, Zenon DEF HealthCoupled, VoltageCoupled
  <2> QED
    BY <2>1, <2>2, <2>3, <2>4, <2>5 DEF AlertInv
<1> QED
  BY <1>2, <1>3

LEMMA EvaluateAlertInv ==
    ASSUME AlertInv, Handled, Apart, NEW hw \in Hardware,
           NEW lost \in Gaps \cup {"nothing"}, Evaluate(hw, lost)
    PROVE  AlertInv'
<1> DEFINE s == Sampled(hw, lost)
           caused == Caused(s, lost, hot', idle')
<1>1. s \in Samples
  BY SampledType
<1>2. lost # "energy_full_design" /\ lost # "voltage_min_design"
  BY DEF Handled
<1>3. /\ StepLatches(s)
      /\ hot' = Run(hot, HotCharger(s), T.cpu_heat_debounce_samples)
      /\ idle' = Run(idle, HotIdle(s), T.cpu_anomaly_debounce_samples)
      /\ spoken' = Speak(Announced(s), Relieved(s, lost))
      /\ undue' = Announced(s) \ caused
      /\ owed' = {a \in caused : spoken'[a] = 0}
      /\ atBandEnd' = /\ "Health" \notin Relieved(s, lost)
                      /\ atBandEnd \/ (spoken["Health"] # 0 /\ OnBandEnd(s, lost))
  BY DEF Evaluate
<1> HIDE DEF s
<1>4. /\ charge' \in ChargeStates
      /\ Sound("ChargeHigh", s, lost, charge' = "HighFired")
      /\ Sound("ChargeLow", s, lost, charge' \in {"LowFired", "CriticalFired"})
      /\ Sound("ChargeCritical", s, lost, charge' = "CriticalFired")
  BY <1>1, <1>3, ChargeSound DEF AlertInv, StepLatches
<1>5. /\ batteryTemp' \in ThermalStates
      /\ Sound("TempWarn", s, lost, batteryTemp' # "Normal")
      /\ Sound("TempCritical", s, lost, batteryTemp' = "CriticalFired")
  BY <1>1, <1>3, ThermalSound DEF AlertInv, StepLatches
<1>6. /\ health' \in BOOLEAN /\ spoken'["Health"] \in 0 .. 2
      /\ health' = TRUE => spoken'["Health"] # 0
      /\ ~ atBandEnd' => Sound("Health", s, lost, health' = TRUE)
      /\ "Health" \in Announced(s) => "Health" \in caused
      /\ "Health" \in caused => spoken'["Health"] # 0
  <2>1. health' = HealthStep(health, s) /\ HealthStep(health, s) \in BOOLEAN
    BY <1>3 DEF StepLatches, HealthStep, AlertInv, HealthCoupled
  <2> QED
    BY <1>1, <1>2, <1>3, <2>1, HealthSound DEF AlertInv
<1>7. voltage' \in BOOLEAN /\ Sound("Voltage", s, lost, voltage' = TRUE)
  <2>1. voltage' = VoltageStep(voltage, s) /\ VoltageStep(voltage, s) \in BOOLEAN
    BY <1>3 DEF StepLatches, VoltageStep, AlertInv, VoltageCoupled
  <2>2. Sound("Voltage", s, lost, VoltageStep(voltage, s))
    BY <1>1, <1>2, VoltageSound DEF AlertInv
  <2> QED
    BY <2>1, <2>2 DEF Sound
<1>8. /\ Sound("CpuHeat", s, lost, cpuHeat' = T.cpu_heat_debounce_samples)
      /\ cpuHeat' \in 0 .. T.cpu_heat_debounce_samples
      /\ hot' \in 0 .. T.cpu_heat_debounce_samples
      /\ cpuHeat' # T.cpu_heat_debounce_samples => hot' = cpuHeat'
  BY <1>1, <1>3, CpuHeatSound DEF AlertInv, StepLatches
<1>9. /\ Sound("Anomaly", s, lost, anomaly' = T.cpu_anomaly_debounce_samples)
      /\ anomaly' \in 0 .. T.cpu_anomaly_debounce_samples
      /\ idle' \in 0 .. T.cpu_anomaly_debounce_samples
      /\ anomaly' # T.cpu_anomaly_debounce_samples => idle' = anomaly'
  BY <1>1, <1>3, AnomalySound DEF AlertInv, StepLatches
\* Every alert is sound, whatever stands for its latch.
<1>10. ASSUME NEW a \in Names
       PROVE  /\ spoken'[a] \in 0 .. 2
              /\ a # "Health" \/ ~ atBandEnd' => spoken'[a] \in {0, 1}
              /\ a \in Announced(s) => a \in caused
              /\ a \in caused => spoken'[a] # 0
  BY <1>3, <1>4, <1>5, <1>6, <1>7, <1>8, <1>9, <1>10 DEF Names, Sound
<1>11. SpokenOnce'
  <2>1. spoken' = [a \in Names |-> spoken'[a]]
    BY <1>3 DEF Speak
  <2> QED
    BY <1>10, <2>1 DEF SpokenOnce
<1>12. undue' = {} /\ owed' = {}
  <2>1. caused \subseteq Names
    BY DEF Caused
  <2>2. Announced(s) \subseteq Names
    BY DEF Announced, ChargeAlerts, ThermalAlerts, HealthAlerts, VoltageAlerts,
           CpuHeatAlerts, AnomalyAlerts, Names
  <2> QED
    BY <1>3, <1>10, <2>1, <2>2
<1>13. ChargeCoupled' /\ ThermalCoupled' /\ HealthCoupled' /\ VoltageCoupled'
  BY <1>3, <1>4, <1>5, <1>6, <1>7
     DEF Sound, ChargeCoupled, ThermalCoupled, HealthCoupled, VoltageCoupled
<1>14. CpuHeatCoupled' /\ AnomalyCoupled'
  BY <1>3, <1>8, <1>9 DEF Sound, CpuHeatCoupled, AnomalyCoupled, DebounceCoupled
<1> QED
  BY <1>11, <1>12, <1>13, <1>14 DEF AlertInv

LEMMA AlertInvariant ==
    ASSUME Handled, Apart
    PROVE  Spec => []AlertInv
<1>1. Init => AlertInv
  BY FreshAlertInv
<1>2. AlertInv /\ [Next]_vars => AlertInv'
  <2>1. AlertInv /\ Next => AlertInv'
    BY EvaluateAlertInv, FreshAlertInv DEF Next
  <2>2. AlertInv /\ UNCHANGED vars => AlertInv'
    BY DEF AlertInv, vars, latches, SpokenOnce, ChargeCoupled, ThermalCoupled,
           HealthCoupled, VoltageCoupled, CpuHeatCoupled, AnomalyCoupled,
           DebounceCoupled
  <2> QED
    BY <2>1, <2>2
<1> QED
  BY <1>1, <1>2, PTL DEF Spec

\* An alert speaks once of what it warns of until that has gone by the whole
\* deadband, for every set of validated thresholds whose discharge thresholds
\* are further apart than the deadband, and as long as the two design attributes
\* can be read; but for a health that was exactly at the end of its band.
THEOREM AlertsSpeakOnce ==
    ASSUME Handled, Apart
    PROVE  Spec => []SpeaksOnce
<1>1. AlertInv => SpeaksOnce
  BY DEF AlertInv, SpokenOnce, SpeaksOnce
<1> QED
  BY <1>1, AlertInvariant, PTL

\* Under the same assumptions every cause has been announced, at the end of the
\* health's band as elsewhere: the latches, the suppressed pairs and the
\* debounces swallow none.
THEOREM AlertsAreDue ==
    ASSUME Handled, Apart
    PROVE  Spec => []NothingOwed
<1>1. AlertInv => NothingOwed
  BY DEF AlertInv, NothingOwed
<1> QED
  BY <1>1, AlertInvariant, PTL

\* Under the same assumptions nothing is announced without a cause.
THEOREM AlertsHaveCause ==
    ASSUME Handled, Apart
    PROVE  Spec => []NothingUndue
<1>1. AlertInv => NothingUndue
  BY DEF AlertInv, NothingUndue
<1> QED
  BY <1>1, AlertInvariant, PTL

-----------------------------------------------------------------------------
LEMMA LatchTypes ==
    ASSUME TypeOK, NEW s \in Samples
    PROVE  /\ ChargeStep(charge, s) \in ChargeStates
           /\ ThermalStep(batteryTemp, s) \in ThermalStates
           /\ HealthStep(health, s) \in BOOLEAN
           /\ VoltageStep(voltage, s) \in BOOLEAN
<1>1. charge \in ChargeStates /\ batteryTemp \in ThermalStates
      /\ health \in BOOLEAN /\ voltage \in BOOLEAN
  BY DEF TypeOK
<1>2. Unlatched(charge, s) \in ChargeStates
  BY <1>1 DEF Unlatched, ChargeStates
<1>3. ChargeStep(charge, s) \in ChargeStates
  BY <1>2 DEF ChargeStep, OnCharger, OnBattery, WithoutDischargeLatches, ChargeStates
<1>4. ThermalStep(batteryTemp, s) \in ThermalStates
  BY <1>1 DEF ThermalStep, ThermalStates
<1>5. HealthStep(health, s) \in BOOLEAN
  BY <1>1, Zenon DEF HealthStep
<1>6. VoltageStep(voltage, s) \in BOOLEAN
  BY <1>1, Zenon DEF VoltageStep
<1> QED
  BY <1>3, <1>4, <1>5, <1>6

\* A streak does not count past what fires, nor does a run.
LEMMA StreakTypes ==
    ASSUME NEW required \in Nat \ {0}, NEW streak \in 0 .. required, NEW observation,
           NEW isHot
    PROVE  /\ Observe(streak, observation, required) \in 0 .. required
           /\ Run(streak, isHot, required) \in 0 .. required
  BY DEF Observe, Run

LEMMA SpeakType ==
    ASSUME TypeOK, NEW announced, NEW relieved
    PROVE  Speak(announced, relieved) \in [Names -> 0 .. 2]
<1>1. spoken \in [Names -> 0 .. 2]
  BY DEF TypeOK
<1> QED
  BY <1>1 DEF Speak

\* A latch is always one of its family's, and a debounced one never counts past
\* the samples it needs, for every validated set of thresholds and whichever
\* attributes are lost.
THEOREM AlertTypes == Spec => []TypeOK
<1>1. T.cpu_heat_debounce_samples \in Nat \ {0}
      /\ T.cpu_anomaly_debounce_samples \in Nat \ {0}
  BY ThresholdTypes
<1>2. Init => TypeOK
  <2>1. /\ 0 \in 0 .. T.cpu_heat_debounce_samples
        /\ 0 \in 0 .. T.cpu_anomaly_debounce_samples
        /\ [a \in Names |-> 0] \in [Names -> 0 .. 2]
    BY <1>1
  <2> QED
    BY <2>1, Zenon DEF Init, TypeOK, ChargeStates, ThermalStates
<1>3. ASSUME TypeOK, Reset PROVE TypeOK'
  <2>1. /\ 0 \in 0 .. T.cpu_heat_debounce_samples
        /\ 0 \in 0 .. T.cpu_anomaly_debounce_samples
        /\ [a \in Names |-> 0] \in [Names -> 0 .. 2]
    BY <1>1
  <2> QED
    BY <1>3, <2>1, Zenon DEF Reset, TypeOK, ChargeStates, ThermalStates
<1>4. ASSUME TypeOK, NEW hw \in Hardware, NEW lost \in Gaps \cup {"nothing"},
             Evaluate(hw, lost)
      PROVE  TypeOK'
  <2> DEFINE s == Sampled(hw, lost)
  <2>1. s \in Samples
    BY SampledType
  <2> HIDE DEF s
  <2>2. /\ charge' \in ChargeStates /\ batteryTemp' \in ThermalStates
        /\ health' \in BOOLEAN /\ voltage' \in BOOLEAN
    BY <1>4, <2>1, LatchTypes DEF Evaluate, StepLatches, s
  <2>3. /\ cpuHeat' \in 0 .. T.cpu_heat_debounce_samples
        /\ anomaly' \in 0 .. T.cpu_anomaly_debounce_samples
    <3>1. /\ cpuHeat \in 0 .. T.cpu_heat_debounce_samples
          /\ anomaly \in 0 .. T.cpu_anomaly_debounce_samples
      BY <1>4 DEF TypeOK
    <3>2. cpuHeat' = CpuHeatStep(cpuHeat, s) /\ anomaly' = AnomalyStep(anomaly, s)
      BY <1>4 DEF Evaluate, StepLatches, s
    <3>3. /\ Observe(cpuHeat, CpuHeatObservation(s), T.cpu_heat_debounce_samples)
                \in 0 .. T.cpu_heat_debounce_samples
          /\ Observe(anomaly, AnomalyObservation(s), T.cpu_anomaly_debounce_samples)
                \in 0 .. T.cpu_anomaly_debounce_samples
      BY <1>1, <3>1, StreakTypes
    <3> QED
      BY <1>1, <3>2, <3>3 DEF CpuHeatStep, AnomalyStep
  <2>4. /\ hot' \in 0 .. T.cpu_heat_debounce_samples
        /\ idle' \in 0 .. T.cpu_anomaly_debounce_samples
    <3>1. /\ hot \in 0 .. T.cpu_heat_debounce_samples
          /\ idle \in 0 .. T.cpu_anomaly_debounce_samples
      BY <1>4 DEF TypeOK
    <3>2. /\ hot' = Run(hot, HotCharger(s), T.cpu_heat_debounce_samples)
          /\ idle' = Run(idle, HotIdle(s), T.cpu_anomaly_debounce_samples)
      BY <1>4 DEF Evaluate, s
    <3> QED
      BY <1>1, <3>1, <3>2, StreakTypes
  <2>5. spoken' \in [Names -> 0 .. 2]
    BY <1>4, SpeakType DEF Evaluate
  <2>6. undue' \subseteq Names /\ owed' \subseteq Names
    <3>1. Announced(s) \subseteq Names
      BY DEF Announced, ChargeAlerts, ThermalAlerts, HealthAlerts, VoltageAlerts,
             CpuHeatAlerts, AnomalyAlerts, Names
    <3>2. Caused(s, lost, hot', idle') \subseteq Names
      BY DEF Caused
    <3>3. /\ undue' \subseteq Announced(s)
          /\ owed' \subseteq Caused(s, lost, hot', idle')
      BY <1>4 DEF Evaluate, s
    <3> QED
      BY <3>1, <3>2, <3>3
  <2>7. atBandEnd' \in BOOLEAN
    BY <1>4 DEF Evaluate
  <2> QED
    BY <2>2, <2>3, <2>4, <2>5, <2>6, <2>7 DEF TypeOK
<1>5. TypeOK /\ UNCHANGED vars => TypeOK'
  BY DEF TypeOK, vars, latches
<1>6. TypeOK /\ [Next]_vars => TypeOK'
  BY <1>3, <1>4, <1>5 DEF Next
<1> QED
  BY <1>2, <1>6, PTL DEF Spec
=============================================================================

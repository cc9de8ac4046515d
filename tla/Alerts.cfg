\* The default thresholds; every reading the alerts expect to be without may be
\* lost, one at a time.
SPECIFICATION Spec
CONSTANTS
    None = None
    T <- DefaultThresholds
    Hardware <- AllHardware
    Gaps = {"temp", "voltage_now", "cpuTemp", "cpuPct", "power_now", "status"}
INVARIANTS
    TypeOK
    SpeaksOnce
    NothingOwed
    NothingUndue

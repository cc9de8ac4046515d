\* The default thresholds; the design voltage may be unreadable.
SPECIFICATION Spec
CONSTANTS
    None = None
    T <- DefaultThresholds
    Hardware <- AllHardware
    Gaps = {"voltage_min_design"}
INVARIANTS
    SpeaksOnce

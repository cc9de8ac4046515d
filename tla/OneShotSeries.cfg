\* A one-shot recording runs beside the daemon, nothing fails.
SPECIFICATION Spec
CONSTANTS
    None = None
    Designs = {2}
    CycleUnits = 2
    HistoryInterval = 2
    PruneInterval = 2
    RetentionRows = 2
    MaxEnergy = 2
    MaxId = 3
    MaxDrained = 2
    MaxBoots = 1
    Rails = {"Charging", "Discharging", "AcIdle"}
    Alarms = {"clear"}
    Faults = {}
    Events = {"oneshot"}
INVARIANTS
    DebugSeriesNeverFalls

\* Only the insert into the history may fail.
SPECIFICATION Spec
CONSTANTS
    None = None
    Designs = {2}
    CycleUnits = 2
    HistoryInterval = 2
    PruneInterval = 2
    RetentionRows = 2
    MaxEnergy = 2
    MaxId = 3
    MaxDrained = 2
    MaxBoots = 1
    Rails = {"Charging", "Discharging", "AcIdle"}
    Alarms = {"clear"}
    Faults = {"history"}
    Events = {}
INVARIANTS
    DebugSeriesNeverFalls

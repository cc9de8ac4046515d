\* As RecorderFaults, with the history and the pruning never failing.
SPECIFICATION Spec
CONSTANTS
    None = None
    Designs = {2}
    CycleUnits = 2
    HistoryInterval = 2
    PruneInterval = 1
    RetentionRows = 1
    MaxEnergy = 2
    MaxId = 3
    MaxDrained = 2
    MaxBoots = 2
    Rails = {"Charging", "Discharging"}
    Alarms = {"clear"}
    Faults = {"adopt", "debug"}
    Events = {"unreadable", "kill", "powerloss"}
INVARIANTS
    DebugSeriesNeverFalls
    DebugBounded
PROPERTIES
    ImplementsCycleMeter

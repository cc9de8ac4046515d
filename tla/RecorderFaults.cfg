\* Every statement may fail, the daemon may be killed at any step, the machine
\* may lose power; one pack that stays in its seat.
SPECIFICATION Spec
CONSTANTS
    None = None
    Designs = {2}
    CycleUnits = 2
    HistoryInterval = 2
    PruneInterval = 2
    RetentionRows = 1
    MaxEnergy = 1
    MaxId = 3
    MaxDrained = 2
    MaxBoots = 2
    Rails = {"Charging", "Discharging"}
    Alarms = {"clear"}
    Faults = {"prune", "adopt", "debug", "history"}
    Events = {"unreadable", "nodesign", "kill", "powerloss"}
INVARIANTS
    TypeOK
    HistorySeriesNeverFalls
    NoPhantomWear
    HistoryNoPhantomWear
PROPERTIES
    PruneKeepsNewest

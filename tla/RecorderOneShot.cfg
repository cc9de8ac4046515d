\* A one-shot recording runs beside the daemon, every statement may fail; the
\* pack holds no energy, only ids, pruning and latches matter.
SPECIFICATION Spec
CONSTANTS
    None = None
    Designs = {2}
    CycleUnits = 2
    HistoryInterval = 2
    PruneInterval = 2
    RetentionRows = 2
    MaxEnergy = 0
    MaxId = 5
    MaxDrained = 0
    MaxBoots = 1
    Rails = {"Charging", "Discharging", "AcIdle"}
    Alarms = {"raised", "held", "clear"}
    Faults = {"prune", "adopt", "debug", "history"}
    Events = {"oneshot", "kill", "unreadable", "swap"}
INVARIANTS
    AnnouncedOnce
PROPERTIES
    PruneKeepsNewest

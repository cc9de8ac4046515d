\* The pack may be removed and another seated, its readings drift on the charger;
\* no statement fails.
SPECIFICATION Spec
CONSTANTS
    None = None
    Designs = {1, 2}
    CycleUnits = 2
    HistoryInterval = 2
    PruneInterval = 2
    RetentionRows = 1
    MaxEnergy = 2
    MaxId = 3
    MaxDrained = 3
    MaxBoots = 1
    Rails = {"Charging", "Discharging", "AcIdle"}
    Alarms = {"clear"}
    Faults = {}
    Events = {"nodesign", "drift", "swap"}
INVARIANTS
    NoPhantomWear

\* Two hwmon directories; two PIDs and four ticks of CPU; two packs;
\* BAT0, BAT1 and one name that sorts before them.
SPECIFICATION Spec
CONSTANTS
    None = None
    Absent = Absent
    Parts = {"sensors", "processes", "battery", "supplies"}
    Directories = 2
    Singles = {"nvme"}
    HasTemp = FALSE
    RESCAN_INTERVAL = 3
    Pids = {1, 2}
    MaxTicks = 4
    Rails = {"Discharging", "Charging", "AcIdle"}
    Seatable = {1, 2}
    ESTIMATE_TTL = 2
    Names = {1, 2, 3}
    BatNames = {2, 3}
INVARIANTS
    TypeOK
    OneGpu
    Found
PROPERTIES
    Attributed
    NothingCreditedTwice
    SharesFit
    RuntimeFits
    SystemFirst

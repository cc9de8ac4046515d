\* A service, a second daemon started by hand, and a one-shot, over every kind
\* of database a release has left behind.
SPECIFICATION Spec
CONSTANTS
    None = None
    Daemons = {service, byHand}
    Service = service
    Shots = {shot}
    MaxEnds = 1
    MaxRows = 4
INVARIANTS
    TypeOK
    OneDaemon
    PidStands
    VersionIsEarned
PROPERTIES
    RowsSurvive
    Served

\* Two families; ticks that take no time, half an interval, or more than one;
\* sleeps that end on time, or an interval and a half late.
SPECIFICATION Spec
CONSTANTS
    None = None
    Families = {charge, cpuHeat}
    Interval = 2
    Costs = {0, 1, 3}
    Oversleeps = {0, 3}
    Reconnect = 3
    MaxBubbles = 2
INVARIANTS
    TypeOK
    Cadence
    OneBubblePerFamily
PROPERTIES
    NoBurst
    OwnBubble
    Recording
    SignalEnds
    Heard

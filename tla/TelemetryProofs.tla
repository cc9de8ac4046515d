-------------------------- MODULE TelemetryProofs --------------------------
(***************************************************************************)
(* What the Sampler's readers keep for any PIDs, CPU time, packs, TTL,     *)
(* sensors and supplies: CPU time is credited once and within the total,   *)
(* an estimate fits the pack it is shown with, a temperature is of the     *)
(* device it is recorded as and found in time, and the battery watched is  *)
(* the machine's.                                                          *)
(***************************************************************************)
EXTENDS Telemetry, Induction, TLAPS

-----------------------------------------------------------------------------
\* What a process has used since it was listed is no more than what was done
\* under its PID since then.
Settled ==
    \A p \in DOMAIN previous :
        /\ previous[p] \in Nat /\ did[p] \in Nat
        /\ p \in DOMAIN work => work[p] - previous[p] <= did[p]

ProcessInv ==
    /\ work \in [DOMAIN work -> Nat]
    /\ previous \in [DOMAIN previous -> Nat]
    /\ did \in [DOMAIN previous -> Nat]
    /\ Settled
    /\ stat # Unread => DOMAIN rows = {}

LEMMA ProcessBegins == ProcessInit => ProcessInv
  BY DEF ProcessInit, ProcessInv, Settled, Nobody

LEMMA CreditBounded ==
    ASSUME ProcessInv, NEW p \in DOMAIN work
    PROVE  Delta(p) <= ItsTicks(did, p) /\ DOMAIN did = DOMAIN previous
<1>1. work[p] \in Nat
  BY DEF ProcessInv
<1>2. CASE p \in DOMAIN previous
  <2>1. previous[p] \in Nat /\ did[p] \in Nat /\ work[p] - previous[p] <= did[p]
    BY <1>2 DEF ProcessInv, Settled
  <2> QED
    BY <1>1, <1>2, <2>1 DEF Delta, Saturating, ItsTicks, ProcessInv
<1>3. CASE p \notin DOMAIN previous
  BY <1>3 DEF Delta, ItsTicks, ProcessInv
<1> QED
  BY <1>2, <1>3

LEMMA ProcessStep == ProcessInv /\ [ProcessNext]_processVars => ProcessInv'
<1> SUFFICES ASSUME ProcessInv, [ProcessNext]_processVars
             PROVE  ProcessInv'
  OBVIOUS
<1>1. CASE /\ UNCHANGED <<work, previous, did>>
           /\ stat' # Unread => DOMAIN rows' = {}
  BY <1>1 DEF ProcessInv, Settled
<1>2. CASE List
  <2>1. PICK listed \in SUBSET DOMAIN work :
            previous' = [p \in listed |-> work[p]] /\ did' = [p \in listed |-> 0]
    BY <1>2 DEF List, Swap, Restrict
  <2>2. work' = work /\ stat' = Unread
    BY <1>2 DEF List
  <2> QED
    BY <2>1, <2>2 DEF ProcessInv, Settled
<1>3. ASSUME NEW p \in Pids, Work(p) PROVE ProcessInv'
  <2>1. /\ p \in DOMAIN work /\ work' = [work EXCEPT ![p] = @ + 1] /\ previous' = previous
        /\ did' = IF p \in DOMAIN did THEN [did EXCEPT ![p] = @ + 1] ELSE did
    BY <1>3 DEF Work
  <2>5. stat' # Unread => DOMAIN rows' = {}
    BY <1>3 DEF Work, ProcessInv
  <2>2. work' \in [DOMAIN work' -> Nat] /\ DOMAIN work' = DOMAIN work
    BY <2>1 DEF ProcessInv
  <2>3. did' \in [DOMAIN previous' -> Nat]
    BY <2>1 DEF ProcessInv
  <2>4. Settled'
    BY <2>1, <2>2, <2>3 DEF ProcessInv, Settled
  <2> QED
    BY <2>1, <2>2, <2>3, <2>4, <2>5 DEF ProcessInv
<1>4. ASSUME NEW p \in Pids, Ends(p) \/ Starts(p) PROVE ProcessInv'
  <2>1. UNCHANGED <<previous, did, stat, rows>>
    BY <1>4 DEF Ends, Starts
  <2>2. CASE Ends(p)
    <3>1. work' = [q \in DOMAIN work \ {p} |-> work[q]]
      BY <2>2 DEF Ends, Restrict
    <3> QED
      BY <2>1, <3>1 DEF ProcessInv, Settled
  <2>3. CASE Starts(p)
    <3>1. /\ p \notin DOMAIN work
          /\ work' = [q \in DOMAIN work \cup {p} |-> IF q \in DOMAIN work THEN work[q] ELSE 0]
      BY <2>3 DEF Starts, ItsTicks
    <3>2. work' \in [DOMAIN work' -> Nat] /\ DOMAIN work' = DOMAIN work \cup {p} /\ work'[p] = 0
      BY <3>1 DEF ProcessInv
    <3>3. \A q \in DOMAIN work : work'[q] = work[q]
      BY <3>1
    <3>4. Settled'
      BY <2>1, <3>1, <3>2, <3>3 DEF ProcessInv, Settled
    <3> QED
      BY <2>1, <3>2, <3>4 DEF ProcessInv
  <2> QED
    BY <1>4, <2>2, <2>3
<1> QED
  BY <1>1, <1>2, <1>3, <1>4
     DEF ProcessNext, ReadStat, ListFails, MachineStep, Idle, processVars, ProcessInv, Nobody

THEOREM ProcessAlways == ProcessSpec => []ProcessInv
  BY ProcessBegins, ProcessStep, PTL DEF ProcessSpec

\* read gives no process more than was done under its PID since it was listed.
LEMMA CreditedOnceAlone == ProcessSpec => NothingCreditedTwice
<1>1. ProcessInv /\ [ProcessNext]_processVars =>
          [Listing => \A p \in DOMAIN rows' : rows'[p] <= ItsTicks(did, p)]_processVars
  <2> SUFFICES ASSUME ProcessInv, ProcessNext, Listing, NEW p \in DOMAIN rows'
               PROVE  rows'[p] <= ItsTicks(did, p)
    OBVIOUS
  <2>1. stat # Unread /\ stat' = Unread
    BY DEF Listing
  <2>2. List \/ ListFails
    BY <2>1 DEF ProcessNext, MachineStep, Idle, Work, Ends, Starts
  <2>3. CASE List
    <3>1. p \in DOMAIN work /\ rows'[p] = Delta(p)
      BY <2>3 DEF List
    <3> QED
      BY <3>1, CreditBounded
  <2>4. CASE ListFails
    BY <2>1, <2>4 DEF ListFails, ProcessInv
  <2> QED
    BY <2>2, <2>3, <2>4
<1> QED
  BY <1>1, ProcessAlways, PTL DEF NothingCreditedTwice, ProcessSpec

\* The readers run within the ticks of the Sampler as they do alone.
THEOREM TicksOfProcesses == Spec => ProcessSpec
<1>1. Init => ProcessInit
  BY DEF Init
<1>2. [Next]_vars => [ProcessNext]_processVars
  <2> SUFFICES ASSUME Next PROVE ProcessNext \/ UNCHANGED processVars
    BY DEF vars
  <2>1. CASE Sample
    BY <2>1 DEF Sample, ProcessNext
  <2>2. CASE TopProcesses
    BY <2>2 DEF TopProcesses, ProcessNext
  <2>3. CASE NoSample \/ Machine
    BY <2>3 DEF NoSample, Machine, ProcessNext
  <2> QED
    BY <2>1, <2>2, <2>3 DEF Next
<1> QED
  BY <1>1, <1>2, PTL DEF Spec, ProcessSpec

\* So read gives no process more than was done under its PID since it was
\* listed, in whatever ticks.
THEOREM CreditedOnce == Spec => NothingCreditedTwice
  BY TicksOfProcesses, CreditedOnceAlone, PTL

-----------------------------------------------------------------------------
\* What is cached is of the rail of its poll, and of the pack in the seat, of
\* the one last in it, or of one a pack took the place of unnoticed.
Cached ==
    LET c == poll.cached IN
    poll # Absent /\ c # Absent =>
        /\ c = [pack |-> c.pack, rail |-> poll.rail, age |-> 0]
        /\ unnoticed \/ c.pack = seated \/ gone = "unseen"

\* An empty seat a tick has told of has left nothing cached.
Seen ==
    /\ gone \in {"no", "unseen", "seen"}
    /\ (gone = "no") <=> (seated # Absent)
    /\ gone = "seen" => (poll = Absent /\ readable = FALSE)

EstimateInv ==
    /\ poll # Absent =>
          /\ poll = [rail |-> poll.rail, cached |-> poll.cached, age |-> poll.age]
          /\ poll.age \in Nat /\ poll.age < ESTIMATE_TTL
    /\ readable \in BOOLEAN
    /\ Cached /\ Seen

LEMMA EstimateBegins == EstimateInit => EstimateInv
  BY EstimatesAssumption DEF EstimateInit, EstimateInv, Cached, Seen

\* A poll that is renewed asks about the pack in the seat; one that is kept is
\* of the same rail, and a tick short of the TTL.
LEMMA PolledEither ==
    ASSUME EstimateInv
    PROVE  \/ Polled = [rail |-> rail, cached |-> Asked, age |-> 0]
           \/ /\ poll # Absent /\ poll.rail = rail
              /\ Polled = [rail |-> rail, cached |-> poll.cached, age |-> poll.age + 1]
              /\ poll.age + 1 < ESTIMATE_TTL /\ poll.age \in Nat
<1>1. CASE poll = Absent \/ poll.rail # rail \/ poll.age + 1 >= ESTIMATE_TTL
  BY <1>1 DEF Polled
<1>2. CASE ~ (poll = Absent \/ poll.rail # rail \/ poll.age + 1 >= ESTIMATE_TTL)
  <2>1. poll.age + 1 < ESTIMATE_TTL /\ poll.age \in Nat
    BY <1>2, EstimatesAssumption DEF EstimateInv
  <2>2. Polled = [poll EXCEPT !.age = @ + 1]
    BY <1>2 DEF Polled
  <2>3. Polled = [rail |-> rail, cached |-> poll.cached, age |-> poll.age + 1]
    BY <1>2, <2>2 DEF EstimateInv
  <2> QED
    BY <1>2, <2>1, <2>3
<1> QED
  BY <1>1, <1>2

LEMMA RefreshStep == EstimateInv /\ RefreshEstimates => EstimateInv'
<1> SUFFICES ASSUME EstimateInv, RefreshEstimates
             PROVE  EstimateInv'
  OBVIOUS
<1>1. /\ poll' = Polled /\ unnoticed' = (unnoticed /\ Polled.age # 0)
      /\ UNCHANGED <<seated, rail, readable, gone>> /\ readable
  BY DEF RefreshEstimates
<1>2. Seen'
  BY <1>1 DEF EstimateInv, Seen
<1>3. CASE Polled = [rail |-> rail, cached |-> Asked, age |-> 0]
  <2>1. Asked = Absent \/ Asked = [pack |-> seated, rail |-> rail, age |-> 0]
    BY DEF Asked, Estimate
  <2>2. Cached'
    BY <1>1, <1>3, <2>1 DEF Cached
  <2> QED
    BY <1>1, <1>2, <1>3, <2>2, EstimatesAssumption DEF EstimateInv
<1>4. CASE /\ poll # Absent /\ poll.rail = rail
           /\ Polled = [rail |-> rail, cached |-> poll.cached, age |-> poll.age + 1]
           /\ poll.age + 1 < ESTIMATE_TTL /\ poll.age \in Nat
  <2>1. Polled.age # 0
    BY <1>4
  <2>2. Cached'
    BY <1>1, <1>4, <2>1 DEF EstimateInv, Cached
  <2> QED
    BY <1>1, <1>2, <1>4, <2>2 DEF EstimateInv
<1> QED
  BY <1>3, <1>4, PolledEither

LEMMA EstimateStep ==
    EstimateInv /\ [RefreshEstimates \/ InvalidateEstimates \/ HardwareStep]_estimateVars
        => EstimateInv'
<1> SUFFICES ASSUME EstimateInv,
                    [RefreshEstimates \/ InvalidateEstimates \/ HardwareStep]_estimateVars
             PROVE  EstimateInv'
  OBVIOUS
<1>1. CASE RefreshEstimates
  BY <1>1, RefreshStep
<1>2. CASE InvalidateEstimates
  BY <1>2 DEF InvalidateEstimates, EstimateInv, Cached, Seen
<1>3. CASE Pull
  BY <1>3 DEF Pull, EstimateInv, Cached, Seen
<1>4. ASSUME NEW p \in Seatable, Seat(p) PROVE EstimateInv'
  <2>1. p # Absent
    BY EstimatesAssumption
  <2> QED
    BY <1>4, <2>1 DEF Seat, EstimateInv, Cached, Seen
<1>5. CASE Attributes
  BY <1>5 DEF Attributes, EstimateInv, Cached, Seen
<1>6. CASE UNCHANGED estimateVars
  BY <1>6 DEF estimateVars, EstimateInv, Cached, Seen
<1> QED
  BY <1>1, <1>2, <1>3, <1>4, <1>5, <1>6 DEF HardwareStep

LEMMA EstimatesInTicks ==
    [Next]_vars => [RefreshEstimates \/ InvalidateEstimates \/ HardwareStep]_estimateVars
<1> SUFFICES ASSUME Next
             PROVE  [RefreshEstimates \/ InvalidateEstimates \/ HardwareStep]_estimateVars
  BY DEF vars
<1>1. CASE Sample
  BY <1>1 DEF Sample
<1>2. CASE NoSample \/ TopProcesses
  BY <1>2 DEF NoSample, TopProcesses
<1>3. CASE Machine
  BY <1>3 DEF Machine
<1> QED
  BY <1>1, <1>2, <1>3 DEF Next

THEOREM EstimatesAlways == Spec => []EstimateInv
<1>1. Init => EstimateInv
  BY EstimateBegins DEF Init
<1> QED
  BY <1>1, EstimateStep, EstimatesInTicks, PTL DEF Spec

\* refresh_estimates: for any packs and TTL, a runtime that is recorded is of
\* the pack and the rail it is recorded with and within the TTL, unless a pack
\* took another's place unnoticed.
THEOREM RuntimeOfItsPack == Spec => RuntimeFits
<1>1. EstimateInv /\ [Next]_vars =>
          [RefreshEstimates /\ runtime' # Absent /\ seated # Absent =>
              \/ unnoticed'
              \/ runtime'.pack = seated /\ runtime'.rail = rail /\ runtime'.age < ESTIMATE_TTL
          ]_estimateVars
  <2> SUFFICES ASSUME EstimateInv, RefreshEstimates, runtime' # Absent, seated # Absent, ~ unnoticed'
               PROVE  runtime'.pack = seated /\ runtime'.rail = rail /\ runtime'.age < ESTIMATE_TTL
    OBVIOUS
  <2>1. CASE Polled.cached = Absent
    <3>1. runtime' = [pack |-> seated, rail |-> rail, age |-> 0]
      BY <2>1 DEF RefreshEstimates, Estimate
    <3> QED
      BY <3>1, EstimatesAssumption
  <2>2. CASE Polled.cached # Absent
    <3>1. runtime' = [Polled.cached EXCEPT !.age = Polled.age]
      BY <2>2 DEF RefreshEstimates
    <3>2. CASE Polled = [rail |-> rail, cached |-> Asked, age |-> 0]
      <4>1. Polled.cached = [pack |-> seated, rail |-> rail, age |-> 0] /\ Polled.age = 0
        BY <2>2, <3>2 DEF Asked, Estimate
      <4> QED
        BY <3>1, <4>1, EstimatesAssumption
    <3>3. CASE /\ poll # Absent /\ poll.rail = rail
               /\ Polled = [rail |-> rail, cached |-> poll.cached, age |-> poll.age + 1]
               /\ poll.age + 1 < ESTIMATE_TTL /\ poll.age \in Nat
      <4>1. Polled.age # 0 /\ Polled.cached = poll.cached
        BY <3>3
      <4>2. ~ unnoticed /\ gone # "unseen"
        BY <4>1 DEF RefreshEstimates, EstimateInv, Seen
      <4>3. poll.cached = [pack |-> seated, rail |-> rail, age |-> 0]
        BY <2>2, <3>3, <4>1, <4>2 DEF EstimateInv, Cached
      <4> QED
        BY <3>1, <3>3, <4>1, <4>3
    <3> QED
      BY <3>2, <3>3, PolledEither
  <2> QED
    BY <2>1, <2>2
<1> QED
  BY <1>1, EstimatesAlways, PTL DEF RuntimeFits, Spec

-----------------------------------------------------------------------------
(***************************************************************************)
(* The thermal reader: a walk over the devices, and the cache of what it   *)
(* located.                                                                *)
(***************************************************************************)
Places == Dirs \cup {None}

Located ==
    [single : [Singles -> Places], gpu_temp : Places, gpu_power : Places, battery : Children]

\* The walk over the first n devices: every path it leaves is of a device of
\* its kind and reads, the GPU's two are of one, and a reading is only left out
\* where none of those devices offers it.
WalkedTo(s, n) ==
    /\ s \in Located /\ s.battery = child
    /\ \A c \in Singles :
          IF s.single[c] = None THEN \A d \in 1 .. n : ~ (Is(d, c) /\ Temp(d))
          ELSE Is(s.single[c], c) /\ Temp(s.single[c])
    /\ s.gpu_temp # None => Is(s.gpu_temp, "gpu") /\ Temp(s.gpu_temp)
    /\ s.gpu_power # None => Is(s.gpu_power, "gpu") /\ Power(s.gpu_power)
    /\ s.gpu_temp # None /\ s.gpu_power # None => s.gpu_temp = s.gpu_power
    /\ s.gpu_temp = None \/ s.gpu_power = None =>
          \A d \in 1 .. n : ~ (Is(d, "gpu") /\ Temp(d) /\ Power(d))

\* The recursion that defines the walk has a solution, one device at a time.
Walks(g, base, n) ==
    g = [d \in 0 .. n |-> IF d = 0 THEN base ELSE Visit(g[d - 1], d)]

LEMMA WalkExists == ASSUME NEW base, NEW n \in Nat PROVE \E g : Walks(g, base, n)
<1> USE DEF Walks
<1> DEFINE Solves(g, m) == Walks(g, base, m)
           P == {m \in Nat : \E g : Solves(g, m)}
<1>1. 0 \in P
  <2> DEFINE g == [d \in 0 .. 0 |-> base]
  <2>1. Solves(g, 0)
    OBVIOUS
  <2> QED
    BY <2>1
<1>2. ASSUME NEW m \in Nat, m \in P PROVE m + 1 \in P
  <2>1. PICK g : Solves(g, m)
    BY <1>2
  <2> DEFINE h == [d \in 0 .. m + 1 |-> IF d = m + 1 THEN Visit(g[m], m + 1) ELSE g[d]]
  <2>2. \A d \in 0 .. m : h[d] = g[d]
    OBVIOUS
  <2>3. \A d \in 0 .. m + 1 : h[d] = IF d = 0 THEN base ELSE Visit(h[d - 1], d)
    <3> SUFFICES ASSUME NEW d \in 0 .. m + 1
                 PROVE  h[d] = IF d = 0 THEN base ELSE Visit(h[d - 1], d)
      OBVIOUS
    <3>1. CASE d = m + 1
      <4>1. d # 0 /\ d - 1 = m /\ h[m] = g[m] /\ h[d] = Visit(g[m], m + 1)
        BY <2>2, <3>1
      <4> QED
        BY <3>1, <4>1
    <3>2. CASE d = 0
      <4>1. 0 \in 0 .. m
        OBVIOUS
      <4>2. g[0] = base
        BY <2>1, <4>1
      <4> QED
        BY <2>2, <3>2, <4>1, <4>2
    <3>3. CASE d \in 1 .. m
      <4>1. d \in 0 .. m /\ d - 1 \in 0 .. m /\ d # 0
        BY <3>3
      <4>2. g[d] = Visit(g[d - 1], d)
        BY <2>1, <4>1
      <4>3. h[d] = g[d] /\ h[d - 1] = g[d - 1]
        BY <2>2, <4>1
      <4> QED
        BY <4>1, <4>2, <4>3
    <3> QED
      BY <3>1, <3>2, <3>3
  <2>4. Solves(h, m + 1)
    BY <2>3
  <2> HIDE DEF h
  <2> QED
    BY <2>4
<1> HIDE DEF P
<1>3. Nat \subseteq P
  BY <1>1, <1>2, NaturalInduction
<1> QED
  BY <1>3 DEF P

LEMMA WalkSteps ==
    /\ walk[0] = [Nothing EXCEPT !.battery = child]
    /\ \A d \in Dirs : walk[d] = Visit(walk[d - 1], d)
<1> DEFINE base == [Nothing EXCEPT !.battery = child]
<1>1. \E g : Walks(g, base, Directories)
  BY ThermalAssumption, WalkExists
<1>2. walk = CHOOSE g : Walks(g, base, Directories)
  BY DEF walk, Walks
<1>3. Walks(walk, base, Directories)
  BY <1>1, <1>2
<1> HIDE DEF base
<1>4. 0 \in 0 .. Directories /\ \A d \in Dirs : d \in 0 .. Directories /\ d # 0
  BY ThermalAssumption DEF Dirs
<1> QED
  BY <1>3, <1>4 DEF base, Walks

LEMMA AdoptWalks ==
    ASSUME NEW n \in Nat, n + 1 \in Dirs, NEW s, WalkedTo(s, n)
    PROVE  LET t == Adopt(s, n + 1)
           IN  /\ t \in Located /\ t.single = s.single /\ t.battery = s.battery
               /\ t.gpu_temp # None => Is(t.gpu_temp, "gpu") /\ Temp(t.gpu_temp)
               /\ t.gpu_power # None => Is(t.gpu_power, "gpu") /\ Power(t.gpu_power)
               /\ t.gpu_temp # None /\ t.gpu_power # None => t.gpu_temp = t.gpu_power
               /\ t.gpu_temp = None \/ t.gpu_power = None =>
                     \A d \in 1 .. n + 1 : ~ (Is(d, "gpu") /\ Temp(d) /\ Power(d))
<1> DEFINE e == n + 1
           t == Adopt(s, e)
           both == s.gpu_temp # None /\ s.gpu_power # None
           neither == s.gpu_temp = None /\ s.gpu_power = None
<1>1. s \in Located /\ e \in Dirs /\ e # None /\ e \in Places
  BY ThermalAssumption DEF WalkedTo, Places
<1>2. \A d \in 1 .. e : d = e \/ d \in 1 .. n
  OBVIOUS
<1>3. CASE Is(e, "gpu") /\ (neither \/ (~ both /\ Temp(e) /\ Power(e)))
  <2> DEFINE u == [s EXCEPT !.gpu_temp = Path(Temp(e), e)]
             v == [u EXCEPT !.gpu_power = Path(Power(e), e)]
  <2>1. t = v
    BY <1>3 DEF Adopt
  <2>2. Path(Temp(e), e) \in Places /\ Path(Power(e), e) \in Places
    BY <1>1 DEF Path, Places
  <2>3. /\ u \in Located /\ u.gpu_temp = Path(Temp(e), e) /\ u.gpu_power = s.gpu_power
        /\ u.single = s.single /\ u.battery = s.battery
    BY <1>1, <2>2 DEF Located
  <2>4. /\ v \in Located /\ v.gpu_temp = Path(Temp(e), e) /\ v.gpu_power = Path(Power(e), e)
        /\ v.single = s.single /\ v.battery = s.battery
    <3> HIDE DEF u
    <3> QED
      BY <2>2, <2>3 DEF Located
  <2> HIDE DEF v, u, t, e
  <2>5. t.gpu_temp = None <=> ~ Temp(e)
    BY <1>1, <2>1, <2>4 DEF Path
  <2>6. t.gpu_power = None <=> ~ Power(e)
    BY <1>1, <2>1, <2>4 DEF Path
  <2>7. ASSUME t.gpu_temp = None \/ t.gpu_power = None, NEW d \in 1 .. e
        PROVE  ~ (Is(d, "gpu") /\ Temp(d) /\ Power(d))
    <3>1. CASE d = e
      BY <2>5, <2>6, <2>7, <3>1
    <3>2. CASE d \in 1 .. n
      <4>1. neither
        BY <1>3, <2>5, <2>6, <2>7
      <4> QED
        BY <3>2, <4>1 DEF WalkedTo
    <3> QED
      BY <1>2, <2>7, <3>1, <3>2
  <2> QED
    BY <1>1, <1>3, <2>1, <2>4, <2>5, <2>6, <2>7 DEF Path, t, e
<1>4. CASE ~ (Is(e, "gpu") /\ (neither \/ (~ both /\ Temp(e) /\ Power(e))))
  <2>1. t = s
    BY <1>4 DEF Adopt
  <2>2. ASSUME ~ both, NEW d \in 1 .. e
        PROVE  ~ (Is(d, "gpu") /\ Temp(d) /\ Power(d))
    BY <1>2, <1>4, <2>2 DEF WalkedTo
  <2> QED
    BY <1>1, <2>1, <2>2 DEF WalkedTo
<1> QED
  BY <1>3, <1>4

LEMMA VisitWalks ==
    ASSUME NEW n \in Nat, n + 1 \in Dirs, NEW s, WalkedTo(s, n)
    PROVE  WalkedTo(Visit(s, n + 1), n + 1)
<1> DEFINE e == n + 1
           t == Adopt(s, e)
           single == [c \in Singles |-> IF t.single[c] = None /\ Is(e, c) THEN Path(Temp(e), e)
                                        ELSE t.single[c]]
           v == [t EXCEPT !.single = single]
<1>1. /\ t \in Located /\ t.single = s.single /\ t.battery = child /\ e \in Dirs /\ e # None
      /\ e \in Places
  BY AdoptWalks, ThermalAssumption DEF WalkedTo, Places
<1>2. Visit(s, e) = v
  BY DEF Visit
<1>3. single \in [Singles -> Places]
  <2> HIDE DEF t, e
  <2> QED
    BY <1>1 DEF Path, Located
<1>4. /\ v \in Located /\ v.single = single /\ v.gpu_temp = t.gpu_temp
      /\ v.gpu_power = t.gpu_power /\ v.battery = t.battery
  <2> HIDE DEF single, t
  <2> QED
    BY <1>1, <1>3 DEF Located
<1>5. ASSUME NEW c \in Singles
      PROVE  IF v.single[c] = None THEN \A d \in 1 .. e : ~ (Is(d, c) /\ Temp(d))
             ELSE Is(v.single[c], c) /\ Temp(v.single[c])
  <2>1. v.single[c] = IF s.single[c] = None /\ Is(e, c) THEN Path(Temp(e), e) ELSE s.single[c]
    BY <1>1, <1>4
  <2>2. \A d \in 1 .. e : d = e \/ d \in 1 .. n
    OBVIOUS
  <2> HIDE DEF v, e, t, single
  <2> QED
    BY <1>1, <2>1, <2>2 DEF WalkedTo, Path
<1> HIDE DEF v
<1> QED
  BY <1>1, <1>2, <1>4, <1>5, AdoptWalks DEF WalkedTo

\* So scan locates whatever there is, and nothing else.
LEMMA ScanWalks == ASSUME child \in Children PROVE WalkedTo(scan, Directories)
<1> DEFINE P == {n \in Nat : n <= Directories => WalkedTo(walk[n], n)}
<1>1. 0 \in P
  <2>1. walk[0] = [Nothing EXCEPT !.battery = child] /\ None \in Places
    BY WalkSteps DEF Places
  <2>2. Nothing \in Located
    BY <2>1 DEF Nothing, Located, Children
  <2>3. /\ walk[0] \in Located /\ walk[0].battery = child /\ walk[0].single = Nothing.single
        /\ walk[0].gpu_temp = None /\ walk[0].gpu_power = None
    BY <2>1, <2>2 DEF Located, Nothing
  <2>4. \A c \in Singles : walk[0].single[c] = None
    BY <2>3 DEF Nothing
  <2>5. WalkedTo(walk[0], 0)
    BY <2>3, <2>4 DEF WalkedTo
  <2> QED
    BY <2>5
<1>2. ASSUME NEW n \in Nat, n \in P PROVE n + 1 \in P
  <2> SUFFICES ASSUME n + 1 <= Directories PROVE WalkedTo(walk[n + 1], n + 1)
    OBVIOUS
  <2>1. n + 1 \in Dirs /\ WalkedTo(walk[n], n) /\ (n + 1) - 1 = n
    BY <1>2, ThermalAssumption DEF Dirs
  <2>2. walk[n + 1] = Visit(walk[n], n + 1)
    BY <2>1, WalkSteps
  <2> QED
    BY <2>1, <2>2, VisitWalks
<1> HIDE DEF P
<1>3. Nat \subseteq P
  BY <1>1, <1>2, NaturalInduction
<1> QED
  BY <1>3, ThermalAssumption DEF P, scan

-----------------------------------------------------------------------------
\* The two GPU readings, when there are two, are under one directory.
Paired(s) == s.gpu_temp # None /\ s.gpu_power # None => s.gpu_temp = s.gpu_power

\* A located path is under a device of its kind, under one that has left since
\* the last read, or a directory changed hands unnoticed.
Held(d, kind) ==
    d # None => reused \/ Is(d, kind) \/ (hwmon[d] = None /\ d \in vacated)

AllHeld(s) ==
    (\A c \in Singles : Held(s.single[c], c)) /\ Held(s.gpu_temp, "gpu") /\ Held(s.gpu_power, "gpu")

ThermalInv ==
    /\ hwmon \in [Dirs -> Devices] /\ child \in Children
    /\ reads_since_scan \in 0 .. RESCAN_INTERVAL
    /\ reused \in BOOLEAN /\ vacated \subseteq Dirs
    /\ sensors # None => sensors \in Located /\ Paired(sensors) /\ AllHeld(sensors)
    /\ Paired(thermals)

ThermalStep == ReadThermals \/ (\E d \in Dirs : HwmonChanges(d)) \/ ChildChanges

\* What a read relies on: the cache, or another walk.
Rescans ==
    \/ sensors = None
    \/ Least(reads_since_scan + 1, RESCAN_INTERVAL) >= RESCAN_INTERVAL /\ is_incomplete(sensors)

Relied == IF Rescans THEN scan ELSE sensors

LEMMA ReadRelies ==
    ASSUME ReadThermals
    PROVE  /\ reads_since_scan' = IF Rescans THEN 0
                                  ELSE Least(reads_since_scan + 1, RESCAN_INTERVAL)
           /\ thermals' = Reading(Relied)
           /\ sensors' = IF Stale(Relied) THEN None ELSE Relied
           /\ missed' = [c \in Classes |-> IF Offered(c) /\ ~ Got(Reading(Relied), c)
                                           THEN Least(missed[c] + 1, RESCAN_INTERVAL) ELSE 0]
           /\ vacated' = {} /\ UNCHANGED <<hwmon, child, reused>>
<1>1. Relied = IF \/ /\ Least(reads_since_scan + 1, RESCAN_INTERVAL) >= RESCAN_INTERVAL
                     /\ sensors # None /\ is_incomplete(sensors)
                  \/ sensors = None
               THEN scan ELSE sensors
  BY DEF Relied, Rescans
<1> QED
  BY <1>1 DEF ReadThermals, Rescans

\* Either is of one GPU, and of devices of its kinds.
LEMMA ReliedHeld ==
    ASSUME ThermalInv
    PROVE  Relied \in Located /\ Paired(Relied) /\ AllHeld(Relied)
<1>1. CASE Rescans
  <2>1. WalkedTo(scan, Directories) /\ Relied = scan
    BY <1>1, ScanWalks DEF ThermalInv, Relied
  <2> HIDE DEF scan
  <2> QED
    BY <2>1 DEF WalkedTo, Paired, AllHeld, Held
<1>2. CASE ~ Rescans
  BY <1>2 DEF Relied, Rescans, ThermalInv
<1> QED
  BY <1>1, <1>2

\* A reading is from the path that was located for it, under a device that is
\* there.
LEMMA ReadingLocated ==
    ASSUME NEW s \in Located
    PROVE  LET r == Reading(s)
           IN  /\ r.gpu_temp # None => r.gpu_temp = s.gpu_temp /\ Temp(r.gpu_temp)
               /\ r.gpu_power # None => r.gpu_power = s.gpu_power /\ Power(r.gpu_power)
               /\ \A c \in Singles :
                     r.single[c] # None => r.single[c] = s.single[c] /\ Temp(r.single[c])
  BY DEF Reading

LEMMA ThermalBegins == ThermalInit => ThermalInv
<1> SUFFICES ASSUME ThermalInit PROVE ThermalInv
  OBVIOUS
<1>1. Paired(thermals)
  BY DEF ThermalInit, Paired, Nothing
<1>2. None \in Children
  BY DEF Children
<1>3. None \in Devices
  <2> DEFINE quiet == {Device(k, t, FALSE) : k \in Singles, t \in BOOLEAN}
             gpus == {Device("gpu", t, p) : t, p \in BOOLEAN}
  <2>1. Devices = {None} \cup quiet \cup gpus
    BY DEF Devices
  <2> HIDE DEF quiet, gpus
  <2> QED
    BY <2>1
<1>4. 0 \in 0 .. RESCAN_INTERVAL
  BY ThermalAssumption
<1> QED
  BY <1>1, <1>2, <1>3, <1>4 DEF ThermalInit, ThermalInv

LEMMA ReadKeeps == ASSUME ThermalInv, ReadThermals PROVE ThermalInv'
<1>1. Paired(thermals')
  <2>1. Paired(Relied) /\ Relied \in Located
    BY ReliedHeld
  <2> HIDE DEF Relied
  <2> QED
    BY <2>1, ReadRelies, ReadingLocated DEF Paired
<1>2. reads_since_scan' \in 0 .. RESCAN_INTERVAL
  BY ReadRelies, ThermalAssumption DEF ThermalInv, Least
<1>3. ASSUME sensors' # None
      PROVE  sensors' \in Located /\ Paired(sensors') /\ AllHeld(sensors)'
  <2>1. sensors' = Relied /\ Reading(Relied) = Relied
    BY <1>3, ReadRelies DEF Stale
  <2>2. Relied \in Located /\ Paired(Relied) /\ AllHeld(Relied)
    BY ReliedHeld
  <2>3. UNCHANGED <<hwmon, reused>> /\ vacated' = {}
    BY ReadRelies
  <2> DEFINE s == Relied
  <2> HIDE DEF s
  <2>4. /\ s.gpu_temp \in Places /\ s.gpu_power \in Places
        /\ \A c \in Singles : s.single[c] \in Places
    BY <2>2 DEF Located, s
  <2>5. /\ s.gpu_temp # None => Temp(s.gpu_temp)
        /\ s.gpu_power # None => Power(s.gpu_power)
        /\ \A c \in Singles : s.single[c] # None => Temp(s.single[c])
    BY <2>1, <2>2, ReadingLocated DEF s
  <2>6. /\ Held(s.gpu_temp, "gpu") /\ Held(s.gpu_power, "gpu")
        /\ \A c \in Singles : Held(s.single[c], c)
    BY <2>2 DEF AllHeld, s
  <2>7. sensors' = s
    BY <2>1 DEF s
  <2>8. ASSUME NEW d \in Places, NEW kind, Held(d, kind), d # None => Temp(d) \/ Power(d)
        PROVE  Held(d, kind)'
    BY <2>3, <2>8 DEF Held, Is, Temp, Power
  <2>9. AllHeld(sensors)'
    BY <2>4, <2>5, <2>6, <2>7, <2>8 DEF AllHeld
  <2> QED
    BY <2>1, <2>2, <2>9
<1> QED
  BY <1>1, <1>2, <1>3, ReadRelies DEF ThermalInv

LEMMA HwmonKeeps ==
    ASSUME ThermalInv, NEW d \in Dirs, HwmonChanges(d)
    PROVE  ThermalInv'
<1>1. PICK device \in Successors(d) :
          /\ hwmon' = [hwmon EXCEPT ![d] = device]
          /\ vacated' = IF device = None THEN vacated \cup {d} ELSE vacated
          /\ reused' = (reused \/ (hwmon[d] = None /\ d \in vacated))
  BY DEF HwmonChanges
<1>2. UNCHANGED <<child, sensors, reads_since_scan, thermals, missed>>
  BY DEF HwmonChanges
<1>3. /\ device \in Devices
      /\ hwmon[d] # None => device = None \/ device.kind = hwmon[d].kind
  BY <1>1 DEF Successors
<1>4. hwmon' \in [Dirs -> Devices] /\ hwmon'[d] = device /\ \A e \in Dirs \ {d} : hwmon'[e] = hwmon[e]
  BY <1>1, <1>3 DEF ThermalInv
<1>5. ASSUME NEW e \in Places, NEW kind, Held(e, kind) PROVE Held(e, kind)'
  <2>1. CASE e = d
    BY <1>1, <1>3, <1>4, <1>5, <2>1 DEF Held, Is
  <2>2. CASE e # d
    BY <1>1, <1>4, <1>5, <2>2 DEF Held, Is, Places
  <2> QED
    BY <2>1, <2>2
<1>6. ASSUME sensors # None PROVE AllHeld(sensors)'
  <2>1. /\ sensors.gpu_temp \in Places /\ sensors.gpu_power \in Places
        /\ \A c \in Singles : sensors.single[c] \in Places
    BY <1>6 DEF ThermalInv, Located
  <2>2. AllHeld(sensors)
    BY <1>6 DEF ThermalInv
  <2> QED
    BY <1>2, <1>5, <2>1, <2>2 DEF AllHeld
<1>7. reused' \in BOOLEAN /\ vacated' \subseteq Dirs
  BY <1>1 DEF ThermalInv
<1> QED
  BY <1>2, <1>4, <1>6, <1>7 DEF ThermalInv, Paired

LEMMA ThermalKeeps == ThermalInv /\ [ThermalStep]_thermalVars => ThermalInv'
<1> SUFFICES ASSUME ThermalInv, [ThermalStep]_thermalVars PROVE ThermalInv'
  OBVIOUS
<1>1. CASE ChildChanges
  BY <1>1 DEF ChildChanges, ThermalInv, Paired, AllHeld, Held, Is
<1>2. CASE UNCHANGED thermalVars
  BY <1>2 DEF thermalVars, ThermalInv, Paired, AllHeld, Held, Is
<1> QED
  BY <1>1, <1>2, ReadKeeps, HwmonKeeps DEF ThermalStep

LEMMA ThermalInTicks == [Next]_vars => [ThermalStep]_thermalVars
<1> SUFFICES ASSUME Next PROVE [ThermalStep]_thermalVars
  BY DEF vars
<1>1. CASE Sample
  BY <1>1 DEF Sample, ThermalStep
<1>2. CASE NoSample \/ TopProcesses
  BY <1>2 DEF NoSample, TopProcesses
<1>3. CASE Machine
  BY <1>3 DEF Machine, ThermalStep
<1> QED
  BY <1>1, <1>2, <1>3 DEF Next

THEOREM ThermalAlways == Spec => []ThermalInv
<1>1. Init => ThermalInv
  BY ThermalBegins DEF Init
<1> QED
  BY <1>1, ThermalKeeps, ThermalInTicks, PTL DEF Spec

\* scan and read: for any directories and devices, the GPU's temperature and its
\* power are of one device, whatever was asleep when the tree was walked.
THEOREM OneGpuAlways == Spec => []OneGpu
<1>1. ThermalInv => OneGpu
  BY DEF ThermalInv, Paired, OneGpu
<1> QED
  BY <1>1, ThermalAlways, PTL

\* read: no reading is of another kind of device than it is recorded as, unless
\* a directory changed hands between two reads.
THEOREM ReadingsAttributed == Spec => Attributed
<1>1. ThermalInv /\ [Next]_vars =>
          [ReadThermals => \/ reused
                           \/ \A s \in Sources(thermals') : s[2] # None => Is(s[2], s[1])]_thermalVars
  <2> SUFFICES ASSUME ThermalInv, ReadThermals, ~ reused,
                      NEW s \in Sources(thermals'), s[2] # None
               PROVE  Is(s[2], s[1])
    OBVIOUS
  <2>1. Relied \in Located /\ AllHeld(Relied) /\ thermals' = Reading(Relied)
    BY ReliedHeld, ReadRelies
  <2> DEFINE r == Reading(Relied)
  <2>2. /\ r.gpu_temp # None => Is(r.gpu_temp, "gpu")
        /\ r.gpu_power # None => Is(r.gpu_power, "gpu")
        /\ \A c \in Singles : r.single[c] # None => Is(r.single[c], c)
    <3>1. /\ r.gpu_temp # None => r.gpu_temp = Relied.gpu_temp /\ Temp(r.gpu_temp)
          /\ r.gpu_power # None => r.gpu_power = Relied.gpu_power /\ Power(r.gpu_power)
          /\ \A c \in Singles :
                r.single[c] # None => r.single[c] = Relied.single[c] /\ Temp(r.single[c])
      BY <2>1, ReadingLocated
    <3> HIDE DEF r
    <3> QED
      BY <2>1, <3>1 DEF AllHeld, Held, Temp, Power
  <2>3. s \in Sources(r)
    BY <2>1
  <2> HIDE DEF r
  <2>4. CASE \E c \in Singles : s = <<c, r.single[c]>>
    BY <2>2, <2>4
  <2>5. CASE s \in {<<"gpu", r.gpu_temp>>, <<"gpu", r.gpu_power>>}
    BY <2>2, <2>5
  <2> QED
    BY <2>3, <2>4, <2>5 DEF Sources
<1> QED
  BY <1>1, ThermalAlways, PTL DEF Attributed, Spec

-----------------------------------------------------------------------------
\* Found is not inductive: what bounds the reads without a reading is that they
\* are no more than the reads since the walk while the cache is incomplete, and
\* that a complete cache has every reading.
CountInv ==
    /\ missed \in [Classes -> Nat]
    /\ \A c \in Classes : missed[c] < RESCAN_INTERVAL
    /\ sensors # None =>
          IF is_incomplete(sensors)
          THEN /\ reads_since_scan < RESCAN_INTERVAL
               /\ \A c \in Classes : missed[c] <= reads_since_scan
          ELSE \A c \in Classes : missed[c] = 0

LEMMA Apart == \A c \in Singles : c # "gpu" /\ c # "battery"
  BY ThermalAssumption

LEMMA SingleKind ==
    ASSUME NEW c \in Singles, NEW r
    PROVE  /\ Offered(c) <=> \E d \in Dirs : Is(d, c) /\ Temp(d)
           /\ Got(r, c) <=> r.single[c] # None
<1>1. c # "gpu" /\ c # "battery"
  BY Apart
<1>2. Offered(c) <=> \E d \in Dirs : Is(d, c) /\ Temp(d)
  BY <1>1 DEF Offered
<1>3. Got(r, c) <=> r.single[c] # None
  BY <1>1 DEF Got
<1> QED
  BY <1>2, <1>3

LEMMA GpuKind ==
    ASSUME NEW r
    PROVE  /\ Offered("gpu") <=> \E d \in Dirs : Is(d, "gpu") /\ Temp(d) /\ Power(d)
           /\ Got(r, "gpu") <=> r.gpu_temp # None /\ r.gpu_power # None
<1>1. "gpu" \notin Singles
  BY Apart
<1>2. Offered("gpu") <=> \E d \in Dirs : Is(d, "gpu") /\ Temp(d) /\ Power(d)
  BY <1>1 DEF Offered
<1>3. Got(r, "gpu") <=> r.gpu_temp # None /\ r.gpu_power # None
  BY <1>1 DEF Got
<1> QED
  BY <1>2, <1>3

LEMMA BatteryKind ==
    ASSUME NEW r
    PROVE  /\ Offered("battery") <=> (HasTemp \/ child # None)
           /\ Got(r, "battery") <=> (HasTemp \/ r.battery # None)
<1>1. "battery" \notin Singles
  BY Apart
<1>2. Offered("battery") <=> (HasTemp \/ child # None)
  BY <1>1 DEF Offered
<1>3. Got(r, "battery") <=> (HasTemp \/ r.battery # None)
  BY <1>1 DEF Got
<1> QED
  BY <1>2, <1>3

\* What a walk has just located reads: whatever is offered is got.
LEMMA ScanGets ==
    ASSUME child \in Children, NEW c \in Classes, Offered(c)
    PROVE  Got(Reading(scan), c)
<1> DEFINE s == scan
<1>1. WalkedTo(s, Directories)
  BY ScanWalks
<1> HIDE DEF s
<1>2. /\ \A k \in Singles : s.single[k] # None => Temp(s.single[k])
      /\ s.gpu_temp # None => Temp(s.gpu_temp)
      /\ s.gpu_power # None => Power(s.gpu_power)
      /\ s.battery = child
  BY <1>1 DEF WalkedTo
<1>3. /\ \A k \in Singles : Reading(s).single[k] = s.single[k]
      /\ Reading(s).gpu_temp = s.gpu_temp /\ Reading(s).gpu_power = s.gpu_power
      /\ Reading(s).battery = child
  BY <1>2 DEF Reading
<1>4. CASE c \in Singles
  <2>1. /\ \E d \in Dirs : Is(d, c) /\ Temp(d)
        /\ Got(Reading(s), c) <=> Reading(s).single[c] # None
    BY <1>4, SingleKind
  <2>2. s.single[c] # None
    BY <1>1, <1>4, <2>1 DEF WalkedTo, Dirs
  <2> QED
    BY <1>3, <1>4, <2>1, <2>2 DEF s
<1>5. CASE c = "gpu"
  <2>1. /\ \E d \in Dirs : Is(d, "gpu") /\ Temp(d) /\ Power(d)
        /\ Got(Reading(s), "gpu") <=>
              Reading(s).gpu_temp # None /\ Reading(s).gpu_power # None
    BY <1>5, GpuKind
  <2>2. s.gpu_temp # None /\ s.gpu_power # None
    BY <1>1, <2>1 DEF WalkedTo, Dirs
  <2> QED
    BY <1>3, <1>5, <2>1, <2>2 DEF s
<1>6. CASE c = "battery"
  <2>1. /\ HasTemp \/ child # None
        /\ Got(Reading(s), "battery") <=> (HasTemp \/ Reading(s).battery # None)
    BY <1>6, BatteryKind
  <2> QED
    BY <1>3, <1>6, <2>1 DEF s
<1> QED
  BY <1>4, <1>5, <1>6 DEF Classes

\* A complete cache that is not stale has every reading.
LEMMA CompleteGets ==
    ASSUME NEW s, ~ is_incomplete(s), Reading(s) = s, NEW c \in Classes
    PROVE  Got(Reading(s), c)
<1>1. /\ \A k \in Singles : s.single[k] # None
      /\ s.gpu_temp # None /\ s.gpu_power # None /\ s.battery # None
  BY DEF is_incomplete
<1>2. c \in Singles => Got(s, c)
  BY <1>1, SingleKind
<1>3. Got(s, "gpu") /\ Got(s, "battery")
  BY <1>1, GpuKind, BatteryKind
<1> QED
  BY <1>2, <1>3 DEF Classes

LEMMA CountBegins == ASSUME RESCAN_INTERVAL > 1, ThermalInit PROVE CountInv
  BY ThermalAssumption DEF ThermalInit, CountInv

LEMMA ReadCounts ==
    ASSUME RESCAN_INTERVAL > 1, ThermalInv, CountInv, ReadThermals
    PROVE  CountInv'
<1> DEFINE R == RESCAN_INTERVAL
           n == reads_since_scan
           Misses(c) == Offered(c) /\ ~ Got(Reading(Relied), c)
<1>1. R \in Nat /\ R > 1 /\ n \in Nat /\ n <= R
  BY ThermalAssumption DEF ThermalInv
<1>2. missed' = [c \in Classes |-> IF Misses(c) THEN Least(missed[c] + 1, R) ELSE 0]
  BY ReadRelies
<1>3. /\ n' = IF Rescans THEN 0 ELSE Least(n + 1, R)
      /\ sensors' = IF Stale(Relied) THEN None ELSE Relied
  BY ReadRelies
<1>4. \A c \in Classes : missed[c] \in Nat /\ missed[c] < R
  BY DEF CountInv
<1> HIDE DEF R, n, Misses
<1>5. missed' \in [Classes -> Nat] /\ \A c \in Classes : missed'[c] <= missed[c] + 1
  BY <1>1, <1>2, <1>4 DEF Least
<1>6. ASSUME \A c \in Classes : missed'[c] = 0, n' < R PROVE CountInv'
  <2>1. n' \in Nat
    BY <1>1, <1>3 DEF Least
  <2>2. \A c \in Classes : missed'[c] < R /\ missed'[c] <= n'
    BY <1>1, <1>6, <2>1
  <2> QED
    BY <1>5, <1>6, <2>2 DEF CountInv, R, n
<1>7. CASE Rescans
  <2>1. Relied = scan /\ child \in Children
    BY <1>7 DEF Relied, ThermalInv
  <2>2. \A c \in Classes : ~ Misses(c)
    BY <2>1, ScanGets DEF Misses
  <2> QED
    BY <1>1, <1>2, <1>3, <1>6, <1>7, <2>2
<1>8. CASE ~ Rescans /\ ~ is_incomplete(sensors)
  <2>1. Relied = sensors /\ sensors # None
    BY <1>8 DEF Relied, Rescans
  <2>2. \A c \in Classes : missed[c] = 0
    BY <1>8, <2>1 DEF CountInv
  <2>3. \A c \in Classes : missed'[c] <= 1 /\ missed'[c] \in Nat
    BY <1>5, <2>2
  <2>4. CASE Stale(Relied)
    BY <1>1, <1>3, <1>5, <2>3, <2>4 DEF CountInv, R
  <2>5. CASE ~ Stale(Relied)
    <3>1. Reading(sensors) = sensors
      BY <2>1, <2>5 DEF Stale
    <3>2. \A c \in Classes : ~ Misses(c)
      BY <1>8, <2>1, <3>1, CompleteGets DEF Misses
    <3>3. sensors' = sensors /\ \A c \in Classes : missed'[c] = 0
      BY <1>2, <1>3, <2>1, <2>5, <3>2
    <3> QED
      BY <1>1, <1>5, <1>8, <3>3 DEF CountInv, is_incomplete, R
  <2> QED
    BY <2>4, <2>5
<1>9. CASE ~ Rescans /\ is_incomplete(sensors)
  <2>1. Relied = sensors /\ sensors # None /\ ~ (Least(n + 1, R) >= R)
    BY <1>9 DEF Relied, Rescans, n, R
  <2>2. n + 1 < R /\ n' = n + 1
    BY <1>1, <1>3, <1>9, <2>1 DEF Least
  <2>3. \A c \in Classes : missed[c] <= n
    BY <1>9, <2>1 DEF CountInv, n
  <2>4. \A c \in Classes : missed'[c] \in Nat /\ missed'[c] <= n' /\ missed'[c] < R
    BY <1>1, <1>4, <1>5, <2>2, <2>3
  <2>5. sensors' # None => sensors' = sensors
    BY <1>3, <2>1
  <2> QED
    BY <1>1, <1>5, <1>9, <2>2, <2>4, <2>5 DEF CountInv, is_incomplete, R, n
<1> QED
  BY <1>7, <1>8, <1>9

\* read: for any directories, devices and interval of at least two reads, as
\* RESCAN_INTERVAL is, a reading that some device offers at every read is not
\* missed for an interval.
THEOREM FoundAlways ==
    ASSUME RESCAN_INTERVAL > 1
    PROVE  Spec => []Found
<1>1. Init => CountInv
  BY CountBegins DEF Init
<1>2. ThermalInv /\ CountInv /\ [ThermalStep]_thermalVars => CountInv'
  <2> SUFFICES ASSUME ThermalInv, CountInv, [ThermalStep]_thermalVars PROVE CountInv'
    OBVIOUS
  <2>1. CASE ReadThermals
    BY <2>1, ReadCounts
  <2>2. CASE UNCHANGED <<sensors, reads_since_scan, missed>>
    BY <2>2 DEF CountInv, is_incomplete
  <2> QED
    BY <2>1, <2>2 DEF ThermalStep, HwmonChanges, ChildChanges, thermalVars
<1>3. CountInv => Found
  BY DEF CountInv, Found
<1> QED
  BY <1>1, <1>2, <1>3, ThermalAlways, ThermalInTicks, PTL DEF Spec

-----------------------------------------------------------------------------
(***************************************************************************)
(* Sums.  SumFunction adds the values of a function one by one, in an      *)
(* order that is not specified; it exists and does not depend on it.       *)
(***************************************************************************)
First(s) == CHOOSE x \in s : TRUE

\* What g makes of s, given what it makes of a smaller set.
Adds(g, f, s) == IF s = {} THEN 0 ELSE f[First(s)] + g[s \ {First(s)}]

Sums(g, f) == g = [s \in SUBSET DOMAIN f |-> Adds(g, f, s)]

\* The sum of f over each part of its domain.
Part(f) == CHOOSE g : Sums(g, f)

\* A function to naturals of which there is a sum.
Summable(f) == f \in [DOMAIN f -> Nat] /\ IsFiniteSet(DOMAIN f)

LEMMA SumsExist ==
    ASSUME NEW f, IsFiniteSet(DOMAIN f)
    PROVE  Sums(Part(f), f)
<1> DEFINE D == DOMAIN f
           UpTo(g, n) == /\ g = [s \in SUBSET D |-> g[s]]
                         /\ \A s \in SUBSET D : Cardinality(s) <= n => g[s] = Adds(g, f, s)
           P == {n \in Nat : \E g : UpTo(g, n)}
<1>1. \A s \in SUBSET D : IsFiniteSet(s) /\ Cardinality(s) \in Nat
  BY FS_Subset, FS_CardinalityType
<1>2. \A s \in SUBSET D : s # {} =>
          /\ First(s) \in s /\ s \ {First(s)} \in SUBSET D
          /\ Cardinality(s \ {First(s)}) = Cardinality(s) - 1
  BY <1>1, FS_RemoveElement DEF First
<1> HIDE DEF D
<1>3. 0 \in P
  <2> DEFINE g == [s \in SUBSET D |-> 0]
  <2>1. \A s \in SUBSET D : Cardinality(s) <= 0 => s = {}
    BY <1>1, FS_EmptySet
  <2>2. UpTo(g, 0)
    BY <2>1 DEF Adds
  <2> HIDE DEF g
  <2> QED
    BY <2>2
<1>4. ASSUME NEW n \in Nat, n \in P PROVE n + 1 \in P
  <2>1. PICK g : UpTo(g, n)
    BY <1>4
  <2> DEFINE h == [s \in SUBSET D |-> IF Cardinality(s) = n + 1 THEN Adds(g, f, s) ELSE g[s]]
  <2>2. h = [s \in SUBSET D |-> h[s]]
    OBVIOUS
  <2>3. \A s \in SUBSET D : Cardinality(s) <= n => h[s] = g[s]
    BY <1>1
  <2>4. ASSUME NEW s \in SUBSET D, Cardinality(s) <= n + 1 PROVE h[s] = Adds(h, f, s)
    <3>1. s # {} => h[s \ {First(s)}] = g[s \ {First(s)}]
      <4> SUFFICES ASSUME s # {} PROVE h[s \ {First(s)}] = g[s \ {First(s)}]
        OBVIOUS
      <4> DEFINE t == s \ {First(s)}
      <4>1. t \in SUBSET D /\ Cardinality(t) = Cardinality(s) - 1 /\ Cardinality(s) \in Nat
        BY <1>1, <1>2
      <4> HIDE DEF t, h
      <4>2. Cardinality(t) <= n
        BY <2>4, <4>1
      <4> QED
        BY <2>3, <4>1, <4>2 DEF t
    <3>2. Adds(h, f, s) = Adds(g, f, s)
      BY <3>1 DEF Adds
    <3>3. CASE Cardinality(s) = n + 1
      BY <3>2, <3>3
    <3>4. CASE Cardinality(s) # n + 1
      <4>1. Cardinality(s) <= n
        BY <1>1, <2>4, <3>4
      <4> QED
        BY <2>1, <2>3, <3>2, <4>1
    <3> QED
      BY <3>3, <3>4
  <2> HIDE DEF h
  <2>5. UpTo(h, n + 1)
    BY <2>2, <2>4
  <2> HIDE DEF UpTo
  <2> QED
    BY <2>5
<1> HIDE DEF P
<1>5. Nat \subseteq P
  BY <1>3, <1>4, NaturalInduction
<1>6. D \in SUBSET D /\ \A s \in SUBSET D : Cardinality(s) <= Cardinality(D)
  BY FS_Subset DEF D
<1>7. PICK g : UpTo(g, Cardinality(D))
  BY <1>1, <1>5, <1>6 DEF P
<1>8. Sums(g, f)
  BY <1>6, <1>7 DEF Sums, D
<1> QED
  BY <1>8 DEF Part

\* In whatever order the members are taken.
LEMMA SumOfPart ==
    ASSUME NEW f, Summable(f), NEW A \in SUBSET DOMAIN f
    PROVE  /\ Part(f)[A] \in Nat
           /\ Part(f)[{}] = 0
           /\ \A x \in A : Part(f)[A] = f[x] + Part(f)[A \ {x}]
<1> DEFINE D == DOMAIN f
           g == Part(f)
           Good(s) == g[s] \in Nat /\ \A x \in s : g[s] = f[x] + g[s \ {x}]
           T == {s \in SUBSET D : ~ Good(s)}
<1>1. \A s \in SUBSET D : g[s] = Adds(g, f, s)
  BY SumsExist DEF Sums, Summable
<1>2. g[{}] = 0
  BY <1>1 DEF Adds
<1>3. \A s \in SUBSET D : s # {} => First(s) \in s /\ g[s] = f[First(s)] + g[s \ {First(s)}]
  BY <1>1 DEF Adds, First
<1>4. \A x \in D : f[x] \in Nat
  BY DEF Summable
<1> HIDE DEF g
<1>5. CASE T # {}
  <2>1. PICK s \in T : \A u \in T : u \subseteq s => u = s
    <3>1. \A s \in T : IsFiniteSet(s)
      BY FS_Subset DEF Summable
    <3> HIDE DEF T
    <3> QED
      BY <1>5, <3>1, MinimalSet
  <2>2. s \in SUBSET D /\ ~ Good(s) /\ s # {}
    <3>1. s \in SUBSET D /\ ~ Good(s)
      BY <2>1
    <3>2. Good({})
      BY <1>2
    <3> HIDE DEF Good
    <3> QED
      BY <3>1, <3>2
  <2>3. \A x \in s : Good(s \ {x})
    <3>1. \A x \in s : s \ {x} \in SUBSET D /\ s \ {x} \subseteq s /\ s \ {x} # s
      BY <2>2
    <3> QED
      BY <2>1, <3>1
  <2> DEFINE y == First(s)
  <2>4. y \in s /\ g[s] = f[y] + g[s \ {y}] /\ g[s \ {y}] \in Nat /\ g[s] \in Nat
    <3>1. y \in s /\ g[s] = f[y] + g[s \ {y}]
      BY <1>3, <2>2
    <3> HIDE DEF y
    <3>2. g[s \ {y}] \in Nat /\ f[y] \in Nat
      BY <1>4, <2>2, <2>3, <3>1
    <3> QED
      BY <3>1, <3>2
  <2> HIDE DEF y
  <2>5. ASSUME NEW x \in s PROVE g[s] = f[x] + g[s \ {x}]
    <3>1. CASE x = y
      BY <2>4, <3>1
    <3>2. CASE x # y
      <4> DEFINE rest == (s \ {y}) \ {x}
      <4>1. (s \ {x}) \ {y} = rest /\ x \in s \ {y} /\ y \in s \ {x}
        BY <2>4, <3>2
      <4>2. g[s \ {y}] = f[x] + g[rest] /\ g[s \ {x}] = f[y] + g[rest]
        <5>1. Good(s \ {y}) /\ Good(s \ {x})
          BY <2>3, <2>4
        <5> QED
          BY <4>1, <5>1
      <4>3. g[rest] \in Nat
        <5>1. rest \in SUBSET D /\ rest \subseteq s /\ rest # s
          BY <2>2, <4>1
        <5>2. Good(rest)
          BY <2>1, <5>1
        <5> QED
          BY <5>2
      <4>4. f[x] \in Nat /\ f[y] \in Nat
        BY <1>4, <2>2, <2>4
      <4> HIDE DEF rest
      <4> QED
        BY <2>4, <4>2, <4>3, <4>4
    <3> QED
      BY <3>1, <3>2
  <2> QED
    BY <2>2, <2>4, <2>5
<1>6. CASE T = {}
  <2>1. Good(A)
    BY <1>6
  <2> QED
    BY <1>2, <2>1 DEF g
<1> QED
  BY <1>5, <1>6

LEMMA SumIsPart == ASSUME NEW f PROVE SumFunction(f) = Part(f)[DOMAIN f]
  BY DEF SumFunction, SumFunctionOnSet, FoldFunctionOnSet, MapThenFoldSet, Part, Sums, Adds, First

LEMMA PartCompares ==
    ASSUME NEW f, Summable(f), NEW h, Summable(h), NEW A \in SUBSET DOMAIN f,
           \A x \in A : f[x] <= ItsTicks(h, x)
    PROVE  Part(f)[A] <= Part(h)[A \cap DOMAIN h]
<1> DEFINE E == DOMAIN h
           P == {B \in SUBSET A : Part(f)[B] <= Part(h)[B \cap E]}
<1>1. \A B \in SUBSET A : B \in SUBSET DOMAIN f /\ B \cap E \in SUBSET DOMAIN h
  OBVIOUS
<1>2. IsFiniteSet(A)
  BY FS_Subset DEF Summable
<1>3. {} \in P
  <2>1. Part(f)[{}] = 0 /\ Part(h)[{}] = 0
    BY SumOfPart
  <2>2. {} \cap E = {} /\ {} \in SUBSET A
    OBVIOUS
  <2> QED
    BY <2>1, <2>2
<1>4. ASSUME NEW B \in SUBSET A, NEW x \in A \ B, B \in P PROVE B \cup {x} \in P
  <2> DEFINE C == B \cup {x}
  <2>1. C \in SUBSET A /\ C \ {x} = B /\ x \in C
    BY <1>4
  <2>2. Part(f)[C] = f[x] + Part(f)[B] /\ Part(f)[B] \in Nat /\ f[x] \in Nat
    <3>1. Part(f)[C] = f[x] + Part(f)[C \ {x}]
      BY <1>1, <2>1, SumOfPart
    <3>2. Part(f)[B] \in Nat
      BY <1>1, SumOfPart
    <3>3. f[x] \in Nat
      BY DEF Summable
    <3> HIDE DEF C
    <3> QED
      BY <2>1, <3>1, <3>2, <3>3
  <2>3. Part(f)[B] <= Part(h)[B \cap E] /\ Part(h)[B \cap E] \in Nat
    BY <1>1, <1>4, SumOfPart
  <2>4. CASE x \in E
    <3>1. /\ (C \cap E) \ {x} = B \cap E /\ x \in C \cap E /\ C \cap E \in SUBSET DOMAIN h
      BY <1>4, <2>1, <2>4
    <3>2. Part(h)[C \cap E] = h[x] + Part(h)[(C \cap E) \ {x}]
      BY <3>1, SumOfPart
    <3>3. f[x] <= h[x] /\ h[x] \in Nat
      BY <2>4 DEF ItsTicks, Summable
    <3> HIDE DEF C, E
    <3>4. Part(f)[C] <= Part(h)[C \cap E]
      BY <2>2, <2>3, <3>1, <3>2, <3>3
    <3> QED
      BY <2>1, <3>4 DEF C
  <2>5. CASE x \notin E
    <3>1. C \cap E = B \cap E
      BY <2>5
    <3>2. f[x] <= 0
      BY <2>5 DEF ItsTicks
    <3> HIDE DEF C, E
    <3>3. Part(f)[C] <= Part(h)[C \cap E]
      BY <2>2, <2>3, <3>1, <3>2
    <3> QED
      BY <2>1, <3>3 DEF C
  <2> QED
    BY <2>4, <2>5
<1> HIDE DEF P
<1>5. SUBSET A \subseteq P
  BY <1>2, <1>3, <1>4, SubsetInduction
<1> QED
  BY <1>5 DEF P

LEMMA PartOfSum ==
    ASSUME NEW h, Summable(h), NEW B \in SUBSET DOMAIN h
    PROVE  Part(h)[B] <= Part(h)[DOMAIN h]
<1> DEFINE R == DOMAIN h \ B
           P == {C \in SUBSET R : Part(h)[B] <= Part(h)[B \cup C]}
<1>1. \A C \in SUBSET R : B \cup C \in SUBSET DOMAIN h
  OBVIOUS
<1>2. IsFiniteSet(R)
  BY FS_Subset DEF Summable
<1>3. {} \in P
  <2>1. B \cup {} = B /\ Part(h)[B] \in Nat
    BY SumOfPart
  <2> QED
    BY <2>1
<1>4. ASSUME NEW C \in SUBSET R, NEW x \in R \ C, C \in P PROVE C \cup {x} \in P
  <2> DEFINE U == B \cup C
             V == B \cup (C \cup {x})
  <2>1. V \ {x} = U /\ x \in V /\ V \in SUBSET DOMAIN h /\ U \in SUBSET DOMAIN h
    BY <1>4
  <2>2. Part(h)[V] = h[x] + Part(h)[V \ {x}] /\ Part(h)[U] \in Nat /\ Part(h)[B] \in Nat
    BY <2>1, SumOfPart
  <2>3. h[x] \in Nat /\ Part(h)[B] <= Part(h)[U]
    BY <1>4 DEF Summable
  <2> HIDE DEF U, V
  <2>4. Part(h)[B] <= Part(h)[V]
    BY <2>1, <2>2, <2>3
  <2> QED
    BY <2>4 DEF V
<1> HIDE DEF P, R
<1>5. SUBSET R \subseteq P
  BY <1>2, <1>3, <1>4, SubsetInduction
<1>6. R \in P /\ B \cup R = DOMAIN h
  BY <1>5 DEF R
<1> QED
  BY <1>6 DEF P

\* A function that is nowhere above another has no greater sum.
LEMMA SumCompares ==
    ASSUME NEW f, Summable(f), NEW h, Summable(h),
           \A x \in DOMAIN f : f[x] <= ItsTicks(h, x)
    PROVE  SumFunction(f) <= SumFunction(h) /\ SumFunction(f) \in Nat /\ SumFunction(h) \in Nat
<1> DEFINE A == DOMAIN f
           B == DOMAIN f \cap DOMAIN h
           x == Part(f)[A]
           y == Part(h)[B]
           z == Part(h)[DOMAIN h]
<1>1. A \in SUBSET DOMAIN f /\ B \in SUBSET DOMAIN h /\ DOMAIN h \in SUBSET DOMAIN h
  OBVIOUS
<1>2. x <= y
  BY <1>1, PartCompares
<1>3. y <= z
  BY <1>1, PartOfSum
<1>4. x \in Nat /\ y \in Nat /\ z \in Nat
  BY <1>1, SumOfPart
<1>5. SumFunction(f) = x /\ SumFunction(h) = z
  BY SumIsPart
<1> HIDE DEF x, y, z
<1> QED
  BY <1>2, <1>3, <1>4, <1>5

\* One more in one place is one more in the sum.
LEMMA SumCounts ==
    ASSUME NEW f, Summable(f), NEW p \in DOMAIN f
    PROVE  LET g == [f EXCEPT ![p] = @ + 1]
           IN  Summable(g) /\ SumFunction(g) <= SumFunction(f) + 1
<1> DEFINE g == [f EXCEPT ![p] = @ + 1]
           D == DOMAIN f
           R == D \ {p}
<1>1. /\ DOMAIN g = D /\ g[p] = f[p] + 1 /\ f[p] \in Nat
      /\ Summable(g) /\ \A x \in R : g[x] = f[x] /\ f[x] \in Nat
  BY DEF Summable
<1>2. R \in SUBSET DOMAIN g /\ R \in SUBSET DOMAIN f /\ D \in SUBSET DOMAIN g /\ R \cap DOMAIN f = R
      /\ D \in SUBSET DOMAIN f /\ p \in D
  BY <1>1
<1> HIDE DEF g
<1>3. \A x \in R : g[x] <= ItsTicks(f, x)
  BY <1>1 DEF ItsTicks
<1>4. Part(g)[R] <= Part(f)[R \cap DOMAIN f]
  BY <1>1, <1>2, <1>3, PartCompares
<1>5. /\ Part(g)[D] = g[p] + Part(g)[D \ {p}] /\ Part(f)[D] = f[p] + Part(f)[D \ {p}]
      /\ Part(g)[R] \in Nat /\ Part(f)[R] \in Nat
  <2>1. Part(g)[D] = g[p] + Part(g)[D \ {p}]
    BY <1>1, <1>2, SumOfPart
  <2>2. Part(f)[D] = f[p] + Part(f)[D \ {p}]
    BY <1>2, SumOfPart
  <2>3. Part(g)[R] \in Nat
    BY <1>1, <1>2, SumOfPart
  <2>4. Part(f)[R] \in Nat
    BY <1>2, SumOfPart
  <2> QED
    BY <2>1, <2>2, <2>3, <2>4
<1>6. SumFunction(g) = Part(g)[D] /\ SumFunction(f) = Part(f)[D]
  BY <1>1, SumIsPart
<1>7. Part(g)[R] <= Part(f)[R] /\ D \ {p} = R
  BY <1>2, <1>4
<1> DEFINE x == Part(g)[R]
           y == Part(f)[R]
<1>8. /\ x \in Nat /\ y \in Nat /\ x <= y
      /\ SumFunction(g) = (f[p] + 1) + x /\ SumFunction(f) = f[p] + y
  BY <1>1, <1>5, <1>6, <1>7
<1> HIDE DEF x, y
<1>9. SumFunction(g) <= SumFunction(f) + 1
  BY <1>1, <1>8
<1> QED
  BY <1>1, <1>9 DEF g

-----------------------------------------------------------------------------
(***************************************************************************)
(* What the shares are measured against.  Together the listed processes    *)
(* have had no more since the listing than the machine has: the total that *)
(* was kept and what ran before the listing make up for the rest.          *)
(***************************************************************************)
AccountInv ==
    /\ total \in Nat /\ total <= MaxTicks
    /\ stat # Unread => stat \in Nat /\ previous_total_ticks <= stat /\ stat <= total
    /\ previous_total_ticks \in 0 .. total /\ elapsed \in 0 .. total /\ skew \in 0 .. total
    /\ DOMAIN work \subseteq Pids /\ IsFiniteSet(DOMAIN work)
    /\ DOMAIN previous \subseteq Pids /\ IsFiniteSet(DOMAIN previous)
    /\ ~ unlisted => SumFunction(did) + previous_total_ticks + skew <= total

LEMMA NobodySums == Summable(Nobody) /\ SumFunction(Nobody) = 0
<1>1. DOMAIN Nobody = {} /\ Summable(Nobody)
  BY FS_EmptySet DEF Nobody, Summable
<1>2. Part(Nobody)[{}] = 0
  BY <1>1, SumOfPart
<1> QED
  BY <1>1, <1>2, SumIsPart

\* What each process has done sums up to a number of ticks.
LEMMA DidSums ==
    ASSUME ProcessInv, AccountInv
    PROVE  Summable(did) /\ SumFunction(did) \in Nat
<1>1. Summable(did)
  BY DEF ProcessInv, AccountInv, Summable
<1>2. SumFunction(Nobody) <= SumFunction(did)
  BY <1>1, NobodySums, SumCompares DEF Nobody
<1>3. SumFunction(did) \in Nat
  BY <1>1, NobodySums, SumCompares DEF Nobody
<1> QED
  BY <1>1, <1>3

LEMMA AccountBegins == ProcessInit => AccountInv
  BY NobodySums, ProcessesAssumption, FS_EmptySet DEF ProcessInit, AccountInv, Nobody

LEMMA ListAccounts ==
    ASSUME ProcessInv, AccountInv, List
    PROVE  /\ AccountInv'
           /\ unlisted \/ SumFunction(rows') <= elapsed' + skew'
<1>1. PICK listed \in SUBSET DOMAIN work :
          /\ previous' = [p \in listed |-> work[p]]
          /\ elapsed' = Saturating(stat - previous_total_ticks)
          /\ rows' = [p \in IF elapsed' = 0 THEN {} ELSE listed |-> Delta(p)]
          /\ did' = [p \in listed |-> 0]
          /\ skew' = total - stat /\ unlisted' = FALSE
  BY DEF List, Swap, Restrict
<1>2. /\ stat \in Nat /\ previous_total_ticks \in Nat /\ total \in Nat
      /\ previous_total_ticks <= stat /\ stat <= total /\ previous_total_ticks' = stat
      /\ stat' = Unread /\ UNCHANGED <<total, work>>
  BY DEF List, AccountInv
<1>3. elapsed' = stat - previous_total_ticks
  BY <1>1, <1>2 DEF Saturating
<1>4. listed \subseteq Pids /\ IsFiniteSet(listed)
  BY FS_Subset DEF AccountInv
<1>5. Summable(did') /\ SumFunction(did') = 0
  <2>1. Summable(did')
    BY <1>1, <1>4 DEF Summable
  <2>2. \A p \in DOMAIN did' : did'[p] <= ItsTicks(Nobody, p)
    BY <1>1 DEF ItsTicks, Nobody
  <2> DEFINE f == did'
  <2> HIDE DEF f
  <2>3. SumFunction(f) <= SumFunction(Nobody) /\ SumFunction(f) \in Nat
    BY <2>1, <2>2, NobodySums, SumCompares DEF f
  <2>4. SumFunction(f) = 0
    BY <2>3, NobodySums
  <2> QED
    BY <2>1, <2>4 DEF f
<1>6. AccountInv'
  <2>1. previous_total_ticks' \in 0 .. total' /\ elapsed' \in 0 .. total' /\ skew' \in 0 .. total'
    BY <1>1, <1>2, <1>3
  <2>2. SumFunction(did') + previous_total_ticks' + skew' <= total'
    BY <1>1, <1>2, <1>5
  <2>3. DOMAIN previous' \subseteq Pids /\ IsFiniteSet(DOMAIN previous')
    BY <1>1, <1>4
  <2> QED
    BY <1>2, <2>1, <2>2, <2>3 DEF AccountInv
<1>7. ASSUME ~ unlisted PROVE SumFunction(rows') <= elapsed' + skew'
  <2> DEFINE f == rows'
  <2>1. DOMAIN f \subseteq listed /\ \A p \in DOMAIN f : p \in DOMAIN work /\ f[p] = Delta(p)
    BY <1>1
  <2>2. \A p \in DOMAIN f : f[p] \in Nat /\ f[p] <= ItsTicks(did, p)
    <3>1. \A p \in DOMAIN work : Delta(p) \in Nat
      BY DEF ProcessInv, Delta, Saturating
    <3> HIDE DEF f
    <3> QED
      BY <2>1, <3>1, CreditBounded
  <2>3. f = [p \in DOMAIN f |-> f[p]] /\ IsFiniteSet(DOMAIN f)
    BY <1>1, <1>4, <2>1, FS_Subset
  <2> HIDE DEF f
  <2>4. Summable(f)
    BY <2>2, <2>3 DEF Summable
  <2>5. SumFunction(f) <= SumFunction(did) /\ SumFunction(f) \in Nat
    BY <2>2, <2>4, DidSums, SumCompares
  <2>6. SumFunction(did) + previous_total_ticks + skew <= total /\ skew \in Nat
    BY <1>7 DEF AccountInv
  <2>7. SumFunction(f) <= elapsed' + skew'
    BY <1>1, <1>2, <1>3, <2>5, <2>6, DidSums
  <2> QED
    BY <2>7 DEF f
<1> QED
  BY <1>6, <1>7

LEMMA AccountStep == ProcessInv /\ AccountInv /\ [ProcessNext]_processVars => AccountInv'
<1> SUFFICES ASSUME ProcessInv, AccountInv, [ProcessNext]_processVars
             PROVE  AccountInv'
  OBVIOUS
<1>1. CASE List
  BY <1>1, ListAccounts
<1>2. CASE UNCHANGED processVars
  BY <1>2 DEF processVars, AccountInv
<1>3. ASSUME NEW statReads \in BOOLEAN, NEW meminfoReads \in BOOLEAN,
             ReadStat(statReads, meminfoReads)
      PROVE  AccountInv'
  <2>1. /\ stat' \in {total, Unread} /\ elapsed' = 0
        /\ UNCHANGED <<total, work, previous, previous_total_ticks, did, skew, unlisted>>
    BY <1>3 DEF ReadStat
  <2> QED
    BY <2>1 DEF AccountInv
<1>4. CASE ListFails
  BY <1>4 DEF ListFails, AccountInv
<1>5. CASE Idle
  <2>1. /\ total' = total + 1 /\ total < MaxTicks
        /\ UNCHANGED <<work, stat, previous, previous_total_ticks, elapsed, did, skew, unlisted>>
    BY <1>5 DEF Idle
  <2>2. total' \in Nat /\ total' <= MaxTicks
    BY <2>1, ProcessesAssumption DEF AccountInv
  <2>3. ~ unlisted => SumFunction(did) + previous_total_ticks + skew <= total'
    BY <2>1, DidSums DEF AccountInv
  <2> QED
    BY <2>1, <2>2, <2>3 DEF AccountInv
<1>6. ASSUME NEW p \in Pids, Work(p) PROVE AccountInv'
  <2>1. /\ total' = total + 1 /\ total < MaxTicks /\ work' = [work EXCEPT ![p] = @ + 1]
        /\ did' = IF p \in DOMAIN did THEN [did EXCEPT ![p] = @ + 1] ELSE did
        /\ UNCHANGED <<stat, previous, previous_total_ticks, elapsed, skew, unlisted>>
    BY <1>6 DEF Work
  <2>2. total' \in Nat /\ total' <= MaxTicks /\ DOMAIN work' = DOMAIN work
    BY <2>1, ProcessesAssumption DEF AccountInv
  <2>3. SumFunction(did') <= SumFunction(did) + 1 /\ SumFunction(did') \in Nat
    <3>1. CASE p \in DOMAIN did
      <4> DEFINE f == [did EXCEPT ![p] = @ + 1]
      <4>1. Summable(f) /\ SumFunction(f) <= SumFunction(did) + 1
        BY <3>1, DidSums, SumCounts
      <4> HIDE DEF f
      <4>2. \A x \in DOMAIN Nobody : Nobody[x] <= ItsTicks(f, x)
        BY DEF Nobody
      <4>3. SumFunction(f) \in Nat
        BY <4>1, <4>2, NobodySums, SumCompares
      <4> QED
        BY <2>1, <3>1, <4>1, <4>3 DEF f
    <3>2. CASE p \notin DOMAIN did
      BY <2>1, <3>2, DidSums
    <3> QED
      BY <3>1, <3>2
  <2>4. ~ unlisted => SumFunction(did') + previous_total_ticks + skew <= total'
    BY <2>1, <2>3, DidSums DEF AccountInv
  <2> QED
    BY <2>1, <2>2, <2>4 DEF AccountInv
<1>7. ASSUME NEW p \in Pids, Ends(p) \/ Starts(p) PROVE AccountInv'
  <2>1. UNCHANGED <<total, stat, previous, previous_total_ticks, elapsed, did, skew, unlisted>>
    BY <1>7 DEF Ends, Starts
  <2>2. CASE Ends(p)
    <3>1. DOMAIN work' = DOMAIN work \ {p}
      BY <2>2 DEF Ends, Restrict
    <3>2. DOMAIN work' \subseteq DOMAIN work
      BY <3>1
    <3>3. IsFiniteSet(DOMAIN work')
      BY <3>2, FS_Subset DEF AccountInv
    <3> QED
      BY <2>1, <3>2, <3>3 DEF AccountInv
  <2>3. CASE Starts(p)
    <3>1. DOMAIN work' = DOMAIN work \cup {p}
      BY <2>3 DEF Starts
    <3> DEFINE D == DOMAIN work
    <3> HIDE DEF D
    <3>2. IsFiniteSet(D \cup {p})
      BY FS_AddElement DEF AccountInv, D
    <3> QED
      BY <2>1, <3>1, <3>2 DEF AccountInv, D
  <2> QED
    BY <1>7, <2>2, <2>3
<1> QED
  BY <1>1, <1>2, <1>3, <1>4, <1>5, <1>6, <1>7 DEF ProcessNext, MachineStep

THEOREM AccountAlways == ProcessSpec => []AccountInv
  BY AccountBegins, AccountStep, ProcessAlways, PTL DEF ProcessSpec

\* read: whatever ran, started, ended or was not read, the processes of a
\* snapshot are given no more than the interval had and what ran between its two
\* reads, unless the listing before it failed.
THEOREM SharesWithinTotal == Spec => SharesFit
<1>1. ProcessInv /\ AccountInv /\ [ProcessNext]_processVars =>
          [Listing => unlisted \/ SumFunction(rows') <= elapsed' + skew']_processVars
  <2> SUFFICES ASSUME ProcessInv, AccountInv, ProcessNext, Listing
               PROVE  unlisted \/ SumFunction(rows') <= elapsed' + skew'
    OBVIOUS
  <2>1. stat # Unread /\ stat' = Unread
    BY DEF Listing
  <2>2. List \/ ListFails
    BY <2>1 DEF ProcessNext, MachineStep, Idle, Work, Ends, Starts
  <2>3. CASE List
    BY <2>3, ListAccounts
  <2>4. CASE ListFails
    <3>1. rows' = rows /\ UNCHANGED <<elapsed, skew>> /\ DOMAIN rows = {}
      BY <2>1, <2>4 DEF ListFails, ProcessInv
    <3> DEFINE f == rows
    <3> HIDE DEF f
    <3>2. Part(f)[{}] = 0
      <4>1. IsFiniteSet(DOMAIN f) /\ {} \in SUBSET DOMAIN f
        BY <3>1, FS_EmptySet DEF f
      <4>2. Part(f)[{}] = Adds(Part(f), f, {})
        BY <4>1, SumsExist DEF Sums
      <4> QED
        BY <4>2 DEF Adds
    <3>3. SumFunction(f) = 0
      BY <3>1, <3>2, SumIsPart DEF f
    <3> QED
      BY <3>1, <3>3 DEF f, AccountInv
  <2> QED
    BY <2>2, <2>3, <2>4
<1> QED
  BY <1>1, ProcessAlways, AccountAlways, TicksOfProcesses, PTL DEF SharesFit, ProcessSpec

-----------------------------------------------------------------------------
(***************************************************************************)
(* Discovery.  A set of names has one increasing listing of its size, and  *)
(* the least place in it is the least name.                                *)
(***************************************************************************)
Increasing(s) == \A i, j \in DOMAIN s : i < j => s[i] < s[j]

Ascending(s, T) ==
    s \in [1 .. Cardinality(T) -> T] /\ Range(s) = T /\ Increasing(s)

LEMMA AscendingGrows ==
    ASSUME NEW T, T \subseteq Nat, IsFiniteSet(T), NEW x \in T, \A y \in T : y <= x,
           NEW r, Ascending(r, T \ {x})
    PROVE  \E s : Ascending(s, T)
<1> DEFINE n == Cardinality(T)
           s == [i \in 1 .. n |-> IF i = n THEN x ELSE r[i]]
<1>1. n \in Nat /\ n # 0 /\ Cardinality(T \ {x}) = n - 1
  BY FS_CardinalityType, FS_RemoveElement, FS_EmptySet
<1>2. r \in [1 .. n - 1 -> T \ {x}] /\ {r[i] : i \in 1 .. n - 1} = T \ {x} /\ DOMAIN r = 1 .. n - 1
  BY <1>1 DEF Ascending, Range
<1>3. \A i, j \in 1 .. n - 1 : i < j => r[i] < r[j]
  BY <1>2 DEF Ascending, Increasing
<1> HIDE DEF n
<1>4. DOMAIN s = 1 .. n /\ s[n] = x /\ \A i \in 1 .. n - 1 : i \in 1 .. n /\ i # n /\ s[i] = r[i]
  BY <1>1
<1>5. \A i \in 1 .. n : i = n \/ i \in 1 .. n - 1
  BY <1>1
<1>6. s \in [1 .. n -> T]
  BY <1>2, <1>5
<1> HIDE DEF s
<1>7. Range(s) = T
  <2>1. ASSUME NEW y \in T PROVE y \in Range(s)
    <3>1. CASE y = x
      <4>1. n \in DOMAIN s /\ s[n] = x
        BY <1>1, <1>4
      <4> QED
        BY <3>1, <4>1 DEF Range
    <3>2. CASE y # x
      <4>1. PICK i \in 1 .. n - 1 : r[i] = y
        BY <1>2, <3>2
      <4> QED
        BY <1>4, <4>1 DEF Range
    <3> QED
      BY <3>1, <3>2
  <2> QED
    BY <1>4, <1>6, <2>1 DEF Range
<1>8. Increasing(s)
  <2> SUFFICES ASSUME NEW i \in 1 .. n, NEW j \in 1 .. n, i < j PROVE s[i] < s[j]
    BY <1>4 DEF Increasing
  <2>1. i \in 1 .. n - 1
    BY <1>1
  <2>2. CASE j = n
    <3>1. r[i] \in T \ {x} /\ s[i] = r[i] /\ s[j] = x
      BY <1>2, <1>4, <2>1, <2>2
    <3>2. r[i] <= x /\ r[i] # x /\ r[i] \in Nat /\ x \in Nat
      BY <3>1
    <3> QED
      BY <3>1, <3>2
  <2>3. CASE j \in 1 .. n - 1
    BY <1>3, <1>4, <2>1, <2>3
  <2> QED
    BY <1>5, <2>2, <2>3
<1> QED
  BY <1>6, <1>7, <1>8 DEF Ascending, n

LEMMA AscendingExists ==
    ASSUME NEW T, T \subseteq Nat, IsFiniteSet(T)
    PROVE  \E s : Ascending(s, T)
<1> DEFINE P == {n \in Nat : \A A \in SUBSET T : Cardinality(A) = n => \E s : Ascending(s, A)}
<1>1. \A A \in SUBSET T : IsFiniteSet(A) /\ Cardinality(A) \in Nat /\ A \subseteq Nat
  BY FS_Subset, FS_CardinalityType
<1>2. 0 \in P
  <2> SUFFICES ASSUME NEW A \in SUBSET T, Cardinality(A) = 0 PROVE \E s : Ascending(s, A)
    OBVIOUS
  <2> DEFINE s == [i \in 1 .. 0 |-> 0]
  <2>1. A = {} /\ Cardinality(A) = 0
    BY <1>1, FS_EmptySet
  <2>2. Ascending(s, A)
    BY <2>1 DEF Ascending, Range, Increasing
  <2> QED
    BY <2>2
<1>3. ASSUME NEW n \in Nat, n \in P PROVE n + 1 \in P
  <2> SUFFICES ASSUME NEW A \in SUBSET T, Cardinality(A) = n + 1 PROVE \E s : Ascending(s, A)
    OBVIOUS
  <2>1. A # {}
    BY FS_EmptySet
  <2>2. A \subseteq Int
    BY <1>1
  <2>3. PICK x \in A : \A y \in A : y <= x
    BY <1>1, <2>1, <2>2, Greatest
  <2>4. Cardinality(A \ {x}) = n /\ A \ {x} \in SUBSET T
    BY <1>1, FS_RemoveElement
  <2>5. PICK r : Ascending(r, A \ {x})
    BY <1>3, <2>4
  <2>6. IsFiniteSet(A) /\ A \subseteq Nat
    BY <1>1
  <2> HIDE DEF P
  <2> QED
    BY <2>3, <2>5, <2>6, AscendingGrows
<1> HIDE DEF P
<1>4. Nat \subseteq P
  BY <1>2, <1>3, NaturalInduction
<1>5. Cardinality(T) \in P /\ T \in SUBSET T
  BY <1>1, <1>4
<1> QED
  BY <1>5 DEF P

\* Whatever the listing, what is sorted has each name once, in order.
LEMMA SortedListing ==
    ASSUME NEW listing \in Listings, IsFiniteSet(Listed)
    PROVE  Ascending(Sorted(listing), Listed)
<1> DEFINE D == 1 .. Cardinality(Listed)
           Ok(s) == /\ s \in [DOMAIN listing -> Range(listing)] /\ Range(s) = Range(listing)
                    /\ \A i, j \in DOMAIN s : i < j => s[i] < s[j]
<1>1. DOMAIN listing = D /\ Range(listing) = Listed
  BY DEF Listings
<1>2. Listed \subseteq Nat
  BY DiscoveryAssumption DEF Listed
<1>3. PICK s : Ascending(s, Listed)
  BY <1>2, AscendingExists
<1>4. \A t : Ok(t) <=> Ascending(t, Listed)
  BY <1>1 DEF Ascending, Increasing
<1>5. Sorted(listing) = CHOOSE t : Ok(t)
  BY DEF Sorted
<1> HIDE DEF Ok
<1>6. Ok(Sorted(listing))
  BY <1>3, <1>4, <1>5
<1> QED
  BY <1>4, <1>6

LEMMA MinIsLeast ==
    ASSUME NEW T, T \subseteq Nat, T # {}
    PROVE  Min(T) \in T /\ \A y \in T : Min(T) <= y
BY LeastNatural DEF Min

\* The first of some places in what is sorted has the least of their names.
LEMMA FirstIsLeast ==
    ASSUME NEW s, NEW T, T \subseteq Nat, Ascending(s, T), NEW A \in SUBSET T, A # {}
    PROVE  s[Min({i \in DOMAIN s : s[i] \in A})] = Min(A)
<1> DEFINE places == {i \in DOMAIN s : s[i] \in A}
           m == Min(places)
<1>1. /\ DOMAIN s = 1 .. Cardinality(T) /\ Range(s) = T
      /\ \A i, j \in DOMAIN s : i < j => s[i] < s[j]
  BY DEF Ascending, Increasing
<1>2. places # {} /\ places \subseteq Nat
  <2>1. PICK y \in A : y \in Range(s)
    BY <1>1
  <2>2. PICK i \in DOMAIN s : s[i] = y
    BY <2>1 DEF Range
  <2> QED
    BY <1>1, <2>1, <2>2
<1> HIDE DEF places
<1>3. m \in places /\ \A i \in places : m <= i
  BY <1>2, MinIsLeast
<1> HIDE DEF m
<1>4. m \in DOMAIN s /\ s[m] \in A
  BY <1>3 DEF places
<1>5. ASSUME NEW y \in A PROVE s[m] <= y
  <2>1. PICK i \in DOMAIN s : s[i] = y
    BY <1>1 DEF Range
  <2>2. m <= i /\ m \in Nat /\ i \in Nat
    BY <1>2, <1>3, <2>1 DEF places
  <2>3. m = i \/ s[m] < s[i]
    BY <1>1, <1>4, <2>2
  <2>4. s[m] \in Nat /\ y \in Nat
    BY <1>4
  <2> QED
    BY <2>1, <2>3, <2>4
<1>6. A \subseteq Nat
  OBVIOUS
<1>7. Min(A) \in A /\ Min(A) <= s[m] /\ s[m] <= Min(A)
  BY <1>4, <1>5, <1>6, MinIsLeast
<1>8. Min(A) \in Nat /\ s[m] \in Nat
  BY <1>4, <1>6, <1>7
<1>9. s[m] = Min(A)
  BY <1>7, <1>8
<1> QED
  BY <1>9 DEF m, places

\* What is taken for the battery, whatever the listing.
LEMMA DiscoveredIs ==
    ASSUME NEW listing \in Listings, IsFiniteSet(Listed), supplies \in [Names -> Kinds]
    PROVE  LET systems == {n \in Names : supplies[n] = "system"}
               named == systems \cap BatNames
               batteries == {n \in Names : supplies[n] \in {"system", "device"}}
           IN  discover_battery_path(listing) =
                   IF named # {} THEN Min(named)
                   ELSE IF systems # {} THEN Min(systems)
                   ELSE IF batteries # {} THEN Min(batteries) ELSE FALLBACK_BATTERY
<1> DEFINE systems == {n \in Names : supplies[n] = "system"}
           named == systems \cap BatNames
           batteries == {n \in Names : supplies[n] \in {"system", "device"}}
           s == Sorted(listing)
           PlacesIn(A) == {i \in DOMAIN s : s[i] \in A}
<1>1. /\ named \subseteq systems /\ systems \subseteq batteries
      /\ batteries \subseteq Listed /\ Listed \subseteq Nat
  BY DiscoveryAssumption DEF Listed
<1>2. Ascending(s, Listed)
  BY SortedListing
<1>3. \A i \in DOMAIN s : s[i] \in Names
  BY <1>2 DEF Ascending, Listed
<1> HIDE DEF s
<1>4. Candidates(s) = PlacesIn(batteries)
  BY <1>3 DEF Candidates
<1>5. {i \in Candidates(s) : is_system(s[i])} = PlacesIn(systems)
  BY <1>3, <1>4 DEF is_system
<1>6. {i \in {k \in Candidates(s) : is_system(s[k])} : is_bat_name(s[i])} = PlacesIn(named)
  BY <1>5 DEF is_bat_name
<1>7. Preferred(s) = IF PlacesIn(named) # {} THEN PlacesIn(named)
                     ELSE IF PlacesIn(systems) # {} THEN PlacesIn(systems) ELSE PlacesIn(batteries)
  BY <1>4, <1>5, <1>6 DEF Preferred
<1>8. discover_battery_path(listing) =
          IF PlacesIn(batteries) = {} THEN FALLBACK_BATTERY ELSE s[Min(Preferred(s))]
  BY <1>4 DEF discover_battery_path, s
<1> HIDE DEF systems, named, batteries
<1>9. ASSUME NEW A \in SUBSET Listed
      PROVE  (PlacesIn(A) = {} <=> A = {}) /\ (A # {} => s[Min(PlacesIn(A))] = Min(A))
  <2>1. A # {} => s[Min(PlacesIn(A))] = Min(A)
    BY <1>1, <1>2, FirstIsLeast
  <2>2. PlacesIn(A) = {} <=> A = {}
    BY <1>2 DEF Ascending, Range
  <2> QED
    BY <2>1, <2>2
<1> HIDE DEF PlacesIn
<1>10. /\ (PlacesIn(named) = {} <=> named = {}) /\ (named # {} => s[Min(PlacesIn(named))] = Min(named))
       /\ (PlacesIn(systems) = {} <=> systems = {})
       /\ (systems # {} => s[Min(PlacesIn(systems))] = Min(systems))
       /\ (PlacesIn(batteries) = {} <=> batteries = {})
       /\ (batteries # {} => s[Min(PlacesIn(batteries))] = Min(batteries))
  BY <1>1, <1>9
<1>11. named # {} => systems # {}
  BY <1>1
<1>12. systems # {} => batteries # {}
  BY <1>1
<1>13. discover_battery_path(listing) =
           IF named # {} THEN Min(named)
           ELSE IF systems # {} THEN Min(systems)
           ELSE IF batteries # {} THEN Min(batteries) ELSE FALLBACK_BATTERY
  BY <1>7, <1>8, <1>10, <1>11, <1>12
<1> QED
  BY <1>13 DEF systems, named, batteries

\* A directory lists finitely many names, and the battery is one or none of them.
DiscoveryInv ==
    /\ supplies \in [Names -> Kinds] /\ IsFiniteSet(Listed)
    /\ battery \in Names \cup {FALLBACK_BATTERY}

DiscoveryStep == Discover \/ \E n \in Names : SupplyChanges(n)

LEMMA DiscoveryBegins == DiscoveryInit => DiscoveryInv
  BY FS_EmptySet DEF DiscoveryInit, DiscoveryInv, Listed, Kinds

LEMMA DiscoverTakes ==
    ASSUME DiscoveryInv, Discover
    PROVE  LET systems == {n \in Names : supplies[n] = "system"}
               named == systems \cap BatNames
           IN  /\ systems # {} => battery' = Min(IF named # {} THEN named ELSE systems)
               /\ battery' \in Names \cup {FALLBACK_BATTERY}
<1> DEFINE systems == {n \in Names : supplies[n] = "system"}
           named == systems \cap BatNames
           batteries == {n \in Names : supplies[n] \in {"system", "device"}}
<1>1. PICK listing \in Listings : battery' = discover_battery_path(listing)
  BY DEF Discover
<1>2. battery' = IF named # {} THEN Min(named)
                 ELSE IF systems # {} THEN Min(systems)
                 ELSE IF batteries # {} THEN Min(batteries) ELSE FALLBACK_BATTERY
  BY <1>1, DiscoveredIs DEF DiscoveryInv
<1>3. \A A \in SUBSET Names : A # {} => Min(A) \in A
  <2>1. \A A \in SUBSET Names : A \subseteq Nat
    BY DiscoveryAssumption
  <2> QED
    BY <2>1, MinIsLeast
<1>4. named \in SUBSET Names /\ systems \in SUBSET Names /\ batteries \in SUBSET Names
      /\ (named # {} => systems # {})
  OBVIOUS
<1> HIDE DEF systems, named, batteries
<1>5. battery' \in Names \cup {FALLBACK_BATTERY}
  BY <1>2, <1>3, <1>4
<1>6. systems # {} => battery' = Min(IF named # {} THEN named ELSE systems)
  BY <1>2, <1>4
<1> QED
  BY <1>5, <1>6 DEF systems, named

LEMMA DiscoveryKeeps == DiscoveryInv /\ [DiscoveryStep]_discoveryVars => DiscoveryInv'
<1> SUFFICES ASSUME DiscoveryInv, [DiscoveryStep]_discoveryVars
             PROVE  DiscoveryInv'
  OBVIOUS
<1>1. CASE Discover
  <2>1. battery' \in Names \cup {FALLBACK_BATTERY}
    BY <1>1, DiscoverTakes
  <2>2. supplies' = supplies /\ Listed' = Listed
    BY <1>1 DEF Discover, Listed
  <2> QED
    BY <2>1, <2>2 DEF DiscoveryInv
<1>2. ASSUME NEW n \in Names, SupplyChanges(n) PROVE DiscoveryInv'
  <2>1. PICK kind \in Kinds : supplies' = [supplies EXCEPT ![n] = kind] /\ battery' = battery
    BY <1>2 DEF SupplyChanges
  <2>2. supplies' \in [Names -> Kinds] /\ Listed' \subseteq Listed \cup {n}
    BY <2>1 DEF DiscoveryInv, Listed
  <2> DEFINE L == Listed
             M == Listed'
  <2>3. IsFiniteSet(L)
    BY DEF DiscoveryInv
  <2>4. M \subseteq L \cup {n}
    BY <2>2
  <2> HIDE DEF L, M
  <2>5. IsFiniteSet(M)
    BY <2>3, <2>4, FS_AddElement, FS_Subset
  <2> QED
    BY <2>1, <2>2, <2>5 DEF DiscoveryInv, M
<1>3. CASE UNCHANGED discoveryVars
  BY <1>3 DEF discoveryVars, DiscoveryInv, Listed
<1> QED
  BY <1>1, <1>2, <1>3 DEF DiscoveryStep

LEMMA DiscoveryInTicks == [Next]_vars => [DiscoveryStep]_discoveryVars
<1> SUFFICES ASSUME Next PROVE [DiscoveryStep]_discoveryVars
  BY DEF vars
<1>1. CASE Sample \/ NoSample \/ TopProcesses
  BY <1>1 DEF Sample, NoSample, TopProcesses
<1>2. CASE Machine
  BY <1>2 DEF Machine, DiscoveryStep
<1> QED
  BY <1>1, <1>2 DEF Next

THEOREM DiscoveryAlways == Spec => []DiscoveryInv
<1>1. Init => DiscoveryInv
  BY DiscoveryBegins DEF Init
<1> QED
  BY <1>1, DiscoveryKeeps, DiscoveryInTicks, PTL DEF Spec

\* discover_battery_path: for any names, in whatever order they are listed, no
\* peripheral is taken for the battery while the machine's own is there.
THEOREM SystemBatteryFirst == Spec => SystemFirst
<1>1. DiscoveryInv /\ [Next]_vars =>
          [Discover =>
              LET systems == {n \in Names : supplies[n] = "system"}
                  named == systems \cap BatNames
              IN  systems # {} => battery' = Min(IF named # {} THEN named ELSE systems)
          ]_discoveryVars
  BY DiscoverTakes
<1> QED
  BY <1>1, DiscoveryAlways, PTL DEF SystemFirst, Spec

-----------------------------------------------------------------------------
(***************************************************************************)
(* The types of all the readers together.                                  *)
(***************************************************************************)
SeatInv == seated \in Seatable \cup {Absent} /\ varying \in Parts

LEMMA SeatAlways == Spec => []SeatInv
<1>1. Init => SeatInv
  BY DEF Init, EstimateInit, SeatInv
<1>2. SeatInv /\ [Next]_vars => SeatInv'
  <2> SUFFICES ASSUME SeatInv, [Next]_vars PROVE SeatInv'
    OBVIOUS
  <2>1. seated' \in Seatable \cup {Absent}
    <3>1. [RefreshEstimates \/ InvalidateEstimates \/ HardwareStep]_estimateVars
      BY EstimatesInTicks
    <3> QED
      BY <3>1 DEF SeatInv, RefreshEstimates, InvalidateEstimates, HardwareStep, Pull, Seat,
                  Attributes, estimateVars
  <2>2. varying' = varying
    BY DEF vars, Next, Sample, NoSample, TopProcesses, Machine
  <2> QED
    BY <2>1, <2>2 DEF SeatInv
<1> QED
  BY <1>1, <1>2, PTL DEF Spec

\* Between two steps of a tick each reader is where its code leaves it: the
\* counters within their bounds, the totals in order, the names real ones.
THEOREM TelemetryTypes == Spec => []TypeOK
<1>1. ThermalInv /\ ProcessInv /\ AccountInv /\ EstimateInv /\ DiscoveryInv /\ SeatInv => TypeOK
  <2> SUFFICES ASSUME ThermalInv, ProcessInv, AccountInv, EstimateInv, DiscoveryInv, SeatInv
               PROVE  TypeOK
    OBVIOUS
  <2>1. /\ \A d \in Dirs : hwmon[d] \in Devices
        /\ reads_since_scan \in 0 .. RESCAN_INTERVAL
        /\ sensors = None \/ sensors.battery \in {None, 1, 2}
    BY DEF ThermalInv, Located, Children
  <2>2. /\ stat \in {Unread} \cup 0 .. MaxTicks /\ DOMAIN previous \subseteq Pids
        /\ previous_total_ticks \in 0 .. total /\ elapsed \in 0 .. total /\ skew \in 0 .. total
    <3>1. stat # Unread => stat \in Nat /\ stat <= total /\ total <= MaxTicks /\ total \in Nat
      BY DEF AccountInv
    <3> QED
      BY <3>1, ProcessesAssumption DEF AccountInv
  <2>3. /\ seated \in Seatable \cup {Absent} /\ varying \in Parts
        /\ poll = Absent \/ poll.age \in 0 .. ESTIMATE_TTL - 1
    BY EstimatesAssumption DEF EstimateInv, SeatInv
  <2>4. battery \in Names \cup {FALLBACK_BATTERY}
    BY DEF DiscoveryInv
  <2> QED
    BY <2>1, <2>2, <2>3, <2>4 DEF TypeOK
<1>2. Spec => []ProcessInv /\ []AccountInv
  BY TicksOfProcesses, ProcessAlways, AccountAlways, PTL
<1> QED
  BY <1>1, <1>2, ThermalAlways, EstimatesAlways, DiscoveryAlways, SeatAlways, PTL
=============================================================================

--------------------------- MODULE ServiceProofs ---------------------------
(***************************************************************************)
(* What the deadline loop and the notifier keep, for every interval, every *)
(* cost of a tick, every oversleep and any number of families and bubbles. *)
(***************************************************************************)
EXTENDS Service, Induction, FiniteSetTheorems, TLAPS

-----------------------------------------------------------------------------
(***************************************************************************)
(* The loop.  The tick before the last began long enough ago for the       *)
(* deadline that is left (prior + slack); a resynchronisation leaves the   *)
(* loop without slack, and only ever happens when that is a whole interval *)
(* already.                                                                *)
(***************************************************************************)
\* An age has reached the cap, or makes up for what the slack is short of.
Covered(age) == age = Interval \/ age + slack >= 0

LoopInv ==
    /\ slack \in Int /\ behind \in Int /\ last \in 0 .. Interval /\ prior \in 0 .. Interval
    /\ behind + slack = 0
    /\ pc \in {"down", "loop", "tick", "deliver", "asleep", "flush"}
    /\ calling # None => pc = "deliver"
    /\ pc = "down" => slack = 0 /\ last = Interval /\ prior = Interval
    /\ pc = "loop" => behind \in Oversleeps /\ Covered(last) /\ prior = Interval
    /\ pc \in {"tick", "deliver"} => Covered(prior)
    /\ pc = "asleep" => slack >= 0 /\ prior + slack >= Interval

\* Time that passes is taken from the slack and added to the ages.
LEMMA PassesCovers ==
    ASSUME LoopInv, NEW d \in Nat, Passes(d)
    PROVE  /\ slack' \in Int /\ behind' \in Int
           /\ last' \in 0 .. Interval /\ prior' \in 0 .. Interval
           /\ slack' = slack - d /\ behind' + slack' = 0
           /\ last' = Interval \/ last' = last + d
           /\ prior' = Interval \/ prior' = prior + d
<1>1. Interval \in Nat
  BY IntervalAssumption
<1>2. slack \in Int /\ behind \in Int /\ last \in 0 .. Interval /\ prior \in 0 .. Interval
      /\ behind + slack = 0
  BY DEF LoopInv
<1> QED
  BY <1>1, <1>2 DEF Passes, Capped

LEMMA LoopInit == Init => LoopInv
<1> SUFFICES ASSUME Init PROVE LoopInv
  OBVIOUS
<1>1. slack = 0 /\ behind = 0 /\ last = Interval /\ prior = Interval /\ pc = "down" /\ calling = None
  BY DEF Init
<1> QED
  BY <1>1, IntervalAssumption DEF LoopInv

LEMMA LoopStep == LoopInv /\ [Next]_vars => LoopInv'
<1> SUFFICES ASSUME LoopInv, [Next]_vars
             PROVE  LoopInv'
  OBVIOUS
<1> USE IntervalAssumption, TimeAssumption
<1>1. CASE UNCHANGED <<pc, slack, behind, last, prior, calling>>
  BY <1>1 DEF LoopInv, Covered
<1>2. CASE Launch
  <2>1. slack = 0 /\ last = Interval /\ prior = Interval /\ behind = 0
    BY <1>2 DEF Launch, LoopInv
  <2>2. pc' = "loop" /\ UNCHANGED <<slack, behind, last, prior, calling>>
    BY <1>2 DEF Launch, clock
  <2>3. calling' = None
    BY <1>2, <2>2 DEF Launch, LoopInv
  <2> QED
    BY <2>1, <2>2, <2>3 DEF LoopInv, Covered
<1>3. CASE Down
  <2>1. /\ slack' = 0 /\ behind' = 0 /\ last' = Interval /\ prior' = Interval /\ pc' = "down"
        /\ calling' = None
    BY <1>3 DEF Down
  <2> QED
    BY <2>1 DEF LoopInv
<1>4. CASE Begin
  BY <1>4 DEF Begin, LoopInv, Covered
<1>5. CASE Finish
  BY <1>5 DEF Finish, LoopInv, Covered, clock
<1>6. CASE Sample
  <2>1. PICK d \in Costs : Passes(d)
    BY <1>6 DEF Sample
  <2>2. pc = "tick" /\ pc' = "deliver"
    BY <1>6 DEF Sample
  <2> QED
    BY <2>1, <2>2, PassesCovers DEF LoopInv, Covered
<1>7. CASE Pace
  <2>1. CASE slack + Interval >= 0
    BY <1>7, <2>1 DEF Pace, Delivered, LoopInv, Covered
  <2>2. CASE ~ (slack + Interval >= 0)
    BY <1>7, <2>2 DEF Pace, Delivered, LoopInv, Covered
  <2> QED
    BY <2>1, <2>2
<1>8. CASE Wake
  <2>1. PICK o \in Oversleeps : Passes(slack + o)
    BY <1>8 DEF Wake
  <2>2. pc = "asleep" /\ pc' = "loop"
    BY <1>8 DEF Wake
  <2>3. slack + o \in Nat
    BY <2>2 DEF LoopInv
  <2>4. /\ slack \in Int /\ o \in Int /\ prior \in Int /\ last \in Int
        /\ prior + slack >= Interval /\ slack >= 0 /\ last >= 0 /\ o >= 0
    BY <2>2, <2>3 DEF LoopInv
  <2>5. /\ slack' = slack - (slack + o) /\ behind' + slack' = 0
        /\ slack' \in Int /\ behind' \in Int
        /\ prior' = Interval \/ prior' = prior + (slack + o)
        /\ prior' \in 0 .. Interval
    BY <2>1, <2>3, PassesCovers
  <2>9. slack' = 0 - o
    BY <2>4, <2>5
  <2>10. behind' = o
    <3>1. ASSUME NEW x \in Int, NEW y \in Int, NEW z \in Int, y = 0 - z, x + y = 0
          PROVE  x = z
      BY <3>1
    <3> QED
      BY <2>4, <2>5, <2>9, <3>1
  <2>11. prior' = Interval
    BY <2>4, <2>5
  <2>6. Covered(last)'
    BY <2>1, <2>2, <2>3, PassesCovers DEF LoopInv, Covered
  <2>7. calling' = None
    BY <1>8, <2>2 DEF Wake, LoopInv
  <2>8. /\ slack' \in Int /\ behind' \in Int /\ behind' + slack' = 0
        /\ last' \in 0 .. Interval /\ prior' \in 0 .. Interval
    BY <2>1, <2>3, PassesCovers
  <2> QED
    BY <2>2, <2>6, <2>7, <2>8, <2>10, <2>11 DEF LoopInv
<1>9. CASE Answered
  <2>1. PICK d \in Costs : Passes(d)
    BY <1>9 DEF Answered
  <2>2. pc = "deliver" /\ pc' = "deliver"
    BY <1>9 DEF Answered, LoopInv
  <2>3. d \in Nat
    OBVIOUS
  <2> QED
    BY <2>1, <2>2, <2>3, PassesCovers DEF LoopInv, Covered
<1>10. CASE Failed \/ \E f \in Families : Deliver(f)
  <2>1. UNCHANGED <<slack, behind, last, prior, pc>> /\ (calling' # None => pc' = "deliver")
    BY <1>10 DEF Failed, Deliver, clock
  <2> QED
    BY <2>1 DEF LoopInv, Covered
<1> QED
  BY <1>1, <1>2, <1>3, <1>4, <1>5, <1>6, <1>7, <1>8, <1>9, <1>10
     DEF Next, Thread, Environment, Watch, Kill, Flush, Signal, BusComes, BusGoes, DesktopStarts,
         DesktopStops, DesktopHangs, DesktopRecovers, OtherBubble, Close, daemon, clock, vars

THEOREM LoopAlways == Spec => []LoopInv
  BY LoopInit, LoopStep, PTL DEF Spec

\* At most two ticks of Daemon::run begin within an interval.
THEOREM TicksSpread == Spec => NoBurst
<1>1. LoopInv => [pc = "loop" /\ pc' = "tick" => prior >= Interval]_vars
  BY IntervalAssumption DEF LoopInv
<1> QED
  BY <1>1, LoopAlways, PTL DEF NoBurst

\* Between resynchronisations no tick of Daemon::run is later than its sleep.
THEOREM CadenceHeld == Spec => []Cadence
<1>1. LoopInv => Cadence
  BY DEF LoopInv, Cadence
<1> QED
  BY <1>1, LoopAlways, PTL

-----------------------------------------------------------------------------
(***************************************************************************)
(* The bubbles.  A family's bubble is the one its entry names; until a     *)
(* server is started behind the entries, an entry names a bubble of the    *)
(* family's, or one that was closed, and never one yet to be given out.    *)
(***************************************************************************)
BubbleTypes ==
    /\ bubbles \in [Ids -> Families \cup {None, "other"}]
    /\ replacements \in [Families -> 0 .. MaxBubbles]
    /\ nextId \in 1 .. MaxBubbles + 1
    /\ calling \in Families \cup {None}
    /\ mixedUp \in BOOLEAN

Named == \A id \in Ids, f \in Families : bubbles[id] = f => replacements[f] = id
Unused == \A id \in Ids : id >= nextId => bubbles[id] = None

Kept ==
    ~ mixedUp /\ desktop # "absent" =>
        \A f \in Families : replacements[f] # NO_REPLACEMENT =>
            replacements[f] < nextId /\ bubbles[replacements[f]] \in {f, None}

BubbleInv == BubbleTypes /\ Named /\ Unused /\ Kept

LEMMA BubbleInit == Init => BubbleInv
<1> SUFFICES ASSUME Init PROVE BubbleInv
  OBVIOUS
<1>1. /\ bubbles = [id \in Ids |-> None] /\ replacements = [f \in Families |-> 0]
      /\ nextId = 1 /\ calling = None /\ mixedUp = FALSE
  BY DEF Init, NoBubbles, NO_REPLACEMENT
<1>2. BubbleTypes
  <2>1. MaxBubbles \in Nat
    BY DesktopAssumption
  <2>2. bubbles \in [Ids -> Families \cup {None, "other"}]
    BY <1>1
  <2>3. replacements \in [Families -> 0 .. MaxBubbles] /\ nextId \in 1 .. MaxBubbles + 1
    BY <1>1, <2>1
  <2> QED
    BY <1>1, <2>2, <2>3 DEF BubbleTypes
<1>3. Named
  BY <1>1, DesktopAssumption DEF Named
<1>4. Unused /\ Kept
  BY <1>1 DEF Unused, Kept, NO_REPLACEMENT
<1> QED
  BY <1>2, <1>3, <1>4 DEF BubbleInv

\* The answer of a server, whichever identifier it gives.
LEMMA AnsweredKeeps ==
    ASSUME BubbleInv, Answered
    PROVE  /\ BubbleInv'
           /\ \A id \in Ids, f \in Families :
                 bubbles[id] # f /\ bubbles'[id] = f => bubbles[id] = None \/ mixedUp
<1> USE DesktopAssumption
<1>1. PICK id \in Answers(previous(calling)) :
            /\ record(calling, id)
            /\ bubbles' = [b \in Ids |-> IF b = id THEN calling ELSE bubbles[b]]
            /\ nextId' = IF id = nextId THEN nextId + 1 ELSE nextId
  BY DEF Answered
<1>2. /\ calling \in Families /\ calling' = None /\ UNCHANGED <<desktop, mixedUp>>
      /\ desktop # "absent"
  BY DEF Answered, BubbleInv, BubbleTypes
<1>3. replacements' = [replacements EXCEPT ![calling] = id]
  BY <1>1 DEF record
<1> DEFINE r == replacements[calling]
<1>4. /\ r \in 0 .. MaxBubbles /\ nextId \in 1 .. MaxBubbles + 1
      /\ bubbles \in [Ids -> Families \cup {None, "other"}]
      /\ replacements \in [Families -> 0 .. MaxBubbles]
  BY <1>2 DEF BubbleInv, BubbleTypes
<1>5. \/ id = r /\ r # 0 /\ r \in Ids /\ bubbles[r] # None
      \/ (r = 0 \/ bubbles[r] = None) /\ (id = 0 \/ (id = nextId /\ nextId \in Ids))
  <2>1. CASE r # 0 /\ bubbles[r] # None
    <3>1. id = r
      BY <1>1, <2>1 DEF Answers, previous, NO_REPLACEMENT
    <3> QED
      BY <1>4, <2>1, <3>1 DEF Ids
  <2>2. CASE ~ (r # 0 /\ bubbles[r] # None)
    <3>1. id \in {0} \cup (IF nextId \in Ids THEN {nextId} ELSE {})
      BY <1>1, <2>2 DEF Answers, previous, NO_REPLACEMENT
    <3>2. id = 0 \/ (id = nextId /\ nextId \in Ids)
      BY <3>1
    <3>3. r = 0 \/ bubbles[r] = None
      BY <2>2
    <3> QED
      BY <3>2, <3>3
  <2> QED
    BY <2>1, <2>2
<1>6. id \in 0 .. MaxBubbles /\ nextId' \in 1 .. MaxBubbles + 1
  BY <1>1, <1>4, <1>5 DEF Ids
<1>7. BubbleTypes'
  BY <1>1, <1>2, <1>3, <1>4, <1>6 DEF BubbleTypes, BubbleInv
\* No other bubble is the family's.
<1>8. \A b \in Ids : bubbles[b] = calling => b = id
  BY <1>2, <1>4, <1>5 DEF BubbleInv, Named, Ids
<1>9. Named'
  BY <1>1, <1>2, <1>3, <1>4, <1>8 DEF BubbleInv, Named
<1>10. id = nextId => id \in Ids
  BY <1>4, <1>5, <1>6 DEF Ids
<1>11. Unused'
  BY <1>1, <1>4, <1>5, <1>6 DEF BubbleInv, Unused, Ids
<1>12. Kept'
  <2> SUFFICES ASSUME ~ mixedUp, NEW f \in Families, replacements'[f] # 0
               PROVE  replacements'[f] < nextId' /\ bubbles'[replacements'[f]] \in {f, None}
    BY <1>2 DEF Kept, NO_REPLACEMENT
  <2>1. \A g \in Families : replacements[g] # 0 =>
            replacements[g] < nextId /\ bubbles[replacements[g]] \in {g, None}
    BY <1>2 DEF BubbleInv, Kept, NO_REPLACEMENT
  <2>2. CASE f = calling
    BY <1>1, <1>2, <1>3, <1>4, <1>5, <1>6, <2>1, <2>2 DEF Ids
  <2>3. CASE f # calling
    <3>1. replacements'[f] = replacements[f] /\ replacements[f] # 0 /\ replacements[f] \in Ids
      BY <1>2, <1>3, <1>4, <2>3 DEF Ids
    <3>2. replacements[f] < nextId /\ bubbles[replacements[f]] \in {f, None}
      BY <2>1, <3>1
    <3>3. replacements[f] # id
      BY <1>2, <1>4, <1>5, <2>1, <2>3, <3>1, <3>2 DEF Ids
    <3> QED
      BY <1>1, <1>4, <1>6, <3>1, <3>2, <3>3 DEF Ids
  <2> QED
    BY <2>2, <2>3
<1>13. ASSUME NEW b \in Ids, NEW f \in Families, bubbles[b] # f, bubbles'[b] = f
       PROVE  bubbles[b] = None \/ mixedUp
  <2>1. b = id /\ f = calling
    BY <1>1, <1>13
  <2>2. CASE id = r /\ r # 0
    BY <1>2, <1>4, <1>13, <2>1, <2>2 DEF BubbleInv, Kept, NO_REPLACEMENT
  <2>3. CASE id = nextId
    BY <1>4, <1>13, <2>1, <2>3 DEF BubbleInv, Unused, Ids
  <2> QED
    BY <1>5, <2>1, <2>2, <2>3 DEF Ids
<1> QED
  BY <1>7, <1>9, <1>11, <1>12, <1>13 DEF BubbleInv

LEMMA BubbleStep ==
    ASSUME BubbleInv, [Next]_vars
    PROVE  /\ BubbleInv'
           /\ \A id \in Ids, f \in Families :
                 bubbles[id] # f /\ bubbles'[id] = f => bubbles[id] = None \/ mixedUp
<1> USE DesktopAssumption DEF BubbleInv, BubbleTypes
<1>1. CASE Answered
  BY <1>1, AnsweredKeeps
<1>2. CASE Down
  <2>1. /\ bubbles' = [id \in Ids |-> IF bubbles[id] = None THEN None ELSE "other"]
        /\ replacements' = [f \in Families |-> 0] /\ calling' = None /\ mixedUp' = FALSE
        /\ UNCHANGED <<desktop, nextId>>
    BY <1>2 DEF Down, NO_REPLACEMENT
  <2>2. \A id \in Ids : bubbles'[id] \notin Families
    BY <2>1
  <2>3. BubbleTypes'
    <3>1. MaxBubbles \in Nat /\ nextId' \in 1 .. MaxBubbles + 1
      BY <2>1
    <3>2. bubbles' \in [Ids -> Families \cup {None, "other"}]
      BY <2>1
    <3>3. replacements' \in [Families -> 0 .. MaxBubbles]
      BY <2>1, <3>1
    <3> QED
      BY <2>1, <3>1, <3>2, <3>3 DEF BubbleTypes
  <2>4. Named' /\ Unused' /\ Kept'
    BY <2>1, <2>2 DEF Named, Unused, Kept, NO_REPLACEMENT
  <2> QED
    BY <2>2, <2>3, <2>4
<1>3. CASE BusGoes \/ DesktopStops
  <2>1. /\ bubbles' = [id \in Ids |-> None] /\ nextId' = 1 /\ desktop' = "absent"
        /\ UNCHANGED <<replacements, calling, mixedUp>>
    BY <1>3 DEF BusGoes, DesktopStops, NoBubbles, daemon
  <2> QED
    BY <2>1 DEF Named, Unused, Kept
<1>4. CASE DesktopStarts
  <2>1. /\ UNCHANGED <<bubbles, nextId, replacements, calling>>
        /\ mixedUp' = (mixedUp \/ \E f \in Families : replacements[f] # NO_REPLACEMENT)
    BY <1>4 DEF DesktopStarts, daemon
  <2> QED
    BY <2>1 DEF Named, Unused, Kept
<1>5. CASE OtherBubble
  <2>1. /\ bubbles' = [bubbles EXCEPT ![nextId] = "other"] /\ nextId' = nextId + 1
        /\ nextId \in Ids /\ UNCHANGED <<replacements, calling, desktop, mixedUp>>
    BY <1>5 DEF OtherBubble, daemon
  <2> QED
    BY <2>1 DEF Named, Unused, Kept, Ids, NO_REPLACEMENT
<1>6. ASSUME NEW id \in Ids, Close(id) PROVE BubbleInv' /\ \A b \in Ids, f \in Families :
                 bubbles[b] # f /\ bubbles'[b] = f => bubbles[b] = None \/ mixedUp
  <2>1. /\ bubbles' = [bubbles EXCEPT ![id] = None]
        /\ UNCHANGED <<replacements, calling, desktop, mixedUp, nextId>>
    BY <1>6 DEF Close, daemon
  <2> QED
    BY <2>1 DEF Named, Unused, Kept, Ids, NO_REPLACEMENT
<1>7. CASE DesktopHangs \/ DesktopRecovers
  <2>1. /\ UNCHANGED <<bubbles, replacements, calling, mixedUp, nextId>>
        /\ desktop # "absent"
    BY <1>7 DEF DesktopHangs, DesktopRecovers, daemon
  <2> QED
    BY <2>1 DEF Named, Unused, Kept
<1>8. CASE /\ UNCHANGED <<bubbles, replacements, desktop, mixedUp, nextId>>
           /\ calling' \in Families \cup {None}
  BY <1>8 DEF Named, Unused, Kept
<1>9. ASSUME NEW f \in Families, Deliver(f)
      PROVE  /\ UNCHANGED <<bubbles, replacements, desktop, mixedUp, nextId>>
             /\ calling' \in Families \cup {None}
  BY <1>9 DEF Deliver, session
<1> QED
  BY <1>1, <1>2, <1>3, <1>4, <1>5, <1>6, <1>7, <1>8, <1>9
     DEF Next, Thread, Environment, Watch, Kill, Flush, Signal, Launch, Begin, Finish, Sample, Pace,
         Wake, Failed, BusComes, daemon, session, notifier, vars

THEOREM BubblesAlways == Spec => []BubbleInv
  BY BubbleInit, BubbleStep, PTL DEF Spec

\* However many families, bubbles and restarts: no family has two bubbles up.
THEOREM BubblesReplaced == Spec => []OneBubblePerFamily
<1>1. BubbleInv => OneBubblePerFamily
  <2> SUFFICES ASSUME BubbleInv, NEW f \in Families
               PROVE  Cardinality({id \in Ids : bubbles[id] = f}) <= 1
    BY DEF OneBubblePerFamily
  <2>1. {id \in Ids : bubbles[id] = f} \subseteq {replacements[f]}
    BY DEF BubbleInv, Named
  <2>2. IsFiniteSet({replacements[f]}) /\ Cardinality({replacements[f]}) = 1
    BY FS_Singleton
  <2> QED
    BY <2>1, <2>2, FS_Subset, FS_CardinalityType
<1> QED
  BY <1>1, BubblesAlways, PTL

\* deliver and record replace no bubble but the family's own, while no server
\* was restarted behind the entries.
THEOREM BubblesOwn == Spec => OwnBubble
<1>1. BubbleInv /\ [Next]_vars =>
          [\A id \in Ids, f \in Families :
              bubbles[id] # f /\ bubbles'[id] = f => bubbles[id] = None \/ mixedUp]_vars
  BY BubbleStep
<1> QED
  BY <1>1, BubblesAlways, PTL DEF OwnBubble, Spec

-----------------------------------------------------------------------------
(***************************************************************************)
(* How far the deadline falls behind.  TypeOK is not inductive: what       *)
(* bounds the slack is that a tick begins no later than a sleep overran,   *)
(* and that each alert of a tick is answered once.                         *)
(***************************************************************************)
\* There are longest sleeps, slowest answers and a number of families.
Bounded == IsFiniteSet(Costs) /\ IsFiniteSet(Oversleeps) /\ IsFiniteSet(Families)

\* The alerts of this tick that have been dealt with.
Dealt == (Families \ pending) \ {calling}

LateInv ==
    /\ pending \subseteq Families /\ calling \notin pending
    /\ slack <= Interval
    /\ pc \in {"down", "loop", "tick", "flush"} => slack <= 0 /\ slack + Longest >= 0
    /\ pc = "deliver" =>
          slack <= 0 /\ slack + Longest + Slowest * (1 + Cardinality(Dealt)) >= 0
    /\ running \in BOOLEAN /\ signalled \in BOOLEAN
    /\ server \in {"none", "live", "dead"} /\ sinceAttempt \in 0 .. Reconnect
    /\ bus \in BOOLEAN /\ desktop \in {"absent", "answers", "hung"}

LEMMA Bounds ==
    ASSUME Bounded
    PROVE  /\ Longest \in Nat /\ \A o \in Oversleeps : o \in Nat /\ o <= Longest
           /\ Slowest \in Nat /\ \A d \in Costs : d \in Nat /\ d <= Slowest
<1>1. ASSUME NEW T, T \subseteq Nat, T # {}, IsFiniteSet(T)
      PROVE  Max(T) \in Nat /\ \A x \in T : x <= Max(T)
  <2>1. \E x \in T : \A y \in T : y <= x
    <3>1. T \subseteq Int
      BY <1>1
    <3> QED
      BY <1>1, <3>1, Greatest
  <2>2. \A x, y \in T : x >= y <=> y <= x
    BY <1>1
  <2> QED
    BY <1>1, <2>1, <2>2 DEF Max
<1>2. Costs \subseteq Nat /\ Costs # {} /\ Oversleeps \subseteq Nat /\ Oversleeps # {}
  BY TimeAssumption
<1>3. Longest \in Nat /\ \A o \in Oversleeps : o <= Longest
  BY <1>1, <1>2 DEF Bounded, Longest
<1>4. Slowest \in Nat /\ \A d \in Costs : d <= Slowest
  BY <1>1, <1>2 DEF Bounded, Slowest
<1> QED
  BY <1>2, <1>3, <1>4

LEMMA DealtBounds ==
    ASSUME Bounded
    PROVE  /\ IsFiniteSet(Dealt) /\ Cardinality(Dealt) \in Nat
           /\ Cardinality(Families) \in Nat /\ Cardinality(Dealt) <= Cardinality(Families)
<1>1. Dealt \subseteq Families
  BY DEF Dealt
<1> QED
  BY <1>1, FS_Subset, FS_CardinalityType DEF Bounded

\* The time that n more answers take at most.
LEMMA OneAnswer == ASSUME NEW s \in Nat, NEW n \in Nat PROVE s * (1 + (n + 1)) = s * (1 + n) + s
  OBVIOUS

LEMMA MoreAnswers ==
    ASSUME NEW s \in Nat, NEW n \in Nat, NEW m \in Nat, n <= m
    PROVE  /\ s * (1 + n) <= s * (1 + m) /\ s <= s * (1 + n)
           /\ s * (1 + n) \in Nat /\ s * (1 + m) \in Nat
<1> DEFINE k == m - n
<1>1. k \in Nat /\ 1 + m = (1 + n) + k
  OBVIOUS
<1>2. s * ((1 + n) + k) = s * (1 + n) + s * k /\ s * k \in Nat /\ s * (1 + n) \in Nat
  BY <1>1
<1>3. s * (1 + n) = s + s * n /\ s * n \in Nat
  OBVIOUS
<1> QED
  BY <1>1, <1>2, <1>3

LEMMA LateInit == ASSUME Bounded, Init PROVE LateInv
<1>1. Longest \in Nat /\ Interval \in Nat /\ 0 \in 0 .. Reconnect
  BY Bounds, IntervalAssumption, TimeAssumption
<1>2. /\ pc = "down" /\ slack = 0 /\ pending = {} /\ calling \notin pending /\ sinceAttempt = 0
      /\ running = FALSE /\ signalled = FALSE /\ server = "none" /\ bus \in BOOLEAN
      /\ desktop = "absent"
  BY DEF Init
<1>3. slack <= Interval /\ slack <= 0 /\ slack + Longest >= 0
  BY <1>1, <1>2
<1> QED
  BY <1>1, <1>2, <1>3 DEF LateInv

\* A sleep or an answer adds no more to the lateness than it took.
LEMMA PassesLate ==
    ASSUME LoopInv, NEW d \in Nat, Passes(d), sinceAttempt \in 0 .. Reconnect
    PROVE  slack' = slack - d /\ slack' \in Int /\ sinceAttempt' \in 0 .. Reconnect
  BY TimeAssumption DEF LoopInv, Passes, Capped

\* What does not touch the loop, or starts it anew, keeps the bound.
LEMMA LateElsewhere ==
    ASSUME Bounded, LoopInv, LateInv,
           \/ UNCHANGED <<pc, running, signalled, slack, pending, calling, sinceAttempt>>
           \/ Launch \/ Down \/ Signal \/ Watch \/ Begin \/ Finish,
           server' \in {"none", "live", "dead"}, bus' \in BOOLEAN,
           desktop' \in {"absent", "answers", "hung"}
    PROVE  LateInv'
<1> USE DEF LateInv, clock, Dealt
<1>1. CASE UNCHANGED <<pc, running, signalled, slack, pending, calling, sinceAttempt>>
  BY <1>1
<1>2. CASE Launch \/ Signal \/ Watch
  BY <1>2 DEF Launch, Signal, Watch
<1>3. CASE Down
  <2>1. /\ pc' = "down" /\ running' = FALSE /\ signalled' = FALSE /\ slack' = 0
        /\ pending' = {} /\ calling' = None /\ sinceAttempt' = 0
    BY <1>3 DEF Down
  <2>2. Longest \in Nat /\ Interval \in Nat /\ 0 \in 0 .. Reconnect
    BY Bounds, IntervalAssumption, TimeAssumption
  <2>3. slack' <= Interval /\ slack' <= 0 /\ slack' + Longest >= 0
    BY <2>1, <2>2
  <2> QED
    BY <2>1, <2>2, <2>3 DEF Longest
<1>4. CASE Begin
  BY <1>4 DEF Begin
<1>5. CASE Finish
  BY <1>5 DEF Finish
<1> QED
  BY <1>1, <1>2, <1>3, <1>4, <1>5

LEMMA LateStep ==
    ASSUME Bounded, LoopInv, LoopInv', BubbleInv, LateInv, [Next]_vars
    PROVE  LateInv'
<1> DEFINE L == Longest
           S == Slowest
           n == Cardinality(Dealt)
<1>1. /\ L \in Nat /\ \A o \in Oversleeps : o \in Nat /\ o <= L
      /\ S \in Nat /\ \A d \in Costs : d \in Nat /\ d <= S
      /\ n \in Nat /\ Interval \in Nat
  BY Bounds, DealtBounds, IntervalAssumption
<1>2. slack \in Int /\ slack' \in Int /\ slack <= Interval
  BY DEF LoopInv, LateInv
<1>3. /\ server \in {"none", "live", "dead"} /\ sinceAttempt \in 0 .. Reconnect
      /\ bus \in BOOLEAN /\ desktop \in {"absent", "answers", "hung"}
      /\ running \in BOOLEAN /\ signalled \in BOOLEAN
      /\ pending \subseteq Families /\ calling \notin pending
  BY DEF LateInv
<1> HIDE DEF L, S, n
<1>4. CASE Sample
  <2>1. PICK d \in Costs : Passes(d)
    BY <1>4 DEF Sample
  <2>2. /\ pc = "tick" /\ pc' = "deliver" /\ pending' \subseteq Families /\ calling' = calling
        /\ UNCHANGED <<running, signalled, server, bus, desktop>>
    BY <1>4 DEF Sample, notifier, session
  <2>3. slack' = slack - d /\ sinceAttempt' \in 0 .. Reconnect
    BY <1>1, <1>3, <2>1, PassesLate
  <2>4. slack <= 0 /\ slack + L >= 0 /\ calling = None
    BY <2>2 DEF LateInv, LoopInv, L
  <2>5. calling' \notin pending'
    BY <2>2, <2>4, DesktopAssumption
  <2>6. Cardinality(Dealt') \in Nat /\ Slowest' = Slowest /\ Longest' = Longest
    <3>1. Dealt' \subseteq Families
      BY DEF Dealt
    <3> QED
      BY <3>1, FS_Subset, FS_CardinalityType DEF Bounded, Slowest, Longest
  <2>7. S <= S * (1 + Cardinality(Dealt')) /\ S * (1 + Cardinality(Dealt')) \in Nat
    BY <1>1, <2>6, MoreAnswers
  <2>8. slack' <= 0 /\ slack' + L + S * (1 + Cardinality(Dealt')) >= 0
    <3> DEFINE p == S * (1 + Cardinality(Dealt'))
    <3>1. p \in Nat /\ S <= p
      BY <2>7
    <3> HIDE DEF p
    <3>2. slack' <= 0 /\ slack' + L + p >= 0
      BY <1>1, <1>2, <2>1, <2>3, <2>4, <3>1
    <3> QED
      BY <3>2 DEF p
  <2> QED
    BY <1>1, <1>2, <1>3, <2>2, <2>3, <2>5, <2>6, <2>8 DEF LateInv, L, S
<1>5. CASE Pace
  <2>1. /\ pc = "deliver" /\ slack <= 0 /\ pc' \in {"asleep", "loop"}
        /\ pc' = "asleep" => slack' = slack + Interval
        /\ pc' = "loop" => slack' = 0
        /\ UNCHANGED <<running, signalled, pending, calling, server, sinceAttempt, bus, desktop>>
    BY <1>5 DEF Pace, Delivered, LateInv, notifier, session
  <2> QED
    BY <1>1, <1>2, <1>3, <2>1 DEF LateInv, L, Longest
<1>6. CASE Wake
  <2>1. PICK o \in Oversleeps : Passes(slack + o)
    BY <1>6 DEF Wake
  <2>2. /\ pc = "asleep" /\ pc' = "loop"
        /\ UNCHANGED <<running, signalled, pending, calling, server, bus, desktop>>
    BY <1>6 DEF Wake, notifier, session
  <2>3. slack >= 0 /\ slack + o \in Nat
    BY <1>1, <1>2, <2>2 DEF LoopInv
  <2>4. slack' = slack - (slack + o) /\ sinceAttempt' \in 0 .. Reconnect
    BY <1>3, <2>1, <2>3, PassesLate
  <2>5. o \in Nat /\ o <= L /\ slack' = 0 - o
    BY <1>1, <1>2, <2>3, <2>4
  <2>6. slack' <= 0 /\ slack' + L >= 0 /\ slack' <= Interval
    BY <1>1, <1>2, <2>5
  <2> QED
    BY <1>3, <2>2, <2>4, <2>6 DEF LateInv, L, Longest
<1>7. ASSUME NEW f \in Families, Deliver(f) PROVE LateInv'
  <2>1. /\ pc = "deliver" /\ calling = None /\ pending' = pending \ {f} /\ calling' \in {None, f}
        /\ UNCHANGED <<pc, running, signalled, slack, bus, desktop>>
        /\ server' \in {"none", "live", "dead"} /\ sinceAttempt' \in 0 .. Reconnect
    BY <1>3, <1>7, TimeAssumption DEF Deliver, Bind, clock, session
  <2>2. f # None /\ None \notin Families /\ f \in pending
    BY <1>7, DesktopAssumption DEF Deliver
  <2>3. Dealt \subseteq Dealt' /\ Dealt' \subseteq Families
    BY <2>1, <2>2 DEF Dealt
  <2>4. n <= Cardinality(Dealt') /\ Cardinality(Dealt') \in Nat
    BY <2>3, FS_Subset, FS_CardinalityType DEF Bounded, n
  <2>5. S * (1 + n) <= S * (1 + Cardinality(Dealt'))
        /\ S * (1 + n) \in Nat /\ S * (1 + Cardinality(Dealt')) \in Nat
    BY <1>1, <2>4, MoreAnswers
  <2>6. slack <= 0 /\ slack + L + S * (1 + n) >= 0
    BY <2>1 DEF LateInv, L, S, n
  <2>7. slack' <= 0 /\ slack' + L + S * (1 + Cardinality(Dealt')) >= 0
    <3> DEFINE p == S * (1 + n)
               q == S * (1 + Cardinality(Dealt'))
    <3>1. p \in Nat /\ q \in Nat /\ p <= q /\ slack + L + p >= 0
      BY <2>5, <2>6
    <3> HIDE DEF p, q
    <3>2. slack + L + q >= 0
      BY <1>1, <1>2, <3>1
    <3> QED
      BY <2>1, <2>6, <3>2 DEF q
  <2>8. calling' \notin pending' /\ pending' \subseteq Families
    BY <1>3, <2>1, <2>2
  <2> QED
    BY <1>2, <1>3, <2>1, <2>7, <2>8 DEF LateInv, L, S, Longest, Slowest
<1>8. CASE Answered
  <2>1. PICK d \in Costs : Passes(d)
    BY <1>8 DEF Answered
  <2>2. /\ calling \in Families /\ calling' = None
        /\ UNCHANGED <<pc, running, signalled, pending, server, bus, desktop>>
    BY <1>8 DEF Answered, BubbleInv, BubbleTypes
  <2>3. pc = "deliver"
    BY <1>8, <2>2 DEF Answered, LoopInv
  <2>4. slack' = slack - d /\ sinceAttempt' \in 0 .. Reconnect
    BY <1>1, <1>3, <2>1, PassesLate
  <2>5. Dealt' = Dealt \cup {calling} /\ calling \notin Dealt /\ IsFiniteSet(Dealt)
    BY <1>3, <2>2, DealtBounds, DesktopAssumption DEF Dealt
  <2>6. Cardinality(Dealt') = n + 1
    BY <2>5, FS_AddElement DEF n
  <2>7. S * (1 + Cardinality(Dealt')) = S * (1 + n) + S /\ S * (1 + n) \in Nat
    BY <1>1, <2>6, OneAnswer
  <2>8. slack <= 0 /\ slack + L + S * (1 + n) >= 0
    BY <2>3 DEF LateInv, L, S, n
  <2>9. slack' <= 0 /\ slack' + L + S * (1 + Cardinality(Dealt')) >= 0
    <3> DEFINE p == S * (1 + n)
    <3>1. p \in Nat /\ slack + L + p >= 0 /\ S * (1 + Cardinality(Dealt')) = p + S
      BY <2>7, <2>8
    <3> HIDE DEF p
    <3>2. d \in Nat /\ d <= S
      BY <1>1
    <3> QED
      BY <1>1, <1>2, <2>4, <2>8, <3>1, <3>2
  <2> QED
    BY <1>1, <1>2, <1>3, <2>2, <2>3, <2>4, <2>9, DesktopAssumption
       DEF LateInv, L, S, Longest, Slowest
<1>9. CASE Failed
  <2>1. /\ calling \in Families /\ calling' = None
        /\ UNCHANGED <<pc, running, signalled, slack, pending, server, sinceAttempt, bus, desktop>>
    BY <1>9 DEF Failed, BubbleInv, BubbleTypes, clock, notifier, session
  <2>2. pc = "deliver"
    BY <1>9, <2>1 DEF Failed, LoopInv
  <2>3. Dealt \subseteq Dealt' /\ Dealt' \subseteq Families
    BY <2>1, DesktopAssumption DEF Dealt
  <2>4. n <= Cardinality(Dealt') /\ Cardinality(Dealt') \in Nat
    BY <2>3, FS_Subset, FS_CardinalityType DEF Bounded, n
  <2>5. S * (1 + n) <= S * (1 + Cardinality(Dealt'))
        /\ S * (1 + n) \in Nat /\ S * (1 + Cardinality(Dealt')) \in Nat
    BY <1>1, <2>4, MoreAnswers
  <2>6. slack <= 0 /\ slack + L + S * (1 + n) >= 0
    BY <2>2 DEF LateInv, L, S, n
  <2>7. slack' <= 0 /\ slack' + L + S * (1 + Cardinality(Dealt')) >= 0
    <3> DEFINE p == S * (1 + n)
               q == S * (1 + Cardinality(Dealt'))
    <3>1. p \in Nat /\ q \in Nat /\ p <= q /\ slack + L + p >= 0
      BY <2>5, <2>6
    <3> HIDE DEF p, q
    <3>2. slack + L + q >= 0
      BY <1>1, <1>2, <3>1
    <3> QED
      BY <2>1, <2>6, <3>2 DEF q
  <2> QED
    BY <1>2, <1>3, <2>1, <2>2, <2>7, DesktopAssumption DEF LateInv, L, S, Longest, Slowest
<1>10. CASE \/ Launch \/ Down \/ Signal \/ Watch \/ Begin \/ Finish \/ UNCHANGED vars
            \/ BusComes \/ BusGoes \/ DesktopStarts \/ DesktopStops \/ DesktopHangs
            \/ DesktopRecovers \/ OtherBubble \/ \E id \in Ids : Close(id)
  <2>1. \/ UNCHANGED <<pc, running, signalled, slack, pending, calling, sinceAttempt>>
        \/ Launch \/ Down \/ Signal \/ Watch \/ Begin \/ Finish
    BY <1>10 DEF vars, clock, daemon, BusComes, BusGoes, DesktopStarts, DesktopStops, DesktopHangs,
                 DesktopRecovers, OtherBubble, Close
  <2>2. /\ server' \in {"none", "live", "dead"} /\ bus' \in BOOLEAN
        /\ desktop' \in {"absent", "answers", "hung"}
    BY <1>3, <1>10
       DEF vars, notifier, session, daemon, BusComes, BusGoes, DesktopStarts, DesktopStops,
           DesktopHangs, DesktopRecovers, OtherBubble, Close, Launch, Down, Signal, Watch, Begin,
           Finish, Bind
  <2> QED
    BY <2>1, <2>2, LateElsewhere
<1> QED
  BY <1>4, <1>5, <1>6, <1>7, <1>8, <1>9, <1>10 DEF Next, Thread, Environment, Kill, Flush

\* Daemon::run: however many families there are and however long a tick, an
\* answer or an oversleep may take, the deadline is behind by no more than one
\* late start, one slow tick and a slow answer to each alert: a deadline that
\* is further behind is given up, not carried over.
THEOREM LatenessBounded ==
    ASSUME Bounded
    PROVE  Spec => []TypeOK
<1>1. Init => LateInv
  BY LateInit
<1>2. LoopInv /\ LoopInv' /\ BubbleInv /\ LateInv /\ [Next]_vars => LateInv'
  BY LateStep
<1>3. LoopInv /\ BubbleInv /\ LateInv => TypeOK
  <2> SUFFICES ASSUME LoopInv, BubbleInv, LateInv PROVE TypeOK
    OBVIOUS
  <2> DEFINE F == Cardinality(Families)
             p == Slowest * (1 + F)
             q == Slowest * (1 + Cardinality(Dealt))
  <2>1. Longest \in Nat /\ Slowest \in Nat /\ F \in Nat /\ Interval \in Nat
    BY Bounds, DealtBounds, IntervalAssumption
  <2>2. p \in Nat /\ q \in Nat /\ q <= p
    BY <2>1, DealtBounds, MoreAnswers
  <2>3. slack \in Int /\ slack <= Interval /\ slack >= 0 - (Longest + p)
    <3>1. \/ slack >= 0 \/ slack + Longest >= 0 \/ slack + Longest + q >= 0
      BY DEF LoopInv, LateInv
    <3>2. slack \in Int /\ slack <= Interval
      BY DEF LoopInv, LateInv
    <3> HIDE DEF p, q
    <3> QED
      BY <2>1, <2>2, <3>1, <3>2
  <2>4. slack \in - (Longest + p) .. Interval
    <3> HIDE DEF p
    <3> QED
      BY <2>1, <2>2, <2>3
  <2> QED
    BY <2>4 DEF TypeOK, LoopInv, BubbleInv, BubbleTypes, LateInv
<1> QED
  BY <1>1, <1>2, <1>3, LoopAlways, BubblesAlways, PTL DEF Spec
=============================================================================

------------------------------ MODULE Service ------------------------------
(***************************************************************************)
(* The daemon's one thread in time, and the desktop it talks to: the       *)
(* deadline loop (Daemon::run, src/src/daemon.rs), the termination watcher *)
(* (src/src/main.rs) and DesktopNotifier (src/src/dbus/notifications.rs).  *)
(*                                                                         *)
(* Every call is made on that thread.  The session bus may go and come     *)
(* back, the notification server may start late, stop, or stop answering,  *)
(* other programs show bubbles and people close them.  What a tick records *)
(* is in Recorder; here a tick takes time and raises alerts.               *)
(*                                                                         *)
(* Time is relative to the thread: deadline and last_attempt are kept as   *)
(* the time that is left, or has passed, up to a cap.                      *)
(***************************************************************************)
EXTENDS Integers, FiniteSets, FiniteSetsExt

CONSTANTS
    None,
    Families,       \* the alert families
    Interval,       \* Schedule::sample_interval
    Costs,          \* what a tick, or an answer from the desktop, may take
    Oversleeps,     \* what a sleep may last beyond its deadline
    Reconnect,      \* RECONNECT_INTERVAL
    MaxBubbles      \* bound: identifiers a notification server hands out

ASSUME IntervalAssumption == Interval \in Nat \ {0}     \* Schedule::validate
ASSUME TimeAssumption ==
    /\ Costs \subseteq Nat /\ Costs # {}
    /\ Oversleeps \subseteq Nat /\ 0 \in Oversleeps
    /\ Reconnect \in Nat
ASSUME DesktopAssumption ==
    /\ Families \cap {None, "other"} = {} /\ None # "other"
    /\ MaxBubbles \in Nat

VARIABLES
    pc,             \* where the thread is
    running,        \* the flag run reads
    signalled,      \* a signal has arrived and the watcher has not seen it
    slack,          \* deadline - now
    behind,         \* history variable: now - when this tick would be due had none drifted
    last, prior,    \* history variables: since the last tick began, and the one before
    pending,        \* alerts of this tick still to deliver
    calling,        \* the family whose Notify is unanswered
    server,         \* DesktopNotifier::server: none, a proxy, or one whose bus has gone
    sinceAttempt,   \* last_attempt.elapsed()
    replacements,   \* ReplacementIds
    bus,            \* the session bus is there
    desktop,        \* the notification server: absent, answers, hung
    bubbles,        \* who put up the bubble with each identifier
    nextId,         \* the next identifier of the notification server
    mixedUp         \* history variable: an identifier outlived its server

clock == <<slack, behind, last, prior>>
notifier == <<server, replacements>>
session == <<bus, desktop, bubbles, nextId>>
vars == <<pc, running, signalled, clock, pending, calling, notifier, sinceAttempt,
          session, mixedUp>>

NO_REPLACEMENT == 0
Ids == 1 .. MaxBubbles
Capped(x, cap) == IF x < cap THEN x ELSE cap

-----------------------------------------------------------------------------
(***************************************************************************)
(* The process.                                                            *)
(***************************************************************************)
\* Connection::session and Proxy::new: they need the bus, not the server.
Bind == IF bus THEN "live" ELSE "none"

Launch ==
    /\ pc = "down"
    /\ pc' = "loop" /\ running' = TRUE
    /\ server' = Bind
    /\ UNCHANGED <<signalled, clock, pending, calling, sinceAttempt, replacements, session,
                   mixedUp>>

\* The state a process takes with it.  Its bubbles stay, nobody's now.
Down ==
    /\ pc' = "down" /\ running' = FALSE /\ signalled' = FALSE
    /\ slack' = 0 /\ behind' = 0 /\ last' = Interval /\ prior' = Interval
    /\ pending' = {} /\ calling' = None
    /\ server' = "none" /\ sinceAttempt' = 0
    /\ replacements' = [f \in Families |-> NO_REPLACEMENT]
    /\ bubbles' = [id \in Ids |-> IF bubbles[id] = None THEN None ELSE "other"]
    /\ mixedUp' = FALSE
    /\ UNCHANGED <<bus, desktop, nextId>>

Kill == pc # "down" /\ Down

\* shutdown: both databases are flushed, and main returns.
Flush == pc = "flush" /\ Down

Signal ==
    /\ pc # "down" /\ running
    /\ signalled' = TRUE
    /\ UNCHANGED <<pc, running, clock, pending, calling, notifier, sinceAttempt, session,
                   mixedUp>>

\* The thread of watch_for_termination.
Watch ==
    /\ signalled
    /\ running' = FALSE /\ signalled' = FALSE
    /\ UNCHANGED <<pc, clock, pending, calling, notifier, sinceAttempt, session, mixedUp>>

-----------------------------------------------------------------------------
(***************************************************************************)
(* The loop.                                                               *)
(***************************************************************************)
Passes(d) ==
    /\ slack' = slack - d /\ behind' = behind + d
    /\ last' = Capped(last + d, Interval) /\ prior' = Capped(prior + d, Interval)
    /\ sinceAttempt' = Capped(sinceAttempt + d, Reconnect)

Begin ==
    /\ pc = "loop" /\ running
    /\ pc' = "tick"
    /\ last' = 0 /\ prior' = last
    /\ UNCHANGED <<running, signalled, slack, behind, pending, calling, notifier, sinceAttempt,
                   session, mixedUp>>

Finish ==
    /\ pc = "loop" /\ ~ running
    /\ pc' = "flush"
    /\ UNCHANGED <<running, signalled, clock, pending, calling, notifier, sinceAttempt, session,
                   mixedUp>>

\* Sampling and recording; two calls to UPower may each take CALL_TIMEOUT.
Sample ==
    /\ pc = "tick"
    /\ \E d \in Costs : Passes(d)
    /\ pending' \in SUBSET Families
    /\ pc' = "deliver"
    /\ UNCHANGED <<running, signalled, calling, notifier, session, mixedUp>>

Delivered == pc = "deliver" /\ pending = {} /\ calling = None

\* Mutant: sleeps for the interval, not until the deadline.
PaceBySleeping ==
    /\ Delivered
    /\ slack' = Interval /\ behind' = behind - Interval
    /\ pc' = "asleep"
    /\ UNCHANGED <<running, signalled, last, prior, pending, calling, notifier, sinceAttempt,
                   session, mixedUp>>

\* Mutant: a deadline that is past is kept, and the missed ticks made up for.
PaceCatchingUp ==
    /\ Delivered
    /\ slack' = slack + Interval /\ behind' = behind - Interval
    /\ pc' = IF slack' >= 0 THEN "asleep" ELSE "loop"
    /\ UNCHANGED <<running, signalled, last, prior, pending, calling, notifier, sinceAttempt,
                   session, mixedUp>>

\* Mutant: the thread resynchronises and ticks without reading the flag.
PaceUnasked ==
    /\ Delivered
    /\ IF slack + Interval >= 0
       THEN /\ slack' = slack + Interval /\ behind' = behind - Interval
            /\ pc' = "asleep"
       ELSE /\ slack' = 0 /\ behind' = 0
            /\ pc' = "tick"
    /\ UNCHANGED <<running, signalled, last, prior, pending, calling, notifier, sinceAttempt,
                   session, mixedUp>>

Pace ==
    /\ Delivered
    /\ IF slack + Interval >= 0
       THEN /\ slack' = slack + Interval /\ behind' = behind - Interval
            /\ pc' = "asleep"
       ELSE /\ slack' = 0 /\ behind' = 0
            /\ pc' = "loop"
    /\ UNCHANGED <<running, signalled, last, prior, pending, calling, notifier, sinceAttempt,
                   session, mixedUp>>

Wake ==
    /\ pc = "asleep"
    /\ \E o \in Oversleeps : Passes(slack + o)
    /\ pc' = "loop"
    /\ UNCHANGED <<running, signalled, pending, calling, notifier, session, mixedUp>>

-----------------------------------------------------------------------------
(***************************************************************************)
(* Delivery.                                                               *)
(***************************************************************************)
Due == server = "none" /\ sinceAttempt >= Reconnect

\* Mutant: nothing goes on until there is a server.
DeliverWaiting(f) ==
    /\ pc = "deliver" /\ calling = None /\ f \in pending
    /\ server # "none" \/ bus
    /\ pending' = pending \ {f} /\ calling' = f
    /\ server' = IF server = "none" THEN Bind ELSE server
    /\ UNCHANGED <<pc, running, signalled, clock, sinceAttempt, replacements, session, mixedUp>>

\* Mutant: an alert counts as an attempt, made or not.
DeliverRestarting(f) ==
    /\ pc = "deliver" /\ calling = None /\ f \in pending
    /\ pending' = pending \ {f}
    /\ server' = IF Due THEN Bind ELSE server
    /\ sinceAttempt' = 0
    /\ calling' = IF server' = "none" THEN None ELSE f
    /\ UNCHANGED <<pc, running, signalled, clock, replacements, session, mixedUp>>

\* deliver, up to the call of Notify: without a server there is none.
Deliver(f) ==
    /\ pc = "deliver" /\ calling = None /\ f \in pending
    /\ pending' = pending \ {f}
    /\ IF Due THEN server' = Bind /\ sinceAttempt' = 0
       ELSE UNCHANGED <<server, sinceAttempt>>
    /\ calling' = IF server' = "none" THEN None ELSE f
    /\ UNCHANGED <<pc, running, signalled, clock, replacements, session, mixedUp>>

previous(f) == replacements[f]

\* Mutant: the identifier is remembered for every family.
recordShared(f, id) == replacements' = [g \in Families |-> id]
\* Mutant: an identifier once given is kept.
recordFirst(f, id) ==
    replacements' = [replacements EXCEPT ![f] = IF @ = NO_REPLACEMENT THEN id ELSE @]

\* record: zero, a bubble declined, is the entry removed.
record(f, id) == replacements' = [replacements EXCEPT ![f] = id]

\* The identifiers the server may return: that of the bubble replaced if it
\* still shows one, else a new one; or zero.
Answers(replaces) ==
    IF replaces # NO_REPLACEMENT /\ bubbles[replaces] # None THEN {replaces}
    ELSE {NO_REPLACEMENT} \cup (IF nextId \in Ids THEN {nextId} ELSE {})

\* Notify returns an identifier, after some time.
Answered ==
    /\ calling # None /\ server = "live" /\ desktop = "answers"
    /\ \E id \in Answers(previous(calling)) :
          /\ record(calling, id)
          /\ bubbles' = [b \in Ids |-> IF b = id THEN calling ELSE bubbles[b]]
          /\ nextId' = IF id = nextId THEN nextId + 1 ELSE nextId
    /\ \E d \in Costs : Passes(d)
    /\ calling' = None
    /\ UNCHANGED <<pc, running, signalled, pending, server, bus, desktop, mixedUp>>

\* Notify returns an error: nobody has the name, or the connection is gone.
Failed ==
    /\ calling # None
    /\ server = "dead" \/ desktop = "absent"
    /\ calling' = None
    /\ UNCHANGED <<pc, running, signalled, clock, pending, notifier, sinceAttempt, session,
                   mixedUp>>

-----------------------------------------------------------------------------
(***************************************************************************)
(* The session: the bus, the notification server, other programs, people.  *)
(***************************************************************************)
daemon == <<pc, running, signalled, clock, pending, calling, replacements, sinceAttempt>>
NoBubbles == [id \in Ids |-> None]

BusComes ==
    /\ ~ bus /\ bus' = TRUE
    /\ UNCHANGED <<daemon, server, desktop, bubbles, nextId, mixedUp>>

\* Everything on the bus goes with it.
BusGoes ==
    /\ bus /\ bus' = FALSE
    /\ desktop' = "absent" /\ bubbles' = NoBubbles /\ nextId' = 1
    /\ server' = IF server = "live" THEN "dead" ELSE server
    /\ UNCHANGED <<daemon, mixedUp>>

DesktopStarts ==
    /\ bus /\ desktop = "absent"
    /\ desktop' = "answers"
    /\ mixedUp' = (mixedUp \/ \E f \in Families : replacements[f] # NO_REPLACEMENT)
    /\ UNCHANGED <<daemon, server, bus, bubbles, nextId>>

DesktopStops ==
    /\ desktop # "absent"
    /\ desktop' = "absent" /\ bubbles' = NoBubbles /\ nextId' = 1
    /\ UNCHANGED <<daemon, server, bus, mixedUp>>

DesktopHangs ==
    /\ desktop = "answers" /\ desktop' = "hung"
    /\ UNCHANGED <<daemon, server, bus, bubbles, nextId, mixedUp>>

DesktopRecovers ==
    /\ desktop = "hung" /\ desktop' = "answers"
    /\ UNCHANGED <<daemon, server, bus, bubbles, nextId, mixedUp>>

OtherBubble ==
    /\ desktop = "answers" /\ nextId \in Ids
    /\ bubbles' = [bubbles EXCEPT ![nextId] = "other"] /\ nextId' = nextId + 1
    /\ UNCHANGED <<daemon, server, bus, desktop, mixedUp>>

Close(id) ==
    /\ bubbles[id] # None
    /\ bubbles' = [bubbles EXCEPT ![id] = None]
    /\ UNCHANGED <<daemon, server, bus, desktop, nextId, mixedUp>>

-----------------------------------------------------------------------------
Init ==
    /\ pc = "down" /\ running = FALSE /\ signalled = FALSE
    /\ slack = 0 /\ behind = 0 /\ last = Interval /\ prior = Interval
    /\ pending = {} /\ calling = None
    /\ server = "none" /\ sinceAttempt = 0
    /\ replacements = [f \in Families |-> NO_REPLACEMENT]
    /\ bus \in BOOLEAN /\ desktop = "absent"
    /\ bubbles = NoBubbles /\ nextId = 1 /\ mixedUp = FALSE

Thread ==
    \/ Begin \/ Finish \/ Sample \/ Pace \/ Wake \/ Flush
    \/ \E f \in Families : Deliver(f)
    \/ Answered \/ Failed

Environment ==
    \/ Launch \/ Kill \/ Signal
    \/ BusComes \/ BusGoes
    \/ DesktopStarts \/ DesktopStops \/ DesktopHangs \/ DesktopRecovers
    \/ OtherBubble \/ \E id \in Ids : Close(id)

Next == Thread \/ Watch \/ Environment

\* The kernel runs both threads, the bus returns the error of a call it cannot
\* deliver, and a server that answers, answers.  Nothing else has to happen.
Fairness == WF_vars(Thread) /\ WF_vars(Watch)

Spec == Init /\ [][Next]_vars /\ Fairness

-----------------------------------------------------------------------------
Longest == Max(Oversleeps)
Slowest == Max(Costs)

\* How far the deadline can fall behind: a late start, a slow tick, and a slow
\* answer to each of its alerts.
TypeOK ==
    /\ pc \in {"down", "loop", "tick", "deliver", "asleep", "flush"}
    /\ running \in BOOLEAN /\ signalled \in BOOLEAN
    /\ slack \in - (Longest + Slowest * (1 + Cardinality(Families))) .. Interval
    /\ last \in 0 .. Interval /\ prior \in 0 .. Interval
    /\ pending \subseteq Families /\ calling \in Families \cup {None}
    /\ server \in {"none", "live", "dead"} /\ sinceAttempt \in 0 .. Reconnect
    /\ replacements \in [Families -> 0 .. MaxBubbles]
    /\ bus \in BOOLEAN /\ desktop \in {"absent", "answers", "hung"}
    /\ bubbles \in [Ids -> Families \cup {None, "other"}]
    /\ nextId \in 1 .. MaxBubbles + 1 /\ mixedUp \in BOOLEAN

\* However long ticks take and sleeps last, at most two ticks begin within an
\* interval, and the two only around a resynchronisation (run: no "burst of
\* back-to-back ticks").
NoBurst == [][pc = "loop" /\ pc' = "tick" => prior >= Interval]_vars

\* Between resynchronisations every tick begins when it is due, late by no more
\* than its own sleep: what ticks cost does not add up (run: "the cadence does
\* not drift by the cost of each tick").
Cadence == pc = "loop" => behind \in Oversleeps

\* However often the server declines, restarts or loses its bubbles, a family
\* never has two of them up (AlertFamily: a re-fire replaces the bubble "rather
\* than stacking a second one beside it").
OneBubblePerFamily ==
    \A f \in Families : Cardinality({id \in Ids : bubbles[id] = f}) <= 1

\* An alert takes the place of no other family's bubble, nor of another
\* program's: unless the server was restarted behind the identifiers kept.
OwnBubble ==
    [][\A id \in Ids, f \in Families :
          bubbles[id] # f /\ bubbles'[id] = f => bubbles[id] = None \/ mixedUp]_vars

\* No desktop stops the recorder (Notifier: it "must never take the recorder
\* down with it"): while it is not left without a signal, ticks go on.  A server
\* that takes a call and never answers is the exception: Notify has no timeout.
Responsive == <>[](desktop # "hung")
Recording == Responsive => []<>(pc = "tick" \/ signalled \/ ~ running)

\* A signal ends the daemon, whatever the loop, the watcher and the delivery are
\* doing; the exception is the same.
SignalEnds == Responsive => (signalled ~> pc = "down")

\* A daemon started before the session bus finds it, if it stays and alerts go
\* on, however close together they are (deliver: "a notification server that
\* appeared after startup").
Heard ==
    []<>(pc = "deliver" /\ pending # {}) /\ <>[]bus => <>[](pc = "down" \/ server # "none")
=============================================================================

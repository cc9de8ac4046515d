----------------------------- MODULE Discovery -----------------------------
(***************************************************************************)
(* Which battery the daemon watches: discover_battery_path                 *)
(* (src/src/paths.rs), once per process, over supplies that come and go.   *)
(* The kernel lists a directory in any order.                              *)
(***************************************************************************)
EXTENDS Integers, FiniteSets, FiniteSetsExt, Functions

CONSTANTS
    Names,          \* entries of the power_supply directory, as ranks in name order
    BatNames        \* those that begin with "bat"

ASSUME DiscoveryAssumption == Names \subseteq Nat \ {0} /\ BatNames \subseteq Names

VARIABLES
    supplies,       \* what each entry is
    battery         \* Paths::battery

discoveryVars == <<supplies, battery>>

\* A mains adapter or an entry whose type does not read is none of these.
Kinds == {"absent", "other", "system", "device"}
FALLBACK_BATTERY == 0

is_system(n) == supplies[n] = "system"
is_bat_name(n) == n \in BatNames

\* names.sort(): a directory lists no name twice.
Sorted(listing) ==
    CHOOSE s \in [DOMAIN listing -> Range(listing)] :
        /\ Range(s) = Range(listing)
        /\ \A i, j \in DOMAIN s : i < j => s[i] < s[j]

\* The candidates, as places in the sorted listing.
Candidates(s) == {i \in DOMAIN s : supplies[s[i]] \in {"system", "device"}}

\* Mutant: the name is looked at before the scope.
PreferredByName(s) ==
    LET named == {i \in Candidates(s) : is_bat_name(s[i])}
        systems == {i \in Candidates(s) : is_system(s[i])}
    IN  IF named # {} THEN named ELSE IF systems # {} THEN systems ELSE Candidates(s)

\* The first tier that has a candidate.
Preferred(s) ==
    LET systems == {i \in Candidates(s) : is_system(s[i])}
        named == {i \in systems : is_bat_name(s[i])}
    IN  IF named # {} THEN named ELSE IF systems # {} THEN systems ELSE Candidates(s)

discover_battery_path(listing) ==
    LET s == Sorted(listing)
    IN  IF Candidates(s) = {} THEN FALLBACK_BATTERY ELSE s[Min(Preferred(s))]

Listed == {n \in Names : supplies[n] # "absent"}
Listings == {s \in [1 .. Cardinality(Listed) -> Listed] : Range(s) = Listed}

\* The daemon starts, or starts again; BATMON_SYSFS_PATH is not set.
Discover ==
    /\ \E listing \in Listings : battery' = discover_battery_path(listing)
    /\ UNCHANGED supplies

\* A driver loads, a peripheral connects, or one goes.
SupplyChanges(n) ==
    /\ \E kind \in Kinds \ {supplies[n]} : supplies' = [supplies EXCEPT ![n] = kind]
    /\ UNCHANGED battery

DiscoveryInit ==
    /\ supplies = [n \in Names |-> "absent"]
    /\ battery = FALLBACK_BATTERY

-----------------------------------------------------------------------------
\* The choice depends on what is there and not on how it is listed, and no
\* peripheral is taken for the machine's battery while that is there, whatever
\* it is called (Candidate: a mouse or keyboard "must never be mistaken for the
\* system battery").  With nothing else there one is taken.
SystemFirst ==
    [][Discover =>
          LET systems == {n \in Names : supplies[n] = "system"}
              named == systems \cap BatNames
          IN  systems # {} => battery' = Min(IF named # {} THEN named ELSE systems)]_discoveryVars
=============================================================================

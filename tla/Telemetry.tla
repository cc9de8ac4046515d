----------------------------- MODULE Telemetry -----------------------------
(***************************************************************************)
(* One tick of the Sampler (src/src/telemetry/sampler.rs) over the three   *)
(* readers that remember something between ticks: where the sensors are    *)
(* (Thermal), what UPower said (Estimates), what each process had used     *)
(* (Processes).  A tick that cannot read the battery touches none of the   *)
(* readers but the estimates.  Which battery that is is settled before the *)
(* first tick (Discovery).                                                 *)
(*                                                                         *)
(* The readers share nothing but the tick, so one part of the machine      *)
(* varies in each behaviour.                                               *)
(***************************************************************************)
EXTENDS Thermal, Processes, Estimates, Discovery

CONSTANT Parts      \* bound: what varies, of "sensors", "processes", "battery",
                    \* "supplies"

VARIABLE varying

vars == <<thermalVars, processVars, estimateVars, discoveryVars, varying>>

\* In the order of the code: temperatures, estimates, /proc/stat.
Sample ==
    /\ stat = Unread
    /\ readable
    /\ ReadThermals
    /\ RefreshEstimates
    /\ \E statReads, meminfoReads \in (IF varying = "processes" THEN BOOLEAN ELSE {FALSE}) :
          ReadStat(statReads, meminfoReads)
    /\ UNCHANGED <<discoveryVars, varying>>

NoSample ==
    /\ stat = Unread
    /\ InvalidateEstimates
    /\ UNCHANGED <<thermalVars, processVars, discoveryVars, varying>>

\* The listing ends the tick.
TopProcesses ==
    /\ List \/ ListFails
    /\ UNCHANGED <<thermalVars, estimateVars, discoveryVars, varying>>

Machine ==
    \/ /\ varying = "sensors"
       /\ (\E d \in Dirs : HwmonChanges(d)) \/ ChildChanges
       /\ UNCHANGED <<processVars, estimateVars, discoveryVars, varying>>
    \/ /\ varying = "processes"
       /\ MachineStep
       /\ UNCHANGED <<thermalVars, estimateVars, discoveryVars, varying>>
    \/ /\ varying = "battery"
       /\ HardwareStep
       /\ UNCHANGED <<thermalVars, processVars, discoveryVars, varying>>
    \/ /\ varying = "supplies"
       /\ Discover \/ \E n \in Names : SupplyChanges(n)
       /\ UNCHANGED <<thermalVars, processVars, estimateVars, varying>>

Init ==
    /\ ThermalInit /\ ProcessInit /\ EstimateInit /\ DiscoveryInit
    /\ varying \in Parts
    /\ varying # "battery" =>
          ~ upower /\ rail = "AcIdle" /\ seated = CHOOSE p \in Seatable : TRUE
Next == Sample \/ NoSample \/ TopProcesses \/ Machine
Spec == Init /\ [][Next]_vars

\* Where each reader is between two steps of the tick.
TypeOK ==
    /\ \A d \in Dirs : hwmon[d] \in Devices
    /\ reads_since_scan \in 0 .. RESCAN_INTERVAL
    /\ sensors = None \/ sensors.battery \in {None, 1, 2}
    /\ stat \in {Unread} \cup 0 .. MaxTicks /\ DOMAIN previous \subseteq Pids
    /\ previous_total_ticks \in 0 .. total
    /\ elapsed \in 0 .. total /\ skew \in 0 .. total
    /\ seated \in Seatable \cup {Absent}
    /\ poll = Absent \/ poll.age \in 0 .. ESTIMATE_TTL - 1
    /\ battery \in Names \cup {FALLBACK_BATTERY} /\ varying \in Parts
=============================================================================

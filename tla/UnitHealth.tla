----------------------------- MODULE UnitHealth -----------------------------
(***************************************************************************)
(* What is watched of a unit: the programs that wait for it to be ready    *)
(* (TestStarter), the health monitors of dpdk_vmc and dpdk_cmc, and the    *)
(* PTP engine of dpdk_vmc.  Starters and monitors never run at once, and   *)
(* only the files of the VMC starter go from one to the next: the monitor  *)
(* of VMC starts from whatever a starter, or none (its call in Vmc.cpp is  *)
(* commented out), can leave there.  The PTP engine shares nothing with    *)
(* the monitor beside it but the main thread that prints both.             *)
(***************************************************************************)
EXTENDS VmcMonitor, CmcMonitor, VmcPtp

VARIABLE part_of        \* "cmc starter", "vmc starter", "cmc monitor", "vmc monitor", "vmc ptp"

vars == <<part_of, starterVars, monitorVars, cmcVars, ptpVars>>

\* Versions are only compared: those that FLCS reports may have one name.
FirstVersion == CHOOSE v \in Firmware : TRUE

\* A monitor has no unit in front of a starter.
Idle == truth = CHOOSE u \in [Side -> Unit] : TRUE

Init ==
    /\ MonitorInit /\ CmcMonitorInit /\ PtpInit
    /\ \/ part_of = "cmc starter" /\ StarterInit({"trigger"}, {"none"}) /\ Idle
       \/ /\ part_of = "vmc starter" /\ StarterInit({"cbit"}, {"none", "old"})
          /\ truth["FLCS"].sw = FirstVersion /\ truth["FLCS"].es = FirstVersion
       \/ /\ part_of = "vmc monitor" /\ Idle
          /\ StarterInit({"off"}, {"none", "old", "short", "new"})
       \/ part_of \in {"cmc monitor", "vmc ptp"} /\ StarterInit({"off"}, {"none"}) /\ Idle

Next ==
    /\ UNCHANGED part_of
    /\ \/ /\ part_of \in {"cmc starter", "vmc starter"} /\ StarterNext
          /\ UNCHANGED <<monitorVars, cmcVars, ptpVars>>
       \/ /\ part_of = "vmc monitor" /\ MonitorNext
          /\ UNCHANGED <<starterVars, cmcVars, ptpVars>>
       \/ /\ part_of = "cmc monitor" /\ CmcMonitorNext
          /\ UNCHANGED <<starterVars, monitorVars, ptpVars>>
       \/ /\ part_of = "vmc ptp" /\ PtpNext
          /\ UNCHANGED <<starterVars, monitorVars, cmcVars>>

Spec == Init /\ [][Next]_vars
=============================================================================

------------------------------ MODULE DtnTest ------------------------------
(***************************************************************************)
(* A DTN test: the sequence of the orchestrator, and in the application    *)
(* that it starts on the server, the sequence tracking of the received     *)
(* packets and the health monitor, and beside them the time forwarder.     *)
(* They share no state: the tracker and the monitor meet in the main       *)
(* thread of the application (TestApp), the orchestrator sees of the       *)
(* application only that it runs, and the forwarder goes on by itself when *)
(* it has started.  So each part is taken by itself.                       *)
(***************************************************************************)
EXTENDS DtnSequence, SeqTracker, HealthMonitor, SerialTime

VARIABLE part_of        \* "sequence", "tracker", "monitor", "time"

testVars == <<part_of, vars, trackerVars, healthVars, timeVars>>

AnEve == CHOOSE t \in {Boundary[e] : e \in Eves} : TRUE
AZone == CHOOSE z \in {Offset[o] : o \in Zones} : TRUE

\* The choices that an idle part would make are fixed.
TestInit ==
    /\ part_of \in {"sequence", "tracker", "monitor", "time"}
    /\ Init /\ TrackerInit /\ HealthInit /\ TimeInit
    /\ part_of # "tracker" => queues = Worker
    /\ part_of # "monitor" => ~power_check /\ ~mismatch
    /\ part_of # "time" => utc = AnEve /\ zone = AZone /\ ~forwarding

TestNext ==
    /\ UNCHANGED part_of
    /\ \/ part_of = "sequence" /\ Next /\ UNCHANGED <<trackerVars, healthVars, timeVars>>
       \/ part_of = "tracker" /\ TrackerNext /\ UNCHANGED <<vars, healthVars, timeVars>>
       \/ part_of = "monitor" /\ HealthNext /\ UNCHANGED <<vars, trackerVars, timeVars>>
       \/ part_of = "time" /\ TimeNext /\ UNCHANGED <<vars, trackerVars, healthVars>>

\* The threads of the orchestrator are scheduled, and every remote command has a time
\* limit; the two threads of the monitor are scheduled.
TestSpec ==
    /\ TestInit /\ [][TestNext]_testVars
    /\ WF_vars(part_of = "sequence" /\ (Sequence \/ Shutdown))
    /\ WF_vars(part_of = "sequence" /\ (PubReconnects \/ PubEnds))
    /\ WF_healthVars(part_of = "monitor" /\ Thread)
    /\ WF_healthVars(part_of = "monitor" /\ Main)
=============================================================================

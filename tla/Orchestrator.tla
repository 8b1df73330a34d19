---------------------------- MODULE Orchestrator ----------------------------
(***************************************************************************)
(* What the orchestrator's process does over the days of a bench: its runs *)
(* of the unit sequences under the automation loop, and what they, and     *)
(* other tests, leave at the switch.  The two share no state: the sequence *)
(* of CMC or VMC reaches the switch in one step ("network"), which either  *)
(* succeeds or ends it.  So each part is taken by itself.                  *)
(***************************************************************************)
EXTENDS UnitRun, Commissioning

VARIABLE part_of        \* "unit run", "commissioning"

orchestratorVars == <<part_of, vars, commissionVars>>

\* A part that is not looked at has one initial state.
OrchestratorInit ==
    /\ part_of \in {"unit run", "commissioning"}
    /\ Init /\ CommissionInit
    /\ part_of # "commissioning" => sw = NewSwitch("dtn") /\ bench = "plugs"
    /\ part_of # "unit run" => power = "off" /\ unit = CHOOSE u \in Units : TRUE

OrchestratorNext ==
    /\ UNCHANGED part_of
    /\ \/ part_of = "unit run" /\ Next /\ UNCHANGED commissionVars
       \/ part_of = "commissioning" /\ CommissionNext /\ UNCHANGED vars

OrchestratorSpec == OrchestratorInit /\ [][OrchestratorNext]_orchestratorVars
=============================================================================

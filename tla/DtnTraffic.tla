----------------------------- MODULE DtnTraffic -----------------------------
(***************************************************************************)
(* The traffic of the DTN application from three sides: how packets of a   *)
(* VL-ID are numbered, received and counted at a raw port (RawPort), what  *)
(* they carry and how it is judged (Payload), and when they are sent       *)
(* (Pacing).  A counter that is published, a verdict and the time of a     *)
(* slot do not depend on each other in the code, so each side is taken by  *)
(* itself.                                                                 *)
(***************************************************************************)
EXTENDS RawPort, Payload, Pacing

VARIABLE part_of        \* "raw port", "payload", "pacing"

trafficVars == <<part_of, vars, payloadVars, pacingVars>>

\* A part that is not looked at has one initial state.
TrafficInit ==
    /\ part_of \in {"raw port", "payload", "pacing"}
    /\ Init /\ PayloadInit /\ PacingInit
    /\ part_of # "raw port" => flow = "ext" /\ mode = "spread"
    /\ part_of # "payload" => ~imix /\ vl = (CHOOSE v \in Vls : TRUE) /\ cached /\ stream = "own"
    /\ part_of # "pacing" => ~bucket /\ kind = "raw"

TrafficNext ==
    /\ UNCHANGED part_of
    /\ \/ part_of = "raw port" /\ Next /\ UNCHANGED <<payloadVars, pacingVars>>
       \/ part_of = "payload" /\ PayloadNext /\ UNCHANGED <<vars, pacingVars>>
       \/ part_of = "pacing" /\ PacingNext /\ UNCHANGED <<vars, payloadVars>>

TrafficSpec == TrafficInit /\ [][TrafficNext]_trafficVars
=============================================================================

------------------------------ MODULE Flicker ------------------------------
(***************************************************************************)
(* FlickerDetection (src/Flicker_Detection, main.cpp): it records the      *)
(* Velocity cards, the DVI channels, or both.  The halves share the        *)
(* command thread and the stop; a command goes to one half or to the       *)
(* other, and the stop takes one after the other, so that each half is     *)
(* taken by itself.                                                        *)
(***************************************************************************)
EXTENDS VelocityCapture, DviCapture

VARIABLE part_of        \* "velocity" or "dvi"

vars == <<part_of, captureVars, dviVars>>

\* Bound: what is recorded, whether it is the loopback test, and what may still go wrong
\* then: the operator's commands, or a call that fails.
Recordings ==
    {[inputs |-> {<<2, 1>>}, phase |-> "run", commands |-> 0, faults |-> MaxFaults],
     [inputs |-> InputsOf(1), phase |-> "run", commands |-> MaxCommands, faults |-> 0],
     [inputs |-> {<<2, 2>>}, phase |-> "loop", commands |-> MaxCommands, faults |-> 0]}

Record(r) ==
    /\ phase = r.phase /\ commands = r.commands /\ faults = r.faults
    /\ script = [t \in {"main", "stop"} |->
                   IF t = "main" THEN startFlickerDetection(r.inputs, r.phase = "loop") ELSE <<>>]

NoRecording ==
    /\ phase = "exit" /\ commands = 0 /\ faults = 0
    /\ script = [t \in {"main", "stop"} |-> <<>>]

Init ==
    /\ CaptureInit /\ DviInit
    /\ \/ /\ part_of = "velocity" /\ \E r \in Recordings : Record(r)
          /\ todo = [t \in {"task", "command"} |-> <<>>]
       \/ /\ part_of = "dvi" /\ NoRecording
          /\ todo = [t \in {"task", "command"} |-> IF t = "task" THEN <<Step("begin", 0)>> ELSE <<>>]

Next ==
    /\ UNCHANGED part_of
    /\ \/ part_of = "velocity" /\ CaptureNext /\ UNCHANGED dviVars
       \/ part_of = "dvi" /\ DviNext /\ UNCHANGED captureVars

Spec == Init /\ [][Next]_vars
=============================================================================

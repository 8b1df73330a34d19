---------------------------- MODULE TestStarter ----------------------------
(***************************************************************************)
(* The two programs that decide, before dpdk_app takes the NICs, whether a *)
(* unit is ready (Test_Starters/cmc, Test_Starters/vmc).  The one for CMC  *)
(* waits for a trigger packet.  The one for VMC collects reports of both   *)
(* sides of the unit, asks each for its power-on report and asks again     *)
(* every two seconds, judges what it has heard, and leaves the power-on    *)
(* reports in two files for dpdk_vmc.                                      *)
(*                                                                         *)
(* A report says what is the case at the unit, which does not change while *)
(* the program runs, unless it comes empty or too short.  Time is that the *)
(* deadline may be met, and a request be due, at every turn of the loop.   *)
(***************************************************************************)
EXTENDS Naturals, FiniteSets

CONSTANTS Required,     \* CBIT_REQUIRED_PER_TYPE
          Firmware,     \* versions that a unit can report
          MaxPoor       \* bound: reports that come empty or too short

Side == {"FLCS", "VS"}
CbitType == {"DTN_ES", "DTN_SW", "BM_ENG", "BM_FLAG"}
None == "none"

ASSUME StarterAssumption ==
    Required \in Nat \ {0} /\ MaxPoor \in Nat /\ None \notin Firmware

NoSwitch == [fw |-> None, linked |-> FALSE]

VARIABLES
    starter,    \* the program: phase, cbit_count, hm_data_t, and what it printed
    truth,      \* the unit: per side, the firmware of switch and end system, whether
                \* the ports of the switch are linked, and whether it has a fault
    asked,      \* sides whose unit has a request it has not answered
    answers,    \* sides whose response is on its way
    snapshot,   \* per side, /tmp/vmc_pbit_*.bin: "none", "old" (of an earlier run),
                \* "short", "new"
    poor,       \* how many reports came empty or too short
    \* history
    judged,     \* checks_pass was called
    mute        \* <<side, type>> for which a report was counted but too short to keep

starterVars == <<starter, truth, asked, answers, snapshot, poor, judged, mute>>

Fresh == [phase |-> "off", count |-> [s \in Side |-> [t \in CbitType |-> 0]],
          sw |-> [s \in Side |-> NoSwitch], es |-> [s \in Side |-> None],
          bm |-> [s \in Side |-> None], pbit |-> {}, result |-> None]

Unit == [sw : Firmware, es : Firmware, linked : BOOLEAN, fault : BOOLEAN]

\* The files of an earlier run may be there.
StarterInit(phases, files) ==
    /\ \E p \in phases : starter = [Fresh EXCEPT !.phase = p]
    /\ truth \in [Side -> Unit] /\ asked = {} /\ answers = {}
    /\ snapshot \in {[s \in Side |-> f] : f \in files}
    /\ poor = 0 /\ judged = FALSE /\ mute = {}

\* The program prints its result and ends; its memory is gone.
Result(r) == starter' = [Fresh EXCEPT !.result = r]

-----------------------------------------------------------------------------
(* CMC.                                                                    *)

\* A packet is the trigger when VLAN, VL-ID, length and text are right; any other
\* one changes nothing.
TriggerCmc ==
    /\ starter.phase = "trigger" /\ Result("OK")
    /\ UNCHANGED <<truth, asked, answers, snapshot, poor, judged, mute>>

-----------------------------------------------------------------------------
(* VMC: reports.                                                           *)

\* What a report that comes in this form leaves of the truth.
Heard(s, t) ==
    CASE t = "DTN_SW" -> [fw |-> truth[s].sw, linked |-> truth[s].linked]
      [] t = "DTN_ES" -> truth[s].es
      [] t = "BM_FLAG" -> IF truth[s].fault THEN "fault" ELSE "clean"
      [] OTHER -> None

\* A switch report that is short or empty is ignored; others of the four count, even
\* when they are too short to keep.
Counts(t, form) == t = "DTN_SW" => form = "full"

Keep(s, t, form) ==
    LET counted == [starter EXCEPT !.count[s][t] =
                       IF @ < Required THEN @ + 1 ELSE @]
    IN IF form # "full" THEN counted
       ELSE CASE t = "DTN_SW" -> [counted EXCEPT !.sw[s] = Heard(s, t)]
              [] t = "DTN_ES" -> [counted EXCEPT !.es[s] = Heard(s, t)]
              [] t = "BM_FLAG" -> [counted EXCEPT !.bm[s] = Heard(s, t)]
              [] OTHER -> counted

AllMet(st) == \A s \in Side : \A t \in CbitType : st.count[s][t] >= Required

\* One CBIT report, and the end of the first phase when it was the last one wanted.
ReceiveCbit(s, t, form) ==
    /\ starter.phase = "cbit" /\ Counts(t, form)
    /\ form # "full" => poor < MaxPoor
    /\ poor' = IF form = "full" THEN poor ELSE poor + 1
    /\ LET kept == Keep(s, t, form)
       IN starter' = [kept EXCEPT !.phase = IF AllMet(kept) THEN "pbit" ELSE @]
    /\ mute' = IF form = "full" THEN mute ELSE mute \cup {<<s, t>>}
    /\ UNCHANGED <<truth, asked, answers, snapshot, judged>>

-----------------------------------------------------------------------------
(* VMC: the power-on reports and the verdict.                              *)

\* The request goes to the sides that have not answered.
SendRequests ==
    /\ starter.phase = "pbit"
    /\ asked' = asked \cup (Side \ starter.pbit)
    /\ UNCHANGED <<starter, truth, answers, snapshot, poor, judged, mute>>

\* The unit answers a request; requests and answers may be lost.
Answer(s) ==
    /\ s \in asked /\ asked' = asked \ {s}
    /\ answers' \in {answers, answers \cup {s}}
    /\ UNCHANGED <<starter, truth, snapshot, poor, judged, mute>>

SwitchesAgree(st) ==
    /\ \A s \in Side : st.sw[s] # NoSwitch
    /\ st.sw["FLCS"].fw = st.sw["VS"].fw
\* Mutant: it is enough that one side has its ports linked.
PortsLinkedOnce(st) == \E s \in Side : st.sw[s].linked

PortsLinked(st) == \A s \in Side : st.sw[s].linked
EndSystemsAgree(st) == st.es["FLCS"] # None /\ st.es["FLCS"] = st.es["VS"]
ChecksPass(st) == SwitchesAgree(st) /\ PortsLinked(st) /\ EndSystemsAgree(st)

BmFaults(st) == {s \in Side : st.bm[s] = "fault"}

\* The file is written whole, or not opened and left as it was, or cut short.
WriteSnapshots ==
    /\ snapshot' \in [Side -> {"new", "old", "short", "none"}]
    /\ \A s \in Side : snapshot'[s] \in {"new", "short", snapshot[s]}

Verdict(st) ==
    /\ judged' = TRUE
    /\ \/ ~ChecksPass(st) /\ Result("TIMEOUT") /\ UNCHANGED snapshot
       \/ /\ ChecksPass(st) /\ WriteSnapshots
          /\ Result(IF BmFaults(st) = {} THEN "OK" ELSE "BM_FLAG_FAULT")

\* A response counts once; those of the wrong length or message id change nothing.
ReceivePbit(s) ==
    /\ starter.phase = "pbit" /\ s \in answers
    /\ LET got == [starter EXCEPT !.pbit = @ \cup {s}]
       IN IF got.pbit = Side THEN Verdict(got)
          ELSE starter' = got /\ UNCHANGED <<snapshot, judged>>
    /\ answers' = answers \ {s}
    /\ UNCHANGED <<truth, asked, poor, mute>>

\* now >= deadline, looked at on every turn, and a failing poll or socket.
GiveUp ==
    /\ starter.phase # "off"
    /\ \E r \in {"TIMEOUT", "ERROR"} : Result(r)
    /\ UNCHANGED <<truth, asked, answers, snapshot, poor, judged, mute>>

StarterNext ==
    \/ TriggerCmc \/ SendRequests \/ GiveUp
    \/ \E s \in Side :
          \/ Answer(s) \/ ReceivePbit(s)
          \/ \E t \in CbitType, form \in {"full", "short", "empty"} :
                (form = "empty" => t = "DTN_SW") /\ ReceiveCbit(s, t, form)

-----------------------------------------------------------------------------
Accepted == {"OK", "BM_FLAG_FAULT"}

Sound ==
    /\ truth["FLCS"].sw = truth["VS"].sw /\ truth["FLCS"].es = truth["VS"].es
    /\ \A s \in Side : truth[s].linked

Faulty == {s \in Side : truth[s].fault}

\* The verdict of the VMC starter is what the unit deserves, in whatever order its
\* reports come, repeat, or come empty: an accepted unit passes the three hard
\* checks on both sides, a fault is only missed on a side whose flag report came too
\* short, and a unit turned down by the checks fails one of them, or an end system
\* only sent reports too short to keep.
VerdictIsRight ==
    /\ judged /\ starter.result \in Accepted => Sound
    /\ judged /\ starter.result = "OK" =>
          \A s \in Faulty : <<s, "BM_FLAG">> \in mute
    /\ judged /\ starter.result = "BM_FLAG_FAULT" => Faulty # {}
    /\ judged /\ starter.result = "TIMEOUT" =>
          ~Sound \/ \E s \in Side : <<s, "DTN_ES">> \in mute
=============================================================================

----------------------------- MODULE VmcMonitor -----------------------------
(***************************************************************************)
(* The health monitor of dpdk_vmc (src/health_monitor/health_monitor.c):   *)
(* RX workers store the newest report of every kind and device in a slot;  *)
(* once a second the main thread goes through the slots, shows each and    *)
(* checks its temperatures, and after LIMIT checks in a row that found a   *)
(* sensor out of range it stops the test.                                  *)
(*                                                                         *)
(* The content of a report is the set of its sensors out of range; the     *)
(* power-on report has the mark of an earlier run or none.  The counters   *)
(* that the dashboard prints are left out, and with them the packets that  *)
(* only increment one (too short, of an unknown kind or VL-ID).            *)
(***************************************************************************)
EXTENDS TestStarter, Sequences, SequencesExt

CONSTANTS BmSensor,     \* the temperature fields of a BM ENGINEERING report,
          EsSensor,     \* of a DTN ES report,
          SwSensor,     \* and of a DTN SW report
          Watched,      \* bound: the kinds that come
          LIMIT         \* HM_TEMP_FAIL_STREAK_LIMIT

\* The mark of an empty slot names no sensor.
ASSUME MonitorAssumption ==
    /\ LIMIT \in Nat \ {0}
    /\ "no report" \notin BmSensor \cup EsSensor \cup SwSensor

Device == <<"VS", "FLCS">>
Kind == <<"pcs", "pbit", "bm_eng", "bm_flag", "dtn_es", "dtn_sw">>
Slot == [kind : Watched, device : Side]
NoReport == {"no report"}
NotStarted == 13
Ended == 14

\* The order in which the dashboard takes the slots, and the next one that may be filled
\* (0: none is left).
Order == [i \in 1..12 |-> [kind |-> Kind[(i + 1) \div 2], device |-> Device[((i - 1) % 2) + 1]]]
After(i) ==
    LET later == {j \in 1..12 : j > i /\ Order[j].kind \in Watched}
    IN IF later = {} THEN 0 ELSE Min(later)

SensorsOf(e) ==
    CASE e.kind = "bm_eng" -> BmSensor
      [] e.kind = "dtn_es" -> EsSensor
      [] e.kind = "dtn_sw" -> SwSensor
      [] OTHER -> {}
Sensor == UNION {{<<e, f>> : f \in SensorsOf(e)} : e \in Slot}

VARIABLES
    slot,       \* per kind and device, the newest report (NoReport: not updated)
    streak,     \* g_hm_temp_streaks
    at,         \* the slot the dashboard takes next; 0: the main thread sleeps,
                \* NotStarted, Ended: it has not begun, or has left its loop
    abort,      \* force_quit, set by the monitor
    \* history
    newest,     \* per slot, the newest report that came and was not empty
    found       \* per slot, what was newest at each of the last LIMIT looks

monitorVars == <<slot, streak, at, abort, newest, found>>

MonitorInit ==
    /\ slot = [e \in Slot |-> NoReport] /\ streak = [s \in Sensor |-> 0]
    /\ at = NotStarted /\ abort = FALSE
    /\ newest = slot /\ found = [e \in Slot |-> <<>>]

\* The files of the starter fill the slots of the power-on reports, unless they are
\* short; whose they are is not looked at.
Preload(e) ==
    IF e.kind = "pbit" /\ snapshot[e.device] \in {"old", "new"}
    THEN {snapshot[e.device]} \ {"new"} ELSE NoReport

StartMonitor ==
    /\ at = NotStarted
    /\ slot' = [e \in Slot |-> Preload(e)] /\ newest' = slot' /\ at' = 0
    /\ UNCHANGED <<streak, abort, found>>

-----------------------------------------------------------------------------
(* RX workers.                                                             *)

\* The reports of switch and end system have counters of their traffic; those with no
\* traffic are dropped.
Counted(e) == e.kind \in {"dtn_es", "dtn_sw"}
Stored(e, empty) == ~(empty /\ Counted(e))

HandlePacket(e, content, empty) ==
    /\ at \notin {NotStarted, Ended}
    /\ slot' = IF Stored(e, empty) THEN [slot EXCEPT ![e] = content] ELSE slot
    /\ newest' = IF empty THEN newest ELSE [newest EXCEPT ![e] = content]
    /\ UNCHANGED <<streak, at, abort, found>>

-----------------------------------------------------------------------------
(* The dashboard, in the main thread.                                      *)

Tick ==
    /\ at = 0
    /\ at' = IF abort THEN Ended ELSE After(0)
    /\ UNCHANGED <<slot, streak, abort, newest, found>>

\* Mutant: the counter is found by report and field alone.
StreakByField(e, f) == <<[e EXCEPT !.device = "VS"], f>>

\* A counter is found by device, report and field.
StreakOf(e, f) == <<e, f>>

\* hm_check_temp_value for every field of the report.
CheckTemps(e) ==
    LET next(f) == IF f \in slot[e] THEN streak[StreakOf(e, f)] + 1 ELSE 0
        counters == {StreakOf(e, f) : f \in SensorsOf(e)}
    IN /\ streak' = [s \in Sensor |-> IF s \in counters THEN next(s[2]) ELSE streak[s]]
       /\ abort' = (abort \/ \E f \in SensorsOf(e) : next(f) >= LIMIT)

LastLooks(seq) == IF Len(seq) > LIMIT THEN Tail(seq) ELSE seq

\* The slot is copied under its lock, shown, and checked, new or not.
Drain ==
    /\ at \in 1..12
    /\ LET e == Order[at]
       IN /\ IF slot[e] = NoReport THEN UNCHANGED <<streak, abort>> ELSE CheckTemps(e)
          /\ found' = IF newest[e] = NoReport THEN found
                      ELSE [found EXCEPT ![e] = LastLooks(Append(@, newest[e]))]
    /\ at' = After(at)
    /\ UNCHANGED <<slot, newest>>

MonitorNext ==
    \/ StartMonitor \/ Tick \/ Drain
    \/ \E e \in Slot : \E content \in SUBSET SensorsOf(e) :
          \E empty \in (IF content = {} /\ Counted(e) THEN BOOLEAN ELSE {FALSE}) :
             HandlePacket(e, content, empty)

-----------------------------------------------------------------------------
\* The monitor stops the test exactly when one sensor of one device was out of range
\* in the newest report it had at LIMIT looks in a row: sensors of the same name on
\* the two devices, reports that come between two looks, empty reports, and the
\* order of slots and packets make no difference.
StopsWhenHot ==
    abort <=> \E e \in Slot : \E f \in SensorsOf(e) :
        Len(found[e]) = LIMIT /\ \A i \in 1..LIMIT : f \in found[e][i]
=============================================================================

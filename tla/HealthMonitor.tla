--------------------------- MODULE HealthMonitor ---------------------------
(***************************************************************************)
(* The health monitor of the DTN test application                          *)
(* (dpdk/src/HealthMonitor/HealthMonitor.c): a thread that queries the     *)
(* device once a second and sorts six response packets by FPGA, the two    *)
(* checks it makes in the tenth cycle after the warm-up, the main thread   *)
(* that reports the end of the warm-up with plain stores and stops the     *)
(* monitor, and the network between.                                       *)
(*                                                                         *)
(* Only two of the five FPGA packets name their FPGA.  A packet with a     *)
(* mini header is given to the FPGA named last IN THIS CYCLE, and nothing  *)
(* relates a response to its query: one that comes after the timeout is    *)
(* read in the next cycle.                                                 *)
(*                                                                         *)
(* Left out: the contents of the packets but the 28 V status, the tables,  *)
(* foreign packets on the interface, the firmware verdict (printed only).  *)
(***************************************************************************)
EXTENDS Integers, Sequences, FiniteSets

CONSTANTS
    CheckCycle,   \* the cycle of the checks, counted from the warm-up (10)
    SeqLast,      \* the greatest sequence number (255)
    MaxLost,      \* bound: response packets the network loses
    MaxFailures   \* bound: queries that cannot be sent

ASSUME HealthAssumption ==
    /\ CheckCycle \in Nat /\ CheckCycle > 2 /\ SeqLast \in Nat \ {0}
    /\ MaxLost \in Nat /\ MaxFailures \in Nat

VARIABLES
    thread,        \* where the thread is
    cycle,         \* its struct health_cycle_data
    local,         \* post_warmup_cycle_count, loaded to be incremented
    sequence,      \* state->sequence
    notice,        \* warmup_complete, post_warmup_cycle_count, *_check_done
    power_check,   \* power_status_check_enabled (set before the thread runs)
    main,          \* where the main thread is
    running,       \* state->running
    stop_flag,     \* *g_stop_flag
    wire,          \* responses on their way or in the socket, in order
    late,          \* how many of them answer an earlier query
    mismatch,      \* the device's 28 V status is not the expected one
    lost, failures,  \* bounded counters
    delayed,       \* history: a response has missed its cycle
    counted,       \* history: cycles that reached the check after the notice
    slow           \* history: a cycle has begun during the notice

healthVars == <<thread, cycle, local, sequence, notice, power_check, main, running,
          stop_flag, wire, late, mismatch, lost, failures, delayed, counted, slow>>

envVars == <<mismatch, power_check>>
netVars == <<wire, late, lost, failures, delayed>>
mainVars == <<main, running>>

Fpga == {"assistant", "manager"}

\* the six responses to a query, in the order in which the device sends them
Answer == <<[of |-> "assistant", header |-> TRUE],
            [of |-> "assistant", header |-> FALSE],
            [of |-> "manager", header |-> TRUE],
            [of |-> "manager", header |-> FALSE],
            [of |-> "manager", header |-> FALSE],
            [of |-> "mcu", header |-> FALSE]>>

Expected == Len(Answer)

\* orphan: the packet that names the FPGA was lost from the same answer
Packet == [of : Fpga \cup {"mcu"}, header : BOOLEAN, orphan : BOOLEAN]

EmptyCycle == [last_fpga_type |-> "none", assistant |-> <<>>, manager |-> <<>>,
               mcu |-> FALSE, total |-> 0]

-----------------------------------------------------------------------------
HealthInit ==
    /\ thread = "head" /\ cycle = EmptyCycle /\ local = 0 /\ sequence = 1
    /\ notice = [warmup_complete |-> FALSE, count |-> 0, fw_done |-> FALSE,
                 power_done |-> FALSE]
    /\ power_check \in BOOLEAN
    /\ main = "warmup" /\ running = TRUE /\ stop_flag = FALSE
    /\ wire = <<>> /\ late = 0 /\ lost = 0 /\ failures = 0
    /\ mismatch \in BOOLEAN
    /\ delayed = FALSE /\ counted = 0 /\ slow = FALSE

-----------------------------------------------------------------------------
(* The monitor thread.                                                     *)

Leaving == stop_flag \/ ~running
Notifying == main \in {"count", "fw", "power"}

\* four stores take less than the second between two queries
Paced == ~(Notifying /\ slow)

\* what is left of the device's answer when the packets at `gone' are lost
Surviving(gone) ==
    LET mark(i) == [of |-> Answer[i].of, header |-> Answer[i].header,
                    orphan |-> \E j \in gone : /\ Answer[j].header
                                               /\ Answer[j].of = Answer[i].of]
        keep[i \in 0..Expected] ==
            IF i = 0 THEN <<>>
            ELSE IF i \in gone THEN keep[i - 1] ELSE Append(keep[i - 1], mark(i))
    IN keep[Expected]

\* the cycle data are cleared, the query is sent, and the device answers it
Query ==
    /\ thread = "head" /\ ~Leaving /\ Paced
    /\ cycle' = EmptyCycle /\ slow' = Notifying /\ thread' = "rx"
    /\ \E gone \in SUBSET (1..Expected) :
          /\ lost + Cardinality(gone) <= MaxLost
          /\ lost' = lost + Cardinality(gone)
          /\ wire' = wire \o Surviving(gone)
    /\ late' = Len(wire)
    /\ UNCHANGED <<local, sequence, notice, mainVars, stop_flag, failures, delayed,
                   counted, envVars>>

\* the query cannot be sent: the next attempt follows in 100 ms
QueryFails ==
    /\ thread = "head" /\ ~Leaving /\ Paced /\ failures < MaxFailures
    /\ failures' = failures + 1
    /\ cycle' = EmptyCycle /\ slow' = Notifying
    /\ UNCHANGED <<thread, local, sequence, notice, mainVars, stop_flag, wire, late,
                   lost, delayed, counted, envVars>>

Store(c, fpga, p) ==
    [c EXCEPT ![fpga] = Append(@, p), !.total = @ + 1]

\* mutant of Parse: the manager's header does not change last_fpga_type
ParseKeepsFirst(c, p) ==
    IF p.of = "mcu" THEN [c EXCEPT !.mcu = TRUE, !.total = @ + 1]
    ELSE IF p.header
    THEN [Store(c, p.of, p) EXCEPT
            !.last_fpga_type = IF @ = "none" THEN p.of ELSE @]
    ELSE IF c.last_fpga_type = "none" THEN c
    ELSE Store(c, c.last_fpga_type, p)

\* mutant of Parse: a packet that is ignored counts as a response
ParseCountsAll(c, p) ==
    IF p.of = "mcu" THEN [c EXCEPT !.mcu = TRUE, !.total = @ + 1]
    ELSE IF p.header THEN [Store(c, p.of, p) EXCEPT !.last_fpga_type = p.of]
    ELSE IF c.last_fpga_type = "none" THEN [c EXCEPT !.total = @ + 1]
    ELSE Store(c, c.last_fpga_type, p)

\* health_parse_response: a packet before any header is ignored
Parse(c, p) ==
    IF p.of = "mcu" THEN [c EXCEPT !.mcu = TRUE, !.total = @ + 1]
    ELSE IF p.header THEN [Store(c, p.of, p) EXCEPT !.last_fpga_type = p.of]
    ELSE IF c.last_fpga_type = "none" THEN c
    ELSE Store(c, c.last_fpga_type, p)

\* poll and recv return a response
Receive ==
    /\ thread = "rx" /\ cycle.total < Expected /\ wire # <<>>
    /\ cycle' = Parse(cycle, Head(wire))
    /\ wire' = Tail(wire)
    /\ late' = IF late > 0 THEN late - 1 ELSE 0
    /\ UNCHANGED <<thread, local, sequence, notice, mainVars, stop_flag, lost, failures,
                   delayed, counted, slow, envVars>>

\* all six, or the timeout; a response that is not there by then arrives before
\* the timeout of the next cycle
ReceiveEnds ==
    /\ thread = "rx" /\ thread' = "fw"
    /\ cycle.total = Expected \/ late = 0
    /\ delayed' = (delayed \/ (cycle.total < Expected /\ wire # <<>>))
    /\ UNCHANGED <<cycle, local, sequence, notice, mainVars, stop_flag, wire, late,
                   lost, failures, counted, slow, envVars>>

\* the firmware check: post_warmup_cycle_count is loaded ...
FwCheck ==
    /\ thread = "fw"
    /\ IF notice.warmup_complete /\ ~notice.fw_done
       THEN /\ thread' = "fw_add" /\ local' = notice.count
            /\ counted' = IF Notifying \/ counted = CheckCycle THEN counted
                          ELSE counted + 1
       ELSE thread' = "power" /\ UNCHANGED <<local, counted>>
    /\ UNCHANGED <<cycle, sequence, notice, mainVars, stop_flag, netVars, slow,
                   envVars>>

\* mutant of FwAdd: one cycle late
FwAddLate ==
    /\ thread = "fw_add" /\ thread' = "power" /\ local' = 0
    /\ notice' = [notice EXCEPT !.count = local + 1,
                                !.fw_done = @ \/ local + 1 > CheckCycle]
    /\ UNCHANGED <<cycle, sequence, mainVars, stop_flag, netVars, counted, slow,
                   envVars>>

\* ... and stored; in the tenth cycle the check is made, once
FwAdd ==
    /\ thread = "fw_add" /\ thread' = "power" /\ local' = 0
    /\ notice' = [notice EXCEPT !.count = local + 1,
                                !.fw_done = @ \/ local + 1 >= CheckCycle]
    /\ UNCHANGED <<cycle, sequence, mainVars, stop_flag, netVars, counted, slow,
                   envVars>>

\* mutant of PowerDue: only as long as the firmware check is open
PowerDueInFwCheck ==
    /\ notice.warmup_complete /\ power_check /\ ~notice.power_done
    /\ ~notice.fw_done /\ notice.count >= CheckCycle

PowerDue ==
    /\ notice.warmup_complete /\ power_check /\ ~notice.power_done
    /\ notice.count >= CheckCycle

\* the 28 V check: only a mismatch stops the test, a missing response does not
PowerCheck ==
    /\ thread = "power" /\ thread' = "stats"
    /\ notice' = [notice EXCEPT !.power_done = @ \/ PowerDue]
    /\ stop_flag' = (stop_flag \/ (PowerDue /\ cycle.mcu /\ mismatch))
    /\ UNCHANGED <<cycle, local, sequence, mainVars, netVars, counted, slow, envVars>>

\* tables, statistics, the next sequence number, the rest of the second
Statistics ==
    /\ thread = "stats" /\ thread' = "head"
    /\ sequence' = IF sequence >= SeqLast THEN 1 ELSE sequence + 1
    /\ UNCHANGED <<cycle, local, notice, mainVars, stop_flag, netVars, counted, slow,
                   envVars>>

ThreadExit ==
    /\ thread = "head" /\ Leaving /\ thread' = "exited"
    /\ UNCHANGED <<cycle, local, sequence, notice, mainVars, stop_flag, netVars,
                   counted, slow, envVars>>

-----------------------------------------------------------------------------
(* The main thread.                                                        *)

\* health_monitor_set_warmup_complete: four stores, in this order
Notify ==
    /\ \/ /\ main = "warmup" /\ main' = "count"
          /\ notice' = [notice EXCEPT !.warmup_complete = TRUE]
       \/ /\ main = "count" /\ main' = "fw"
          /\ notice' = [notice EXCEPT !.count = 0]
       \/ /\ main = "fw" /\ main' = "power"
          /\ notice' = [notice EXCEPT !.fw_done = FALSE]
       \/ /\ main = "power" /\ main' = "test"
          /\ notice' = [notice EXCEPT !.power_done = FALSE]
    /\ slow' = (slow /\ main' # "test")
    /\ UNCHANGED <<thread, cycle, local, sequence, running, stop_flag, netVars, counted,
                   envVars>>

\* Ctrl+C, or the end of the test
Quit ==
    /\ ~stop_flag /\ stop_flag' = TRUE
    /\ UNCHANGED <<thread, cycle, local, sequence, notice, mainVars, netVars, counted,
                   slow, envVars>>

\* stop_health_monitor: clear the flag ...
StopMonitor ==
    /\ stop_flag /\ main \in {"warmup", "test"}
    /\ running' = FALSE /\ main' = "join"
    /\ UNCHANGED <<thread, cycle, local, sequence, notice, stop_flag, netVars, counted,
                   slow, envVars>>

\* ... and join
Join ==
    /\ main = "join" /\ thread = "exited" /\ main' = "done"
    /\ UNCHANGED <<thread, cycle, local, sequence, notice, running, stop_flag, netVars,
                   counted, slow, envVars>>

-----------------------------------------------------------------------------
Thread ==
    \/ Query \/ QueryFails \/ Receive \/ ReceiveEnds \/ FwCheck \/ FwAdd
    \/ PowerCheck \/ Statistics \/ ThreadExit

Main == Notify \/ StopMonitor \/ Join

HealthNext == Thread \/ Main \/ Quit

-----------------------------------------------------------------------------
(* Properties.                                                             *)

\* A packet is shown under the FPGA that sent it, however late it comes and
\* whatever else is lost, as long as the packet that names its FPGA in the same
\* answer was not lost (health_parse_response, last_fpga_type).
OwnPackets ==
    \A f \in Fpga : \A i \in 1..Len(cycle[f]) :
        cycle[f][i].of = f \/ cycle[f][i].orphan

\* Packets are shown under their own FPGA, and a cycle that counts as complete holds
\* every one of the six packets once, in any mixture of two answers that delays may
\* cause, when none was lost: six is a count of packets, and nothing else tells
\* that they are six different ones.
CompleteIsWhole ==
    /\ OwnPackets
    /\ lost = 0 /\ cycle.total = Expected =>
        /\ cycle.mcu
        /\ \A f \in Fpga :
              /\ Len(cycle[f]) = Cardinality({i \in 1..Expected : Answer[i].of = f})
              /\ Cardinality({i \in 1..Len(cycle[f]) : cycle[f][i].header}) = 1

\* The checks come in the tenth cycle after the notice, never later, and at most
\* two cycles early although the thread counts while the notice resets the
\* counter (the increment may overwrite the reset).
ChecksOnTime ==
    thread \in {"power", "stats", "head"} =>
        /\ counted = CheckCycle => notice.fw_done
        /\ notice.fw_done => counted >= CheckCycle - 2

\* The 28 V check finds a mismatch and stops the test, unless a response was
\* lost or late: the check is made once, with the packet of its own cycle.
MismatchFound ==
    notice.power_done /\ mismatch => stop_flag \/ lost > 0 \/ delayed

\* What the monitor concludes from a cycle rests on that cycle's responses, whichever
\* of them come late or not at all.
CyclesAreSound == CompleteIsWhole /\ MismatchFound

\* After the warm-up both checks are made or the test ends, whatever is lost.
ChecksAreMade ==
    main = "test" ~>
        stop_flag \/ (notice.fw_done /\ (power_check => notice.power_done))

=============================================================================

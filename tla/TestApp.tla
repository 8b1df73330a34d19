------------------------------ MODULE TestApp -------------------------------
(***************************************************************************)
(* The life of the four test applications (dpdk, dpdk_cmc, dpdk_vmc and    *)
(* dpdk_hsn): what the main thread of each acquires, which threads it      *)
(* starts, its one-second loop, and how a signal ends it while all of them *)
(* run.  With it the two things that happen in the loop when the operator  *)
(* stops the test: the summary snapshot of the DTN application             *)
(* (ShutdownSnapshot.c) and the MMMS hand-over of the CMC application      *)
(* (MmmsHandover), which has a signal of its own.                          *)
(*                                                                         *)
(* Each main thread is a script of steps; a step that fails replaces the   *)
(* rest of the script.  A thread class stands for all its threads.         *)
(*                                                                         *)
(* Left out: the daemon fork, the printed text, the latency tests (off in  *)
(* the shipped configuration), what the workers do with packets.  A signal *)
(* before the handlers are installed kills the process.                    *)
(***************************************************************************)
EXTENDS MmmsHandover

CONSTANTS
    WarmUp,      \* seconds of warm-up (120)
    MaxSeconds,  \* bound: seconds a DTN test lasts
    MaxLost      \* bound: packets of the device lost

ASSUME AppAssumption ==
    WarmUp \in Nat /\ MaxSeconds \in Nat /\ MaxLost \in Nat

VARIABLES
    app, ate,      \* the application, and whether it runs in ATE mode
    pc, todo,      \* the main thread: place, and the steps left
    on,            \* the optional parts that were initialised
    held,          \* what is allocated
    life,          \* the threads
    force_quit, stop_normal_tx, ptp_workers_running,
    launch_failed, \* history: start_txrx_workers failed
    tx,            \* HSN: [at, drains]
    test,          \* DTN: loop_count, test_time, warmup_complete, and (history)
                   \* the second in which the first signal came
    snap,          \* ShutdownSnapshot.c: [slot, frozen, dump]
    mmms,          \* MmmsHandler.c
    device         \* the MMMS device: [on, next, lost]

appvars == <<app, ate>>
mainvars == <<pc, todo>>
resources == <<on, held, life>>
flags == <<force_quit, stop_normal_tx, ptp_workers_running>>
loopvars == <<tx, test, snap, mmms, device>>
vars == <<app, ate, pc, todo, on, held, life, force_quit, stop_normal_tx,
          ptp_workers_running, launch_failed, tx, test, snap, mmms, device>>

App == {"dtn", "cmc", "vmc", "hsn"}
Thread == {"rx", "tx", "ext", "raw", "health", "ptp", "psu"}
Resource == {"eal", "ports", "prbs", "raw", "health", "ptp", "psu"}

\* what a running thread reads or writes
Uses(t) ==
    CASE t \in {"rx"}       -> {"eal", "ports", "prbs"} \cup (on \cap {"raw"})
      [] t \in {"tx", "ext"} -> {"eal", "ports", "prbs"}
      [] t = "raw"          -> {"raw", "prbs"}
      [] t = "health"       -> {"health"} \cup (on \cap {"psu"})
      [] t = "ptp"          -> {"ports", "eal"}
                               \cup (IF app = "dtn" THEN {"ptp"} ELSE {})
      [] t = "psu"          -> {"psu"}

-----------------------------------------------------------------------------
(* The scripts.                                                            *)

DtnSetUp == <<"eal", "ports", "prbs", "queues">>
DtnWorkers == <<"rawInit", "extInit", "rx", "tx", "rawRun", "health", "extRun", "ptp",
                "psu", "loop">>
DtnStart == DtnSetUp \o DtnWorkers
CmcStart == <<"eal", "ports", "prbs", "queues", "rx", "tx", "psu", "loop">>
VmcStart == <<"eal", "ports", "prbs", "queues", "ptp", "rx", "tx", "psu",
              "loop">>
HsnStart == <<"eal", "ports", "prbs", "queues", "rx", "tx", "loop">>

FreeAll == <<"prbsFree", "portsFree", "ealFree", "exit">>
DtnStop == <<"dump", "ptpStop", "ptpJoin", "healthJoin", "psuStop", "rawJoin",
             "flush", "join", "ptpFree", "healthFree", "rawFree">> \o FreeAll
CmcStop == <<"psuStop", "flush", "join", "mmms">> \o FreeAll
VmcStop == <<"ptpStop", "ptpJoin", "psuStop", "flush", "join">> \o FreeAll
HsnStop == <<"join", "portsFree", "ealFree", "exit">>

StartOf == [dtn |-> DtnStart, cmc |-> CmcStart, vmc |-> VmcStart,
            hsn |-> HsnStart]
StopOf == [dtn |-> DtnStop, cmc |-> CmcStop, vmc |-> VmcStop, hsn |-> HsnStop]

\* what main does when a step fails
OnFailure(step) ==
    CASE step = "eal" -> <<"exit">>
      [] step = "ports" -> <<"ealFree", "exit">>
      [] step = "queues" -> IF app = "hsn" THEN <<"ealFree", "exit">>
                                           ELSE FreeAll
      [] step \in {"rx", "tx"} -> IF app = "hsn" THEN HsnStop ELSE FreeAll

-----------------------------------------------------------------------------
Init ==
    /\ app \in App
    /\ ate \in (IF app = "dtn" THEN BOOLEAN ELSE {FALSE})
    /\ pc = "run" /\ todo = StartOf[app]
    /\ on = {} /\ held = {}
    /\ life = [t \in Thread |-> "none"]
    /\ force_quit = FALSE /\ stop_normal_tx = FALSE
    /\ ptp_workers_running = FALSE
    /\ launch_failed = FALSE
    /\ tx = [at |-> "fill", drains |-> TRUE]
    /\ test = [sec |-> 0, time |-> 0, warm |-> FALSE, asked |-> 0]
    /\ snap = [slot |-> [dtn |-> 0, ptp |-> 0, health |-> 0],
               frozen |-> FALSE, dump |-> <<>>]
    /\ mmms = Initialized
    /\ device = [on |-> FALSE, next |-> 1, lost |-> 0]

(* Steps of the main thread.                                               *)

At(step) == pc = "run" /\ todo # <<>> /\ Head(todo) = step
Done == todo' = Tail(todo) /\ pc' = pc
Fail(step) == todo' = OnFailure(step) /\ pc' = pc
KeepThreads == UNCHANGED <<life, launch_failed>>

\* initialize_eal, initialize_ports, init_port_txrx or hsn_setup_port of every port
Acquire(step) ==
    /\ At(step)
    /\ \/ Done /\ held' = held \cup ({step} \cap Resource)
       \/ Fail(step) /\ UNCHANGED held
    /\ UNCHANGED <<appvars, on, flags, loopvars>> /\ KeepThreads

InitializeEal == Acquire("eal")
InitializePorts == Acquire("ports")
InitPortTxrx == app # "hsn" /\ Acquire("queues")
HsnSetupPort == app = "hsn" /\ Acquire("queues")

InitPrbsCache ==
    /\ At("prbs") /\ Done
    /\ held' = held \cup {"prbs"}
    /\ UNCHANGED <<appvars, on, flags, loopvars>> /\ KeepThreads

\* init_raw_socket_ports: a failure is a warning
InitRawSocketPorts ==
    /\ At("rawInit") /\ Done
    /\ \/ on' = on \cup {"raw"} /\ held' = held \cup {"raw"}
       \/ UNCHANGED <<on, held>>
    /\ UNCHANGED <<appvars, flags, loopvars>> /\ KeepThreads

\* dpdk_ext_tx_init: not in ATE mode, a failure is a warning
ExtTxInit ==
    /\ At("extInit") /\ Done
    /\ \/ ~ate /\ on' = on \cup {"ext"}
       \/ UNCHANGED on
    /\ UNCHANGED <<appvars, held, flags, loopvars>> /\ KeepThreads

\* start_txrx_workers: the RX lcores, then the TX lcores.  A failure leaves
\* those already launched running; the HSN application stops them first
LaunchWorkers(t) ==
    /\ At(t)
    /\ \/ /\ Done
          /\ life' = [life EXCEPT ![t] = "running"]
          /\ UNCHANGED <<force_quit, launch_failed>>
       \/ /\ Fail(t)
          /\ launch_failed' = TRUE
          /\ force_quit' = (force_quit \/ app = "hsn")
          /\ UNCHANGED life
    /\ UNCHANGED <<appvars, on, held, stop_normal_tx, ptp_workers_running,
                   loopvars>>

LaunchRx == LaunchWorkers("rx")
LaunchTx == LaunchWorkers("tx")

\* start_raw_socket_workers: when it fails part of the way its threads run
\* on and main forgets the ports
StartRawSocketWorkers ==
    /\ At("rawRun") /\ Done
    /\ \/ "raw" \notin on /\ UNCHANGED <<on, life>>
       \/ "raw" \in on /\ life' = [life EXCEPT !["raw"] = "running"]
                       /\ on' \in {on, on \ {"raw"}}
       \/ "raw" \in on /\ on' = on \ {"raw"} /\ UNCHANGED life
    /\ UNCHANGED <<appvars, held, flags, launch_failed, loopvars>>

\* init_health_monitor and start_health_monitor, either may fail
StartHealthMonitor ==
    /\ At("health") /\ Done
    /\ \/ UNCHANGED <<on, held, life>>
       \/ ~ate /\ on' = on \cup {"health"} /\ held' = held \cup {"health"}
               /\ life' \in {life, [life EXCEPT !["health"] = "running"]}
    /\ UNCHANGED <<appvars, flags, launch_failed, loopvars>>

\* dpdk_ext_tx_start_workers: lcores of the ports initialised
StartExtTxWorkers ==
    /\ At("extRun") /\ Done
    /\ \/ "ext" \in on /\ life' = [life EXCEPT !["ext"] = "running"]
       \/ UNCHANGED life
    /\ UNCHANGED <<appvars, on, held, flags, launch_failed, loopvars>>

\* ptp_init and ptp_start, between them the sessions (DTN); the ptp_init of VMC is both
PtpInit == on' = on \cup {"ptp"} /\ held' = held \cup {"ptp"}
PtpStart == ptp_workers_running' = TRUE /\ life' = [life EXCEPT !["ptp"] = "running"]

StartPtp ==
    /\ At("ptp") /\ Done
    /\ \/ UNCHANGED <<on, held, life, ptp_workers_running>>
       \/ ~ate /\ PtpInit /\ PtpStart
    /\ UNCHANGED <<appvars, force_quit, stop_normal_tx, launch_failed,
                   loopvars>>

\* psu_telem_init and psu_telem_start
StartPsuTelemetry ==
    /\ At("psu") /\ Done
    /\ \/ UNCHANGED <<on, held, life>>
       \/ on' = on \cup {"psu"} /\ held' = held \cup {"psu"}
          /\ life' \in {life, [life EXCEPT !["psu"] = "running"]}
    /\ UNCHANGED <<appvars, flags, launch_failed, loopvars>>

\* while (!force_quit)
NextSecond ==
    IF force_quit THEN pc' = "run" /\ todo' = StopOf[app]
                  ELSE pc' = "sleep" /\ todo' = <<>>

EnterLoop ==
    /\ At("loop") /\ NextSecond
    /\ UNCHANGED <<appvars, resources, flags, launch_failed, loopvars>>

-----------------------------------------------------------------------------
(* The loop of the DTN application, and the snapshot.                      *)

\* sleep(1) returns: freeze, count, and the reset at the end of the warm-up
WakeWith(frozen) ==
    /\ app = "dtn" /\ pc = "sleep" /\ (test.sec < MaxSeconds \/ force_quit)
    /\ snap' = [snap EXCEPT !.frozen = frozen]
    /\ IF test.sec + 1 = WarmUp /\ ~test.warm
       THEN /\ test' = [test EXCEPT !.sec = @ + 1, !.warm = TRUE]
            /\ NextSecond
       ELSE /\ test' = [test EXCEPT !.sec = @ + 1,
                                    !.time = IF test.warm THEN @ + 1 ELSE @]
            /\ pc' = "render" /\ UNCHANGED todo
    /\ UNCHANGED <<appvars, resources, flags, launch_failed, tx, mmms, device>>

\* mutant of Wake: the snapshot is not frozen
WakeUnfrozen == WakeWith(snap.frozen)

Wake == WakeWith(snap.frozen \/ force_quit)

\* shutdown_snapshot_store: nothing once frozen
Store(slot) ==
    IF snap.frozen THEN snap
    ELSE [snap EXCEPT !.slot[slot] = test.sec]

\* helper_print_stats, whose text is stored
RenderDtn ==
    /\ pc = "render"
    /\ snap' = Store("dtn")
    /\ pc' = "renderPtp"
    /\ UNCHANGED <<appvars, todo, resources, flags, launch_failed, tx, test,
                   mmms, device>>

\* ptp_print_stats, stored while PTP is active; then the next second
RenderPtp ==
    /\ pc = "renderPtp"
    /\ snap' = IF ate THEN snap ELSE Store("ptp")
    /\ NextSecond
    /\ UNCHANGED <<appvars, resources, flags, launch_failed, tx, test, mmms,
                   device>>

\* the health monitor stores its tables whenever it printed them
StoreHealth ==
    /\ life["health"] = "running" /\ test.sec > 0
    /\ snap' = Store("health")
    /\ UNCHANGED <<appvars, mainvars, resources, flags, launch_failed, tx,
                   test, mmms, device>>

\* shutdown_snapshot_dump, with the note of main
Dump ==
    /\ At("dump") /\ Done
    /\ snap' = [snap EXCEPT !.dump =
                   <<[slot |-> snap.slot, note |-> test.sec]>>]
    /\ UNCHANGED <<appvars, resources, flags, launch_failed, tx, test, mmms,
                   device>>

-----------------------------------------------------------------------------
(* The loop of the other applications, and the hand-over.                  *)

\* VMC, HSN: hm_print_dashboard of the VMC may ask for the end (temperature)
Second ==
    /\ app \in {"vmc", "hsn"} /\ pc = "sleep"
    /\ force_quit' \in (IF app = "vmc" THEN {force_quit, TRUE}
                                       ELSE {force_quit})
    /\ IF force_quit' THEN pc' = "run" /\ todo' = StopOf[app]
                      ELSE UNCHANGED mainvars
    /\ UNCHANGED <<appvars, resources, stop_normal_tx, ptp_workers_running,
                   launch_failed, loopvars>>

\* CMC: sleep(1) returns; armed_for counts the seconds since the trigger
CmcWake ==
    /\ app = "cmc" /\ pc = "sleep"
    /\ mmms' = [mmms EXCEPT !.armed_for =
                   IF mmms.state = "ARMED" /\ @ < FirstPacketTimeout
                   THEN @ + 1 ELSE @]
    /\ IF ~stop_normal_tx THEN NextSecond
       ELSE /\ pc' = IF device.on THEN "check" ELSE "trigger"
            /\ UNCHANGED todo
    /\ UNCHANGED <<appvars, resources, flags, launch_failed, tx, test, snap,
                   device>>

\* force_quit = true; break
Quit == force_quit' = TRUE /\ pc' = "run" /\ todo' = CmcStop

\* mmms_send_trigger: the burst.  It may fail, or the packet may be lost
SendTrigger ==
    /\ pc = "trigger"
    /\ \/ /\ Quit /\ UNCHANGED device
       \/ /\ \/ device' = [device EXCEPT !.on = TRUE]
             \/ device' = [device EXCEPT !.on = TRUE,
                                         !.next = Len(Stream) + 1]
          /\ pc' = "arm" /\ UNCHANGED <<todo, force_quit>>
    /\ UNCHANGED <<appvars, resources, stop_normal_tx, ptp_workers_running,
                   launch_failed, tx, test, snap, mmms>>

\* mmms_send_trigger: the state, after the packet left
ArmHandover ==
    /\ pc = "arm"
    /\ mmms' = Arm(mmms)
    /\ pc' = "check"
    /\ UNCHANGED <<appvars, todo, resources, flags, launch_failed, tx, test,
                   snap, device>>

\* mmms_check_timeout: the test, with the RX worker running
CheckTimeout ==
    /\ pc = "check"
    /\ pc' = IF TimeoutSeen(mmms) THEN "timeout" ELSE "poll"
    /\ UNCHANGED <<appvars, todo, resources, flags, launch_failed, loopvars>>

\* ... and the store
DeclareTimeout ==
    /\ pc = "timeout"
    /\ mmms' = StoreTimeout(mmms)
    /\ pc' = "poll"
    /\ UNCHANGED <<appvars, todo, resources, flags, launch_failed, tx, test,
                   snap, device>>

\* mmms_is_done ends the loop
PollHandover ==
    /\ pc = "poll"
    /\ IF mmms_is_done(mmms) THEN Quit
                             ELSE NextSecond /\ UNCHANGED force_quit
    /\ UNCHANGED <<appvars, resources, stop_normal_tx, ptp_workers_running,
                   launch_failed, loopvars>>

-----------------------------------------------------------------------------
(* The end.                                                                *)

\* mutant of StopPtp: the workers are joined without being told
StopPtpSilently ==
    /\ At("ptpStop") /\ Done
    /\ UNCHANGED <<appvars, resources, flags, launch_failed, loopvars>>

\* ptp_stop: the flag, which is the only one its workers look at
StopPtp ==
    /\ At("ptpStop") /\ Done
    /\ ptp_workers_running' = FALSE
    /\ UNCHANGED <<appvars, resources, force_quit, stop_normal_tx,
                   launch_failed, loopvars>>

Joined(t) == life[t] # "running"

\* mutant of Join: main does not wait for the lcores
JoinNothing(step, threads) ==
    /\ At(step) /\ Done
    /\ UNCHANGED <<appvars, resources, flags, launch_failed, loopvars>>

\* main waits for threads that ended
Join(step, threads) ==
    /\ At(step) /\ Done
    /\ \A t \in threads : Joined(t)
    /\ UNCHANGED <<appvars, resources, flags, launch_failed, loopvars>>

JoinPtp == Join("ptpJoin", {"ptp"})
JoinHealth == Join("healthJoin", {"health"})

\* stop_raw_socket_workers, only of ports main still knows
JoinRaw == Join("rawJoin", IF "raw" \in on THEN {"raw"} ELSE {})

\* rte_eal_mp_wait_lcore
WaitLcores == Join("join", {"rx", "tx", "ext"})

\* sleep(15): a thread that looks at force_quit many times a second ended
Flush == Join("flush", {"raw"})

\* psu_telem_stop: joins the listener, closes the socket, frees the lock
StopPsuTelemetry ==
    /\ At("psuStop") /\ Done /\ Joined("psu")
    /\ held' = held \ {"psu"} /\ on' = on \ {"psu"}
    /\ UNCHANGED <<appvars, life, flags, launch_failed, loopvars>>

\* mmms_finalize
FinalizeHandover ==
    /\ At("mmms") /\ Done
    /\ mmms' = Finalize(mmms)
    /\ UNCHANGED <<appvars, resources, flags, launch_failed, tx, test, snap,
                   device>>

Free(step, r) ==
    /\ At(step) /\ Done
    /\ held' = held \ {r}
    /\ UNCHANGED <<appvars, on, life, flags, launch_failed, loopvars>>

CleanupPtp == Free("ptpFree", "ptp")
CleanupHealth == Free("healthFree", "health")
CleanupPrbs == Free("prbsFree", "prbs")
CleanupPorts == Free("portsFree", "ports")
CleanupEal == Free("ealFree", "eal")

\* cleanup_raw_socket_ports, only of ports main still knows
CleanupRaw == Free("rawFree", IF "raw" \in on THEN "raw" ELSE "none")

Exit ==
    /\ At("exit")
    /\ pc' = "exited" /\ todo' = <<>>
    /\ UNCHANGED <<appvars, resources, flags, launch_failed, loopvars>>

Main ==
    \/ InitializeEal \/ InitializePorts \/ InitPortTxrx \/ HsnSetupPort
    \/ InitPrbsCache \/ InitRawSocketPorts \/ ExtTxInit \/ LaunchRx \/ LaunchTx
    \/ StartRawSocketWorkers \/ StartHealthMonitor
    \/ StartExtTxWorkers \/ StartPtp \/ StartPsuTelemetry \/ EnterLoop
    \/ Wake \/ RenderDtn \/ RenderPtp \/ Dump \/ Second
    \/ CmcWake \/ SendTrigger \/ ArmHandover \/ CheckTimeout
    \/ DeclareTimeout \/ PollHandover
    \/ StopPtp \/ JoinPtp \/ JoinHealth \/ JoinRaw \/ WaitLcores \/ Flush
    \/ StopPsuTelemetry \/ FinalizeHandover \/ CleanupPtp \/ CleanupHealth
    \/ CleanupPrbs \/ CleanupPorts \/ CleanupEal \/ CleanupRaw \/ Exit

-----------------------------------------------------------------------------
(* The threads, the device and the operator.                               *)

\* the loop condition of a thread of the class is false
LoopEnds(t) ==
    CASE t = "ptp" -> ~ptp_workers_running
      [] t = "tx"  -> force_quit /\ tx.at = "fill"
      [] OTHER     -> force_quit

Leave(t) ==
    /\ life[t] = "running" /\ LoopEnds(t)
    /\ life' = [life EXCEPT ![t] = "ended"]
    /\ UNCHANGED <<appvars, mainvars, on, held, flags, launch_failed,
                   loopvars>>

\* listener_thread_func: recvfrom fails for good
ListenerFails ==
    /\ life["psu"] = "running"
    /\ life' = [life EXCEPT !["psu"] = "ended"]
    /\ UNCHANGED <<appvars, mainvars, on, held, flags, launch_failed,
                   loopvars>>

\* hsn_tx_worker: a burst is built ...
HsnBuild ==
    /\ app = "hsn" /\ life["tx"] = "running" /\ tx.at = "fill" /\ ~force_quit
    /\ tx' = [tx EXCEPT !.at = "push"]
    /\ UNCHANGED <<appvars, mainvars, resources, flags, launch_failed, test,
                   snap, mmms, device>>

\* ... and pushed until the NIC took all of it, whatever force_quit says
HsnPush ==
    /\ tx.at = "push" /\ tx.drains
    /\ tx' = [tx EXCEPT !.at = "fill"]
    /\ UNCHANGED <<appvars, mainvars, resources, flags, launch_failed, test,
                   snap, mmms, device>>

\* the NIC stops taking packets (link down, switch paused)
QueueBlocks ==
    /\ app = "hsn" /\ tx.drains /\ life["tx"] = "running"
    /\ tx' = [tx EXCEPT !.drains = FALSE]
    /\ UNCHANGED <<appvars, mainvars, resources, flags, launch_failed, test,
                   snap, mmms, device>>

\* a packet of the device reaches the RX worker, which hands it over
DeviceDelivers ==
    /\ device.on /\ device.next \in Packet /\ life["rx"] = "running"
    /\ \E name \in (IF Stream[device.next] = "start"
                    THEN {"opened", "failed", "rejected"} ELSE {"none"}) :
           mmms' = HandlePacket(mmms, device.next, name)
    /\ device' = [device EXCEPT !.next = @ + 1]
    /\ UNCHANGED <<appvars, mainvars, resources, flags, launch_failed, tx,
                   test, snap>>

DeviceLoses ==
    /\ device.on /\ device.next \in Packet /\ device.lost < MaxLost
    /\ device' = [device EXCEPT !.next = @ + 1, !.lost = @ + 1]
    /\ UNCHANGED <<appvars, mainvars, resources, flags, launch_failed, tx,
                   test, snap, mmms>>

\* signal_handler; mmms_aware_signal_handler of the CMC application.  The
\* second in which the first one came is recorded
Signal ==
    /\ "eal" \in held /\ ~force_quit
    /\ IF app = "cmc" /\ ~stop_normal_tx
       THEN stop_normal_tx' = TRUE /\ UNCHANGED force_quit
       ELSE force_quit' = TRUE /\ UNCHANGED stop_normal_tx
    /\ test' = [test EXCEPT !.asked = test.sec]
    /\ UNCHANGED <<appvars, mainvars, resources, ptp_workers_running,
                   launch_failed, tx, snap, mmms, device>>

Next ==
    \/ Main
    \/ \E t \in Thread : Leave(t)
    \/ ListenerFails \/ StoreHealth \/ HsnBuild \/ HsnPush \/ QueueBlocks
    \/ DeviceDelivers \/ DeviceLoses \/ Signal

Spec == Init /\ [][Next]_vars

\* the threads are scheduled, and a packet of the device arrives or is lost
FairSpec ==
    /\ Spec
    /\ WF_vars(Main)
    /\ \A t \in Thread : WF_vars(Leave(t))
    /\ WF_vars(HsnPush)
    /\ WF_vars(DeviceDelivers \/ DeviceLoses)

-----------------------------------------------------------------------------
(* Properties.                                                             *)

\* No thread runs on after what it uses was freed: DPDK ports and EAL, the
\* PRBS cache, the raw-socket ports, the PTP context, the lock of the PSU
\* telemetry.  In three of the four applications a failed launch is the
\* exception (main.c:459 frees under the lcores already launched); the HSN
\* application ends them first.
NothingFreedInUse ==
    (launch_failed => app = "hsn") =>
        \A t \in Thread : life[t] = "running" => Uses(t) \subseteq held

\* The summary file shows the second in which the stop was requested or the
\* one before it, its DTN and PTP tables are of the same second, no table is
\* of a later one, and the second its note names is the next at most, but
\* for the second that ended the warm-up, which prints no table
\* (ShutdownSnapshot.c, main.c:630-743).
SummaryIsTheLastSecond ==
    snap.dump # <<>> =>
        LET d == snap.dump[1]
            skipped == IF WarmUp \in (d.slot.dtn + 1)..d.note THEN 1 ELSE 0
        IN  /\ d.slot.dtn \in {test.asked - 1, test.asked}
            /\ d.slot.health <= test.asked
            /\ ~ate => d.slot.ptp = d.slot.dtn
            /\ d.note <= d.slot.dtn + 1 + skipped

\* A hand-over that ends with the device's "finish" and no gap counted has
\* written every file it opened whole, and nothing else into it: provided its
\* first packet was not missed, no name was refused, and fewer packets were
\* lost than there are numbers (MmmsHandler.c).
CleanHandoverIsWhole ==
    (/\ mmms.state = "DONE_OK" /\ ~mmms.forced /\ mmms.corrupted = 0
     /\ mmms.first = 1 /\ ~mmms.rejected /\ device.lost < SeqMax)
        => \A f \in mmms.closed : Whole(f)

\* Once force_quit is set the process ends: the main thread waits for no
\* thread that does not see it.  The exception is an HSN TX worker whose NIC
\* takes no packet any more: its inner loop does not look at the flag
\* (HsnWorker.c:99).
StopEnds == force_quit ~> (pc = "exited" \/ ~tx.drains)

\* The first signal to the CMC application ends it without a second one:
\* the device finishes, or is silent for the time-out, or the trigger cannot
\* be sent.  Only a device that starts and never finishes keeps it waiting
\* (RECEIVING has no time-out).
HandoverEnds ==
    (app = "cmc" /\ stop_normal_tx) ~>
        \/ pc = "exited"
        \/ mmms.state = "RECEIVING" /\ device.next \notin Packet

\* Both: a stop that is asked for comes.
StopsEnd == StopEnds /\ HandoverEnds
=============================================================================

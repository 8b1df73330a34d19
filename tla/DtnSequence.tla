---------------------------- MODULE DtnSequence ----------------------------
(***************************************************************************)
(* The DTN test sequence of the orchestrator (MainSoftware/src/Dtn.cpp)    *)
(* with what makes it electrically safe: the registry of active resources  *)
(* and executeShutdown (SafeShutdown.cpp), the power supply behind its TCP *)
(* port (TdkLambdaPsu.cpp, DeviceManager.cpp), the telemetry thread that   *)
(* shares that port (PsuTelemetryPublisher.cpp), and the signals that may  *)
(* arrive between any two steps.                                           *)
(*                                                                         *)
(* Signal handlers run on top of the main thread, which does not go on     *)
(* until they return; executeShutdown is therefore one shared piece of     *)
(* code with one `executor'.  A SIGINT is blocked in its own handler, a    *)
(* SIGTERM is not, and vice versa (sa_mask is empty).                      *)
(*                                                                         *)
(* Left out: reports and log files, the second PSU, remote applications    *)
(* and the log hook (the DTN sequence registers none).                     *)
(***************************************************************************)
EXTENDS Integers

CONSTANTS
    MaxSignals,  \* bound: signals sent to the process
    MayFail      \* TRUE: the PSU link and the remote steps may fail

ASSUME DtnAssumption == MaxSignals \in Nat /\ MayFail \in BOOLEAN

VARIABLES
    pc,          \* where configureSequence is
    retry,       \* the loop variable of the OFF verification
    reg,         \* the registered resources of SafeShutdown
    mutex,       \* who holds SafeShutdown::m_mutex
    executor,    \* who won m_shutdown_executed, and so runs executeShutdown
    step,        \* where executeShutdown is
    handling,    \* the signal whose handler is running
    sigint,      \* the handler installed for SIGINT
    monitoring,  \* g_dpdk_monitoring_running
    psu,         \* the power supply, the transport to it, and its history
    pub,         \* the telemetry thread
    pub_run,     \* its m_running
    dpdk,        \* dpdk_app runs on the server
    signals,     \* signals sent so far
    hit          \* what the first signal that ends the process interrupted

vars == <<pc, retry, reg, mutex, executor, step, handling, sigint,
          monitoring, psu, pub, pub_run, dpdk, signals, hit>>

seqVars  == <<pc, retry, reg, mutex>>
shutVars == <<executor, step>>
sigVars  == <<handling, sigint, monitoring, signals, hit>>
pubVars  == <<pub, pub_run>>

Resource == {"server", "connected", "output", "dpdk"}

\* what the register and unregister calls of the sequence do, and what follows
Registration ==
    [reg_server      |-> [add |-> {"server"},    del |-> {}, next |-> "connect"],
     reg_connected   |-> [add |-> {"connected"}, del |-> {}, next |-> "configure"],
     reg_output      |-> [add |-> {"output"},    del |-> {}, next |-> "publish"],
     reg_dpdk        |-> [add |-> {"dpdk"},      del |-> {}, next |-> "watch"],
     unreg_dpdk      |-> [add |-> {}, del |-> {"dpdk"},      next |-> "disable"],
     unreg_output    |-> [add |-> {}, del |-> {"output"},    next |-> "disconnect"],
     unreg_connected |-> [add |-> {}, del |-> {"connected"}, next |-> "return"]]

Pc == DOMAIN Registration \cup
      {"server", "connect", "configure", "enable", "publish", "deploy", "launch",
       "watch", "monitor", "unwatch", "unpublish", "stop_dpdk", "disable",
       "verify", "disconnect", "shutdown", "return", "exited"}

-----------------------------------------------------------------------------
(* The power supply.  output: the physical output; connected and open: the *)
(* flags of TDKLambdaPSU and of its TCP port; fault: history, the link has *)
(* failed at some time.                                                    *)

Psu == [output : BOOLEAN, connected : BOOLEAN, open : BOOLEAN, fault : BOOLEAN]

IsConnected(p) == p.connected /\ p.open

Faulty(p, connected, open) ==
    [p EXCEPT !.connected = connected, !.open = open, !.fault = TRUE]

\* reconnect(): the port cannot be opened, or the handshake is not answered
ReconnectFails(p) == {Faulty(p, FALSE, FALSE), Faulty(p, FALSE, TRUE)}

\* sendCommand and sendQuery: a failed send is followed by one reconnect and one
\* retry, whose send may fail in turn; a failed receive only closes the port
Broken(p) == ReconnectFails(p) \cup {Faulty(p, TRUE, FALSE)}

\* ... or the link comes back
Repaired(p) == Faulty(p, TRUE, TRUE)

\* DeviceManager::enableOutput: a failed send closes the port, and one that
\* succeeds on a half-open connection is never delivered
EnableOutput(p, on) ==
    IF ~IsConnected(p) THEN {[ok |-> FALSE, psu |-> p]}
    ELSE {[ok |-> TRUE, psu |-> [p EXCEPT !.output = on]]} \cup
         IF MayFail
         THEN {[ok |-> TRUE, psu |-> Repaired(p)],
               [ok |-> FALSE, psu |-> Faulty(p, TRUE, FALSE)]}
         ELSE {}

\* DeviceManager::isOutputEnabled: false as well when the PSU does not answer in
\* time, and then the next query reads the late answer
IsOutputEnabled(p) ==
    IF ~IsConnected(p) THEN {[on |-> FALSE, psu |-> p]}
    ELSE {[on |-> p.output, psu |-> p]} \cup
         IF MayFail
         THEN [on : {FALSE}, psu : Broken(p)] \cup [on : BOOLEAN, psu : {Repaired(p)}]
         ELSE {}

-----------------------------------------------------------------------------
Init ==
    /\ pc = "server" /\ retry = 0 /\ reg = {} /\ mutex = "free"
    /\ executor = "none" /\ step = "none"
    /\ handling = "none" /\ sigint = "safe" /\ monitoring = TRUE
    /\ psu = [output |-> FALSE, connected |-> FALSE, open |-> FALSE,
              fault |-> FALSE]
    /\ pub = "off" /\ pub_run = FALSE /\ dpdk = FALSE
    /\ signals = 0 /\ hit = "none"

-----------------------------------------------------------------------------
(* configureSequence.                                                      *)

\* the main thread is at p, and no handler runs on top of it
At(p) == pc = p /\ handling = "none"

\* a failing step: the caller runs executeShutdown and returns false
Fails == MayFail /\ pc' = "shutdown"

\* g_Server.onWithWait
ServerOn ==
    /\ At("server") /\ (pc' = "reg_server" \/ Fails)
    /\ UNCHANGED <<retry, reg, mutex, shutVars, sigVars, psu, pubVars, dpdk>>

\* a register or unregister call: lock_guard, then the list
Lock ==
    /\ pc \in DOMAIN Registration /\ handling = "none" /\ mutex = "free"
    /\ mutex' = "main"
    /\ UNCHANGED <<pc, retry, reg, shutVars, sigVars, psu, pubVars, dpdk>>

\* mutant of Register: the list is overwritten
RegisterReplaces ==
    /\ pc \in DOMAIN Registration /\ handling = "none" /\ mutex = "main"
    /\ reg' = Registration[pc].add
    /\ pc' = Registration[pc].next
    /\ mutex' = "free"
    /\ UNCHANGED <<retry, shutVars, sigVars, psu, pubVars, dpdk>>

Register ==
    /\ pc \in DOMAIN Registration /\ handling = "none" /\ mutex = "main"
    /\ reg' = (reg \cup Registration[pc].add) \ Registration[pc].del
    /\ pc' = Registration[pc].next
    /\ mutex' = "free"
    /\ UNCHANGED <<retry, shutVars, sigVars, psu, pubVars, dpdk>>

\* create and connect: the handshake, then *RST, which turns the output off
Connect ==
    /\ At("connect")
    /\ \/ /\ psu' = [psu EXCEPT !.connected = TRUE, !.open = TRUE, !.output = FALSE]
          /\ pc' = "reg_connected"
       \/ Fails /\ psu' = Faulty(psu, FALSE, FALSE)
    /\ UNCHANGED <<retry, reg, mutex, shutVars, sigVars, pubVars, dpdk>>

\* setCurrent, setVoltage, and the question to the operator
Configure ==
    /\ At("configure")
    /\ \/ pc' = "enable" /\ UNCHANGED psu
       \/ MayFail /\ pc' = "enable" /\ psu' = Repaired(psu)
       \/ Fails /\ psu' \in Broken(psu)
    /\ UNCHANGED <<retry, reg, mutex, shutVars, sigVars, pubVars, dpdk>>

Enable ==
    /\ At("enable")
    /\ \E r \in EnableOutput(psu, TRUE) :
          psu' = r.psu /\ pc' = IF r.ok THEN "reg_output" ELSE "shutdown"
    /\ UNCHANGED <<retry, reg, mutex, shutVars, sigVars, pubVars, dpdk>>

\* psu_publisher.start(); that it cannot start is not an error
Publish ==
    /\ At("publish") /\ pc' = "deploy"
    /\ \/ pub' = "idle" /\ pub_run' = TRUE
       \/ MayFail /\ UNCHANGED pubVars
    /\ UNCHANGED <<retry, reg, mutex, shutVars, sigVars, psu, dpdk>>

\* Cumulus, RemoteConfigSender and the time forwarder
Deploy ==
    /\ At("deploy") /\ (pc' = "launch" \/ Fails)
    /\ UNCHANGED <<retry, reg, mutex, shutVars, sigVars, psu, pubVars, dpdk>>

\* runDpdkInteractive; after a failure dpdk_app may run or not
Launch ==
    /\ At("launch")
    /\ \/ pc' = "reg_dpdk" /\ dpdk' = TRUE
       \/ Fails /\ dpdk' \in BOOLEAN
    /\ UNCHANGED <<retry, reg, mutex, shutVars, sigVars, psu, pubVars>>

\* the monitoring handler replaces the one for SIGINT
Watch ==
    /\ At("watch") /\ pc' = "monitor"
    /\ monitoring' = TRUE /\ sigint' = "monitor"
    /\ UNCHANGED <<retry, reg, mutex, shutVars, handling, signals, hit, psu,
                   pubVars, dpdk>>

\* mutant of Monitor: the flag of the handler is not looked at
MonitorLogOnly ==
    /\ At("monitor") /\ ~dpdk
    /\ monitoring' = FALSE /\ pc' = "unwatch"
    /\ UNCHANGED <<retry, reg, mutex, shutVars, handling, sigint, signals, hit,
                   psu, pubVars, dpdk>>

\* Ctrl+C, or the log shows that DPDK has ended
Monitor ==
    /\ At("monitor") /\ (~monitoring \/ ~dpdk)
    /\ monitoring' = FALSE /\ pc' = "unwatch"
    /\ UNCHANGED <<retry, reg, mutex, shutVars, handling, sigint, signals, hit,
                   psu, pubVars, dpdk>>

\* installSignalHandlers
Unwatch ==
    /\ At("unwatch") /\ pc' = "unpublish" /\ sigint' = "safe"
    /\ UNCHANGED <<retry, reg, mutex, shutVars, handling, monitoring, signals,
                   hit, psu, pubVars, dpdk>>

\* mutant of JoinPublisher: the flag is not cleared
JoinOnly(next) == pub = "off" /\ pc' = next /\ UNCHANGED pubVars

\* PsuTelemetryPublisher::stop: clear the flag, then join
JoinPublisher(next) ==
    \/ pub_run /\ pub_run' = FALSE /\ UNCHANGED <<pc, pub>>
    \/ ~pub_run /\ pub = "off" /\ pc' = next /\ UNCHANGED pubVars

Unpublish ==
    /\ At("unpublish") /\ JoinPublisher("stop_dpdk")
    /\ UNCHANGED <<retry, reg, mutex, shutVars, sigVars, psu, dpdk>>

\* isApplicationRunning and stopApplication, whose results may be wrong and are
\* not looked at
StopDpdk ==
    /\ At("stop_dpdk") /\ pc' = "unreg_dpdk"
    /\ dpdk' = FALSE \/ (MayFail /\ UNCHANGED dpdk)
    /\ UNCHANGED <<retry, reg, mutex, shutVars, sigVars, psu, pubVars>>

Disable ==
    /\ At("disable")
    /\ \E r \in EnableOutput(psu, FALSE) :
          psu' = r.psu /\ pc' = IF r.ok THEN "verify" ELSE "shutdown"
    /\ retry' = 0
    /\ UNCHANGED <<reg, mutex, shutVars, sigVars, pubVars, dpdk>>

\* at most three rounds; the result of the repeated command is not looked at
Verify ==
    /\ At("verify")
    /\ \E q \in IsOutputEnabled(psu) :
          \/ /\ ~q.on /\ pc' = "unreg_output" /\ psu' = q.psu
             /\ UNCHANGED retry
          \/ /\ q.on
             /\ \E r \in EnableOutput(q.psu, FALSE) : psu' = r.psu
             /\ retry' = retry + 1
             /\ pc' = IF retry' < 3 THEN "verify" ELSE "unreg_output"
    /\ UNCHANGED <<reg, mutex, shutVars, sigVars, pubVars, dpdk>>

Disconnect ==
    /\ At("disconnect") /\ pc' = "unreg_connected"
    /\ psu' = [psu EXCEPT !.connected = FALSE, !.open = FALSE]
    /\ UNCHANGED <<retry, reg, mutex, shutVars, sigVars, pubVars, dpdk>>

\* executeShutdown called by the sequence
CallShutdown ==
    /\ At("shutdown") /\ executor = "none"
    /\ executor' = "main" /\ step' = "lock"
    /\ UNCHANGED <<seqVars, sigVars, psu, pubVars, dpdk>>

\* leaving configureSequence destroys the publisher; at the end of main the PSU
\* is destroyed, which turns the output off if it is connected
Return ==
    /\ At("return") /\ JoinPublisher("exited")
    /\ psu' \in IF pc' = "exited" /\ psu.connected
                THEN {[r.psu EXCEPT !.connected = FALSE, !.open = FALSE] :
                         r \in EnableOutput(psu, FALSE)}
                ELSE {psu}
    /\ UNCHANGED <<retry, reg, mutex, shutVars, sigVars, dpdk>>

-----------------------------------------------------------------------------
(* executeShutdown, by whoever won the compare-and-swap.                   *)

ShutdownRuns(at) ==
    /\ step = at /\ pc # "exited"
    /\ executor = "main" => handling = "none"

TakeMutex ==
    /\ ShutdownRuns("lock") /\ mutex = "free"
    /\ mutex' = executor /\ step' = "outputs"
    /\ UNCHANGED <<pc, retry, reg, executor, sigVars, psu, pubVars, dpdk>>

\* the result of enableOutput is not looked at: a failure counts as disabled
DisableOutputs ==
    /\ ShutdownRuns("outputs") /\ step' = "disconnect"
    /\ IF "output" \in reg
       THEN \E r \in EnableOutput(psu, FALSE) : psu' = r.psu
       ELSE UNCHANGED psu
    /\ UNCHANGED <<seqVars, executor, sigVars, pubVars, dpdk>>

DisconnectPsus ==
    /\ ShutdownRuns("disconnect") /\ step' = "dpdk"
    /\ psu' = IF "connected" \in reg
              THEN [psu EXCEPT !.connected = FALSE, !.open = FALSE] ELSE psu
    /\ UNCHANGED <<seqVars, executor, sigVars, pubVars, dpdk>>

StopRemote ==
    /\ ShutdownRuns("dpdk") /\ step' = "end"
    /\ \/ dpdk' = (dpdk /\ "dpdk" \notin reg)
       \/ MayFail /\ UNCHANGED dpdk
    /\ UNCHANGED <<seqVars, executor, sigVars, psu, pubVars>>

\* the lists are cleared and the mutex released; a handler then calls _exit, the
\* sequence returns false
EndShutdown ==
    /\ ShutdownRuns("end") /\ step' = "done"
    /\ reg' = {} /\ mutex' = "free"
    /\ pc' = IF executor = "main" THEN "return" ELSE "exited"
    /\ UNCHANGED <<retry, executor, sigVars, psu, pubVars, dpdk>>

-----------------------------------------------------------------------------
(* Signals.                                                                *)

\* what it means for the PSU when the process is ended here
Interrupted ==
    IF executor = "none"
    THEN IF pc = "reg_output" THEN "unregistered" ELSE "sequence"
    ELSE IF step \in {"lock", "outputs"} THEN "shutdown" ELSE "late"

\* mutant of HandleSafe: the process ends without a shutdown
HandleAtOnce(sig) ==
    /\ hit' = IF hit \in {"none", "sequence"} THEN Interrupted ELSE hit
    /\ pc' = "exited" /\ UNCHANGED <<executor, step, handling, monitoring>>

\* signalHandler calls executeShutdown; when that was called before, it returns
\* at once and the process ends there and then
HandleSafe(sig) ==
    /\ hit' = IF hit \in {"none", "sequence"} THEN Interrupted ELSE hit
    /\ IF executor = "none"
       THEN /\ executor' = "handler" /\ step' = "lock" /\ handling' = sig
            /\ UNCHANGED pc
       ELSE pc' = "exited" /\ UNCHANGED <<executor, step, handling>>
    /\ UNCHANGED monitoring

Signal(sig) ==
    /\ pc # "exited" /\ signals < MaxSignals /\ handling # sig
    /\ signals' = signals + 1
    /\ IF sig = "INT" /\ sigint = "monitor"
       THEN monitoring' = FALSE /\ UNCHANGED <<pc, executor, step, handling, hit>>
       ELSE HandleSafe(sig)
    /\ UNCHANGED <<retry, reg, mutex, sigint, psu, pubVars, dpdk>>

-----------------------------------------------------------------------------
(* The telemetry thread queries the same PSU object, without a lock, once  *)
(* a second.  A query is not even tried when isConnected() is false.       *)

\* a receive fails, or a send does and reconnect() tears the connection down
PubBreaks ==
    /\ pc # "exited" /\ MayFail /\ pub = "idle" /\ pub_run /\ IsConnected(psu)
    /\ \/ psu' = Faulty(psu, TRUE, FALSE) /\ UNCHANGED pub
       \/ psu' = Faulty(psu, FALSE, FALSE) /\ pub' = "reconnect"
    /\ UNCHANGED <<seqVars, shutVars, sigVars, pub_run, dpdk>>

PubReconnects ==
    /\ pc # "exited" /\ pub = "reconnect" /\ pub' = "idle"
    /\ psu' \in ReconnectFails(psu) \cup {Repaired(psu)}
    /\ UNCHANGED <<seqVars, shutVars, sigVars, pub_run, dpdk>>

PubEnds ==
    /\ pc # "exited" /\ pub = "idle" /\ ~pub_run /\ pub' = "off"
    /\ UNCHANGED <<seqVars, shutVars, sigVars, psu, pub_run, dpdk>>

\* the test on the server ends by itself
DpdkEnds ==
    /\ dpdk /\ dpdk' = FALSE
    /\ UNCHANGED <<seqVars, shutVars, sigVars, psu, pubVars>>

-----------------------------------------------------------------------------
Sequence ==
    \/ ServerOn \/ Lock \/ Register \/ Connect \/ Configure \/ Enable \/ Publish
    \/ Deploy \/ Launch \/ Watch \/ Monitor \/ Unwatch \/ Unpublish \/ StopDpdk
    \/ Disable \/ Verify \/ Disconnect \/ CallShutdown \/ Return

Shutdown ==
    TakeMutex \/ DisableOutputs \/ DisconnectPsus \/ StopRemote \/ EndShutdown

Publisher == PubBreaks \/ PubReconnects \/ PubEnds

Next ==
    \/ Sequence \/ Shutdown \/ Publisher \/ DpdkEnds
    \/ \E sig \in {"INT", "TERM"} : Signal(sig)

Spec == Init /\ [][Next]_vars

-----------------------------------------------------------------------------
(* Properties.                                                             *)

\* Every variable has its type.
TypeOK ==
    /\ pc \in Pc /\ retry \in 0..3 /\ reg \subseteq Resource
    /\ mutex \in {"free", "main", "handler"}
    /\ executor \in {"none", "main", "handler"}
    /\ step \in {"none", "lock", "outputs", "disconnect", "dpdk", "end", "done"}
    /\ handling \in {"none", "INT", "TERM"} /\ sigint \in {"safe", "monitor"}
    /\ monitoring \in BOOLEAN /\ psu \in Psu /\ dpdk \in BOOLEAN
    /\ pub \in {"off", "idle", "reconnect"} /\ pub_run \in BOOLEAN
    /\ signals \in 0..MaxSignals
    /\ hit \in {"none", "sequence", "unregistered", "shutdown", "late"}

\* The output is known to SafeShutdown whenever it is on and somebody could
\* still ask for a shutdown, but for the step between enableOutput(true) and
\* its registration (and for a link that has failed).
OutputRegistered ==
    psu.output /\ ~psu.fault /\ executor = "none"
        => "output" \in reg \/ pc = "reg_output"

\* The process never ends with the output on, through any failing step and any
\* signal, but for three reasons: the link to the PSU failed, the signal came
\* in the step above, or a signal cut short a shutdown already under way.
OutputOffAtExit ==
    pc = "exited" /\ psu.output
        => psu.fault \/ hit \in {"unregistered", "shutdown"}

\* A failing step ends the process: the shutdown finishes, the telemetry thread
\* is joined, even when it is in the middle of a reconnection.  And the operator's
\* Ctrl+C during monitoring ends the run, unless a further signal interrupts the
\* clean-up: its handler may wait for a mutex that the thread it interrupted holds.
SequenceEnds ==
    /\ pc = "shutdown" ~> pc = "exited"
    /\ pc = "monitor" /\ ~monitoring ~> pc = "exited" \/ handling # "none"

=============================================================================

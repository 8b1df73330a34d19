------------------------------ MODULE UnitRun ------------------------------
(***************************************************************************)
(* The automation loop and the sequences it runs: automation_loop.sh       *)
(* starts the orchestrator again and again and ends it with SIGINT,        *)
(* SIGTERM and SIGKILL; the orchestrator takes a CMC, VMC, MMC or HSN      *)
(* through its sequence (Cmc.cpp, Vmc.cpp, Mmc.cpp, Hsn.cpp); dpdk_app     *)
(* lives on the server, outlives the orchestrator if nobody stops it       *)
(* (SSHDeployer.cpp), and leaves the files of the MMMS hand-over there,    *)
(* until a run fetches them.                                               *)
(*                                                                         *)
(* `at' is where the process is: a step of the sequence, of stopping the   *)
(* application, of fetching the logs, or of executeShutdown.  A handler    *)
(* that calls executeShutdown never returns to what it interrupted, so one *)
(* position is enough.  No remote command has a time limit                 *)
(* (SystemCommand.cpp:30), so the next signal may come at any step.        *)
(*                                                                         *)
(* Left to other modules: the PSU link, its telemetry thread and the mutex *)
(* (DtnSequence), the switch (Commissioning), the hand-over                *)
(* (MmmsHandover, TestApp).  Assumed: the device answers the hand-over     *)
(* while it has power.                                                     *)
(***************************************************************************)
EXTENDS ServerPower, Sequences, SequencesExt

CONSTANTS
    Units,       \* the units that are tested
    MaxRuns,     \* bound: runs of the loop
    MaxFaults    \* bound: links, commands and processes that fail, over all runs

ASSUME UnitRunAssumption ==
    /\ Units \subseteq {"cmc", "vmc", "mmc", "hsn"}
    /\ MaxRuns \in Nat \ {0} /\ MaxFaults \in Nat

Run == 1..MaxRuns

\* the unit of a run: the operator is asked until the answer is one of the list, or
\* the build for the loop has it
unitSelector == Units

VARIABLES
    run,         \* number of the run
    unit,        \* what it tests
    alive,       \* the orchestrator process exists
    at,          \* where it is
    reg,         \* the registered resources of SafeShutdown
    shutdown,    \* who set m_shutdown_executed: "no", "main", or the handler of
                 \* "INT" or "TERM", which is blocked while it runs
    mon,         \* monitoring: the handler of SIGINT and g_..._running
    fetched,     \* m_logs_fetched
    dog,         \* the last signal that was sent: "none", "tty" (the operator's
                 \* Ctrl+C), "int", "term", "kill" (graceful_stop)
    psu,         \* output and connection of the power supply
    power,       \* the server
    app,         \* dpdk_app on the server
    remote,      \* /tmp/mmms_logs, by the run whose application wrote them
    local,       \* the mmms_logs directory of each run on the PC
    flicker,     \* runs whose FlickerDetection process exists
    faults,      \* faults so far
    past         \* history of the run and of the applications

vars == <<run, unit, alive, at, reg, shutdown, mon, fetched, dog, psu, power,
          app, remote, local, flicker, faults, past>>
procVars == <<run, unit, alive, reg, shutdown, mon, fetched, dog>>
benchVars == <<psu, power, app, remote, local, flicker>>

-----------------------------------------------------------------------------
(* The sequences.                                                          *)

PowerUp == <<"boot", "connect", "enable", "register">>
PowerDown == <<"disable", "verify", "disconnect">>
StopApp == <<"query", "unregister">>

\* runDpdkCmcInteractive and runDpdkVmcInteractive
RunApp == <<"contact", "deploy", "launch">>

\* from the application's start to the end of its logs
CmcTest == RunApp \o <<"reg_dpdk", "hook", "monitor", "unwatch", "flicker_stop">>
                \o StopApp \o <<"fetch">>
VmcTest == RunApp \o <<"reg_dpdk", "monitor", "unwatch">> \o StopApp \o <<"fetch_log">>

CmcScript == PowerUp \o <<"network", "trigger", "flicker">> \o CmcTest \o PowerDown
                \o <<"success">>
VmcScript == PowerUp \o <<"network">> \o VmcTest \o PowerDown \o <<"success">>

MmcScript == PowerUp \o <<"flicker", "measure", "flicker_stop">> \o PowerDown
                \o <<"power_off", "success">>

HsnScript == PowerUp \o <<"measure">> \o PowerDown \o <<"power_off", "success">>

Script(u) == CASE u = "cmc" -> CmcScript [] u = "vmc" -> VmcScript
               [] u = "mmc" -> MmcScript [] u = "hsn" -> HsnScript

After(step) ==
    LET s == Script(unit) IN s[1 + (CHOOSE i \in DOMAIN s : s[i] = step)]

\* the end of stopApplication and of fetchDpdkAndMmmsLogs: both belong to the
\* sequence and to executeShutdown
AfterStop == IF shutdown = "no" THEN "unregister" ELSE "sd_logs"
AfterFetch == IF shutdown = "no" THEN "disable" ELSE "sd_end"

-----------------------------------------------------------------------------
(* dpdk_app on the server, and its files.                                  *)

\* run: who launched it; said: /tmp/dpdk_app.log ends with what main prints on
\* its way out
NoApp == [run |-> 0, phase |-> "none", said |-> FALSE]
Running == app.phase # "none"

\* the signal handlers: the first SIGTERM starts the hand-over, of a CMC, the
\* next one ends it
Terminated(a) ==
    LET first == a.phase = "up" /\ past.kind[a.run] = "cmc"
    IN  [a EXCEPT !.phase = IF first THEN "handover" ELSE "quitting",
                  !.said  = ~first]

\* pgrep, and what is made of it when ssh does not get through: not running
IsApplicationRunning(answer) ==
    \/ answer = Running /\ UNCHANGED <<faults, past>>
    \/ /\ Running /\ ~answer /\ faults < MaxFaults
       /\ faults' = faults + 1 /\ past' = [past EXCEPT !.blind = TRUE]

NoFiles == [r \in Run |-> "none"]

Init ==
    /\ run = 0 /\ unit \in unitSelector /\ alive = FALSE /\ at = "ended" /\ reg = {}
    /\ shutdown = "no" /\ mon = "off" /\ fetched = FALSE /\ dog = "none"
    /\ psu = [on |-> FALSE, connected |-> FALSE]
    /\ power \in {"off", "up", "hung"}
    /\ app = NoApp /\ remote = [dir |-> FALSE, files |-> NoFiles]
    /\ local = [r \in Run |-> NoFiles] /\ flicker = {} /\ faults = 0
    /\ past = [kind |-> [r \in Run |-> "none"], dumped |-> {}, cut |-> {},
               done |-> {}, watched |-> {}, blind |-> FALSE,
               boot_failed |-> FALSE, odds |-> 0]

-----------------------------------------------------------------------------
(* The steps of a sequence.                                                *)

At(step) == alive /\ at = step
Fault == faults < MaxFaults /\ faults' = faults + 1

\* the step succeeds, or fails: executeShutdown and return false
Succeeds(step) == at' = After(step) /\ UNCHANGED faults
Fails == Fault /\ at' = "call_shutdown"

\* g_Server.onWithWait(3)
Boot ==
    /\ At("boot")
    /\ \E r \in onWithWait(3, power) :
          /\ power' = r.power
          /\ at' = IF r.ok THEN "connect" ELSE "call_shutdown"
          /\ past' = [past EXCEPT !.boot_failed = ~r.ok,
                                  !.odds = IF r.ok THEN 0 ELSE BootOdds - r.odds]
          /\ reg' = IF r.ok THEN {"server"} ELSE {}
    /\ UNCHANGED <<run, unit, alive, shutdown, mon, fetched, dog, psu, app,
                   remote, local, flicker, faults>>

\* create and connect (*RST turns the output off), then register
Connect ==
    /\ At("connect")
    /\ \/ /\ Succeeds("connect")
          /\ psu' = [on |-> FALSE, connected |-> TRUE]
          /\ reg' = reg \cup {"connected"}
       \/ Fails /\ UNCHANGED <<psu, reg>>
    /\ UNCHANGED <<run, unit, alive, shutdown, mon, fetched, dog, power, app,
                   remote, local, flicker, past>>

\* set current and voltage, the serial command, and the output
Enable ==
    /\ At("enable")
    /\ \/ Succeeds("enable") /\ psu' = [psu EXCEPT !.on = TRUE]
       \/ Fails /\ UNCHANGED psu
    /\ UNCHANGED <<procVars, power, app, remote, local, flicker, past>>

\* register and unregister calls and the log hook
Register ==
    /\ alive /\ at \in {"register", "reg_dpdk", "hook", "unregister"}
    /\ reg' = CASE at = "register"   -> reg \cup {"output"}
                [] at = "reg_dpdk"   -> reg \cup {"dpdk"}
                [] at = "hook"       -> reg \cup {"hook"}
                [] at = "unregister" -> reg \ {"dpdk"}
    /\ at' = After(at)
    /\ UNCHANGED <<run, unit, alive, shutdown, mon, fetched, dog, benchVars,
                   faults, past>>

\* steps without a state that matters here: the switch, the trigger packet (for
\* which the operator may not want to wait any longer), the measurements
Passes(step) ==
    /\ At(step)
    /\ Succeeds(step) \/ (step # "measure" /\ Fails)
    /\ UNCHANGED <<procVars, benchVars, past>>

Network == Passes("network")
Trigger == Passes("trigger")
Measure == Passes("measure")

\* FlickerDetectionRunner::startForCmc: a failure is a warning
StartFlicker ==
    /\ At("flicker") /\ at' = After("flicker")
    /\ \/ flicker' = flicker \cup {run} /\ UNCHANGED faults
       \/ Fault /\ UNCHANGED flicker
    /\ UNCHANGED <<procVars, psu, power, app, remote, local, past>>

\* FlickerDetectionRunner::stop: SIGTERM, ten seconds, SIGKILL, waitpid
StopFlicker ==
    /\ At("flicker_stop") /\ Succeeds("flicker_stop")
    /\ flicker' = flicker \ {run}
    /\ UNCHANGED <<procVars, psu, power, app, remote, local, past>>

\* the application goes to the background, and truncates the log, before EAL is
\* initialised: the launch succeeds even when another instance holds the EAL
\* lock, and the new one ends without a word that the monitoring looks for
Started == IF Running THEN [app EXCEPT !.said = FALSE]
           ELSE [run |-> run, phase |-> "up", said |-> FALSE]

\* the application was not launched: flicker.stop, then executeShutdown
GivesUp == Fails /\ flicker' = flicker \ {run}

\* what the launch needs: a server that answers, and the prebuilt binaries, which
\* every run copies anew
Prepare(step) ==
    /\ At(step)
    /\ (Succeeds(step) /\ UNCHANGED flicker) \/ GivesUp
    /\ UNCHANGED <<procVars, psu, power, app, remote, local, past>>

TestConnection == Prepare("contact")
DeployPrebuilt == Prepare("deploy")

\* executeInteractive: when the link breaks, the application may have been started
executeInteractive(ok) == app' \in IF ok THEN {Started} ELSE {app, Started}

Launch ==
    /\ At("launch")
    /\ \/ Succeeds("launch") /\ executeInteractive(TRUE) /\ UNCHANGED flicker
       \/ GivesUp /\ executeInteractive(FALSE)
    /\ remote' = [remote EXCEPT !.dir = @ \/ (app'.run = run /\ unit = "cmc")]
    /\ past' = [past EXCEPT !.kind[run] = unit]
    /\ UNCHANGED <<procVars, psu, power, local>>

\* the handler of the monitoring replaces the one for SIGINT, when it begins ...
Watch ==
    /\ At("monitor") /\ mon = "off"
    /\ mon' = "on" /\ past' = [past EXCEPT !.watched = @ \cup {run}]
    /\ UNCHANGED <<run, unit, alive, at, reg, shutdown, fetched, dog, benchVars,
                   faults>>

\* ... the loop ends with the flag, or when the log shows "=== Shutting down ==="
\* or "Application exited cleanly"; an application that dies leaves no such line
Monitor ==
    /\ At("monitor") /\ mon # "off"
    /\ mon = "stop" \/ app.said
    /\ at' = "unwatch"
    /\ UNCHANGED <<procVars, benchVars, faults, past>>

\* installSignalHandlers
Unwatch ==
    /\ At("unwatch") /\ at' = After("unwatch") /\ mon' = "off"
    /\ UNCHANGED <<run, unit, alive, reg, shutdown, fetched, dog, benchVars,
                   faults, past>>

-----------------------------------------------------------------------------
(* stopApplication("dpdk_app"), after a query, from the sequence and from    *)
(* executeShutdown.                                                        *)

\* a command about the application that does not get through
Lost == Fault /\ past' = [past EXCEPT !.blind = TRUE]

Query ==
    /\ At("query")
    /\ \E answer \in BOOLEAN :
          /\ IsApplicationRunning(answer)
          /\ at' = IF answer THEN "term" ELSE AfterStop
    /\ UNCHANGED <<procVars, benchVars>>

Terminate ==
    /\ At("term") /\ at' = "wait"
    /\ \/ app' = (IF Running THEN Terminated(app) ELSE app) /\ UNCHANGED <<faults, past>>
       \/ Lost /\ UNCHANGED app
    /\ UNCHANGED <<procVars, psu, power, remote, local, flicker>>

\* mutant of Await: the answer of pkill is taken for the end of the application
NoAwait ==
    /\ At("wait") /\ at' = AfterStop
    /\ UNCHANGED <<procVars, benchVars, faults, past>>

\* up to 60 seconds, which the application may need longer than
Await ==
    /\ At("wait")
    /\ \E answer \in BOOLEAN :
          /\ IsApplicationRunning(answer)
          /\ at' = IF answer THEN "kill" ELSE AfterStop
    /\ UNCHANGED <<procVars, benchVars>>

\* pkill -9; whether it helped is only printed
Kill ==
    /\ At("kill") /\ at' = AfterStop
    /\ \/ /\ app' = [app EXCEPT !.phase = "none"] /\ UNCHANGED faults
          /\ past' = [past EXCEPT !.cut = IF Running THEN @ \cup {app.run} ELSE @]
       \/ Lost /\ UNCHANGED app
    /\ UNCHANGED <<procVars, psu, power, remote, local, flicker>>

-----------------------------------------------------------------------------
(* fetchDpdkAndMmmsLogs.                                                   *)

\* the flag is set before anything is fetched
Claim ==
    /\ At("fetch")
    /\ at' = IF fetched THEN AfterFetch ELSE "fetch_log"
    /\ fetched' = TRUE
    /\ UNCHANGED <<run, unit, alive, reg, shutdown, mon, dog, benchVars, faults, past>>

\* dpdk_app.log: a failure is a warning
FetchLog ==
    /\ At("fetch_log")
    /\ at' = IF unit = "cmc" THEN "fetch_dir" ELSE After("fetch_log")
    /\ UNCHANGED <<procVars, benchVars, faults, past>>

\* mutant of FetchDirectory: the directory on the server goes whatever scp said
FetchAndWipe ==
    /\ At("fetch_dir") /\ at' = "wipe"
    /\ \/ local' = [local EXCEPT ![run] = remote.files] /\ UNCHANGED faults
       \/ Fault /\ UNCHANGED local
    /\ UNCHANGED <<procVars, psu, power, app, remote, flicker, past>>

\* the local directory is of this run alone, so remove_all finds nothing
FetchDirectory ==
    /\ At("fetch_dir")
    /\ \/ /\ remote.dir /\ local' = [local EXCEPT ![run] = remote.files]
          /\ at' = "wipe" /\ UNCHANGED faults
       \/ at' = AfterFetch /\ UNCHANGED local
          /\ IF remote.dir THEN Fault ELSE UNCHANGED faults
    /\ UNCHANGED <<procVars, psu, power, app, remote, flicker, past>>

\* rm -rf on the server: a failure is a warning
Wipe ==
    /\ At("wipe") /\ at' = AfterFetch
    /\ \/ /\ remote' = [dir |-> FALSE, files |-> NoFiles]
          /\ past' = [past EXCEPT !.done = @ \cup {run}] /\ UNCHANGED faults
       \/ Fault /\ UNCHANGED <<remote, past>>
    /\ UNCHANGED <<procVars, psu, power, app, local, flicker>>

-----------------------------------------------------------------------------
(* The end of a sequence.                                                  *)

\* enableOutput(false)
Disable ==
    /\ At("disable")
    /\ \/ Succeeds("disable") /\ psu' = [psu EXCEPT !.on = FALSE]
       \/ Fails /\ UNCHANGED psu
    /\ UNCHANGED <<procVars, power, app, remote, local, flicker, past>>

\* up to three rounds of reading the output and disabling it again
Verify ==
    /\ At("verify") /\ at' = After("verify") /\ reg' = reg \ {"output"}
    /\ psu' = [psu EXCEPT !.on = FALSE]
    /\ UNCHANGED <<run, unit, alive, shutdown, mon, fetched, dog, power, app,
                   remote, local, flicker, faults, past>>

Disconnect ==
    /\ At("disconnect")
    /\ \/ /\ Succeeds("disconnect") /\ psu' = [psu EXCEPT !.connected = FALSE]
          /\ reg' = reg \ {"connected"}
       \/ Fails /\ UNCHANGED <<psu, reg>>
    /\ UNCHANGED <<run, unit, alive, shutdown, mon, fetched, dog, power, app,
                   remote, local, flicker, past>>

\* offWithWait: its result is not looked at; the application dies with the server
PowerOff ==
    /\ At("power_off") /\ at' = After("power_off") /\ reg' = reg \ {"server"}
    /\ \E r \in offWithWait(power) :
          /\ power' = r.power
          /\ app' = IF r.power = "up" THEN app ELSE [app EXCEPT !.phase = "none"]
    /\ UNCHANGED <<run, unit, alive, shutdown, mon, fetched, dog, psu, remote,
                   local, flicker, faults, past>>

\* configureSequence returns, the runner of FlickerDetection is destroyed, main
\* returns
Return ==
    /\ alive /\ at \in {"success", "sd_end"}
    /\ alive' = FALSE /\ at' = "ended" /\ dog' = "none"
    /\ flicker' = IF at = "success" \/ shutdown = "main" THEN flicker \ {run}
                  ELSE flicker   \* the handler: _exit
    /\ UNCHANGED <<run, unit, reg, shutdown, mon, fetched, psu, power, app,
                   remote, local, faults, past>>

-----------------------------------------------------------------------------
(* executeShutdown.                                                        *)

CallShutdown ==
    /\ At("call_shutdown") /\ at' = "sd_outputs" /\ shutdown' = "main"
    /\ UNCHANGED <<run, unit, alive, reg, mon, fetched, dog, benchVars, faults, past>>

\* priority 1: the outputs; one that cannot be disabled is given up
ShutOutputs ==
    /\ At("sd_outputs") /\ at' = "sd_disconnect" /\ reg' = reg \ {"output"}
    /\ \/ psu' = [psu EXCEPT !.on = @ /\ "output" \notin reg] /\ UNCHANGED faults
       \/ Fault /\ UNCHANGED psu
    /\ UNCHANGED <<run, unit, alive, shutdown, mon, fetched, dog, power, app,
                   remote, local, flicker, past>>

\* priority 2: the connections
ShutConnections ==
    /\ At("sd_disconnect") /\ reg' = reg \ {"connected"}
    /\ psu' = [psu EXCEPT !.connected = @ /\ "connected" \notin reg]
    /\ at' = IF "dpdk" \in reg THEN "query" ELSE "sd_logs"
    /\ UNCHANGED <<run, unit, alive, shutdown, mon, fetched, dog, power, app,
                   remote, local, flicker, faults, past>>

\* priority 5, after the application was stopped: the logs
ShutLogs ==
    /\ At("sd_logs") /\ reg' = reg \ {"dpdk"}
    /\ at' = IF "hook" \in reg THEN "fetch" ELSE "sd_end"
    /\ UNCHANGED <<run, unit, alive, shutdown, mon, fetched, dog, benchVars, faults, past>>

-----------------------------------------------------------------------------
(* Signals.                                                                *)

\* the steps that hold the mutex of SafeShutdown for a moment
Locks == {"register", "reg_dpdk", "hook", "unregister"}

\* what SIGINT or SIGTERM does to the process
Deliver(sig) ==
    \* system() ignores SIGINT; a handler is not interrupted by its own signal
    \/ /\ (sig = "INT" /\ at = "launch") \/ shutdown = sig
       /\ UNCHANGED <<alive, at, shutdown, mon, app>>
    \* the handler of the monitoring
    \/ /\ sig = "INT" /\ mon # "off" /\ shutdown = "no"
       /\ mon' = "stop" /\ UNCHANGED <<alive, at, shutdown, app>>
    \* the handler of SafeShutdown, when executeShutdown was called before: it
    \* returns at once, and _exit
    \/ /\ shutdown \notin {"no", sig} /\ ~(sig = "INT" /\ mon # "off")
       /\ alive' = FALSE /\ at' = "ended" /\ UNCHANGED <<shutdown, mon, app>>
    \* the handler of SafeShutdown: executeShutdown, or a wait for the mutex that
    \* the interrupted code holds; a remote command in flight is carried out
    \/ /\ shutdown = "no" /\ ~(sig = "INT" /\ (mon # "off" \/ at = "launch"))
       /\ shutdown' = sig /\ at' \in {"sd_outputs"} \cup {"stuck" : s \in Locks \cap {at}}
       /\ app' \in IF at = "launch" THEN {app, Started} ELSE {app}
       /\ UNCHANGED <<alive, mon>>

Signal(sig, from, to) ==
    /\ alive /\ dog \in from /\ Deliver(sig)
    /\ dog' = IF alive' THEN to ELSE "none"
    /\ past' = IF app' # app THEN [past EXCEPT !.kind[run] = unit] ELSE past
    /\ remote' = [remote EXCEPT !.dir = @ \/ (app' # app /\ unit = "cmc")]
    /\ UNCHANGED <<run, unit, reg, fetched, psu, power, local, flicker, faults>>

\* Ctrl+C reaches every process of the terminal, and the trap of the script then
\* calls graceful_stop
CtrlC   == Signal("INT", {"none"}, "tty")
DogInt  == Signal("INT", {"none", "tty"}, "int")
DogTerm == Signal("TERM", {"int"}, "term")

DogKill ==
    /\ alive /\ dog = "term"
    /\ alive' = FALSE /\ at' = "ended" /\ dog' = "none"
    /\ past' = [past EXCEPT !.cut = @ \cup {run}]
    /\ UNCHANGED <<run, unit, reg, shutdown, mon, fetched, benchVars, faults>>

\* the loop, or the operator, starts the next run: a new process
StartRun ==
    /\ ~alive /\ run < MaxRuns
    /\ run' = run + 1 /\ unit' \in unitSelector /\ alive' = TRUE /\ at' = "boot"
    /\ reg' = {} /\ shutdown' = "no" /\ mon' = "off" /\ fetched' = FALSE
    /\ UNCHANGED <<dog, benchVars, faults, past>>

-----------------------------------------------------------------------------
(* The application on its own.                                             *)

\* the first SIGTERM's hand-over ends; a unit without power sends nothing, and
\* nothing can be written where the directory was removed
HandoverEnds ==
    /\ app.phase = "handover"
    /\ app' = [app EXCEPT !.phase = "quitting", !.said = TRUE]
    /\ LET whole == psu.on /\ remote.dir
       IN  /\ remote' = IF whole THEN [remote EXCEPT !.files[app.run] = "whole"]
                        ELSE remote
           /\ past' = IF whole THEN [past EXCEPT !.dumped = @ \cup {app.run}]
                      ELSE past
    /\ UNCHANGED <<procVars, at, psu, power, local, flicker, faults>>

AppExits ==
    /\ app.phase = "quitting" /\ app' = [app EXCEPT !.phase = "none"]
    /\ UNCHANGED <<procVars, at, psu, power, remote, local, flicker, faults, past>>

\* a crash, of which the log says nothing
AppDies ==
    /\ Running /\ Fault /\ app' = [app EXCEPT !.phase = "none"]
    /\ UNCHANGED <<procVars, at, psu, power, remote, local, flicker, past>>

\* "To stop: sudo pkill -f dpdk_app", which --daemon prints
AppStoppedByHand ==
    /\ Running /\ Fault /\ app' = Terminated(app)
    /\ UNCHANGED <<procVars, at, psu, power, remote, local, flicker, past>>

Process ==
    \/ Boot \/ Connect \/ Enable \/ Register \/ Network \/ Trigger \/ Measure
    \/ StartFlicker \/ StopFlicker \/ TestConnection \/ DeployPrebuilt \/ Launch
    \/ Watch \/ Monitor \/ Unwatch
    \/ Query \/ Terminate \/ Await \/ Kill \/ Claim \/ FetchLog \/ FetchDirectory
    \/ Wipe \/ Disable \/ Verify \/ Disconnect \/ PowerOff \/ Return
    \/ CallShutdown \/ ShutOutputs \/ ShutConnections \/ ShutLogs

Loop == CtrlC \/ DogInt \/ DogTerm \/ DogKill \/ StartRun
Application == HandoverEnds \/ AppExits \/ AppDies \/ AppStoppedByHand

Next == Process \/ Loop \/ Application

Spec == Init /\ [][Next]_vars

-----------------------------------------------------------------------------
(* Properties.                                                             *)

Whole(files, r) == files[r] = "whole"

\* The files of a hand-over are never deleted in their last copy: once the
\* application has written them they are on the server or in the directory of a
\* run, through every order of stopping, fetching, wiping, signals and new runs
\* (the directory on the server is wiped after scp succeeded, and after the
\* application was seen to have ended).  Excepted are runs in which a command
\* about the application did not get through.  Nor do the files that a run fetched
\* and wiped turn up among those of a later run ("so the next run does not blend
\* with leftover files").
FilesKept ==
    past.blind \/
    /\ \A r \in past.dumped :
          Whole(remote.files, r) \/ \E q \in Run : Whole(local[q], r)
    /\ \A q \in past.done : \A r \in Run : r > q => ~Whole(local[r], q)

\* A CMC or VMC sequence that ends normally, whatever signals the monitoring
\* took and whatever earlier runs left behind, leaves no dpdk_app on the server,
\* no power on the unit and no process of its own; the same holds of MMC and
\* HSN, except for a dpdk_app of an earlier run.
CleanRunLeavesNothing ==
    at = "success" =>
        /\ ~psu.on /\ ~psu.connected /\ run \notin flicker
        /\ reg \cap {"output", "connected", "dpdk"} = {}
        /\ Running => past.blind \/ unit \in {"mmc", "hsn"}

\* The three rounds of onWithWait, each of which ends in a hard reset, bring the
\* server up unless three things are wrong, of which at most one is where it
\* starts from: a boot that hangs, now or in an earlier run, is not the end.
BootSurvives == past.boot_failed => past.odds >= 2

\* What SafeShutdown.h and automation_loop.sh promise ("so logs are still saved
\* cleanly"; in both clean ways "the logs are saved"): when a signal ended the
\* monitoring of a CMC and executeShutdown came to its end, with no fault and the
\* application not killed, the run has the files of its hand-over.  The power of
\* the unit goes first, and the unit then has no files to hand over.
LogsSaved ==
    (/\ at = "sd_end" /\ shutdown \in {"INT", "TERM"}
     /\ run \in past.watched \ past.cut /\ faults = 0)
        => Whole(local[run], run)

=============================================================================

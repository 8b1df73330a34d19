------------------------- MODULE OrchestratorProofs -------------------------
(***************************************************************************)
(* Theorems about the orchestrator, for any number of runs of the loop,    *)
(* any units in any order, any number of faults and of tests at the        *)
(* switch.                                                                 *)
(***************************************************************************)
EXTENDS Orchestrator, SequenceTheorems, NumberLemmas, TLAPS

-----------------------------------------------------------------------------
(* The sequences.                                                          *)

Step ==
    {"boot", "connect", "enable", "register", "network", "trigger", "flicker", "contact",
     "deploy", "launch", "reg_dpdk", "hook", "monitor", "unwatch", "measure",
     "flicker_stop", "query", "unregister", "fetch", "fetch_log", "disable", "verify",
     "disconnect", "power_off", "success"}

\* What can come next, by unit.
Following ==
    [cmc |-> [connect |-> "enable", enable |-> "register", register |-> "network",
              network |-> "trigger", trigger |-> "flicker", flicker |-> "contact",
              contact |-> "deploy", deploy |-> "launch", launch |-> "reg_dpdk",
              reg_dpdk |-> "hook", hook |-> "monitor", unwatch |-> "flicker_stop",
              flicker_stop |-> "query", unregister |-> "fetch", disable |-> "verify",
              verify |-> "disconnect", disconnect |-> "success"],
     vmc |-> [connect |-> "enable", enable |-> "register", register |-> "network",
              network |-> "contact", contact |-> "deploy", deploy |-> "launch",
              launch |-> "reg_dpdk", reg_dpdk |-> "monitor", unwatch |-> "query",
              unregister |-> "fetch_log", fetch_log |-> "disable",
              disable |-> "verify", verify |-> "disconnect", disconnect |-> "success"],
     mmc |-> [connect |-> "enable", enable |-> "register", register |-> "flicker",
              flicker |-> "measure", measure |-> "flicker_stop",
              flicker_stop |-> "disable", disable |-> "verify",
              verify |-> "disconnect", disconnect |-> "power_off",
              power_off |-> "success"],
     hsn |-> [connect |-> "enable", enable |-> "register", register |-> "measure",
              measure |-> "disable", disable |-> "verify",
              verify |-> "disconnect", disconnect |-> "power_off",
              power_off |-> "success"]]

\* A step that occurs once in a sequence is followed by the one after its place.
LEMMA Follows ==
    ASSUME NEW s, NEW x, NEW i \in DOMAIN s, s[i] = x, \A j \in DOMAIN s : s[j] = s[i] => j = i
    PROVE  s[1 + (CHOOSE k \in DOMAIN s : s[k] = x)] = s[1 + i]
OBVIOUS

\* The four sequences are sequences of steps.
LEMMA ScriptsAreSequences ==
    /\ CmcScript \in Seq(Step) /\ VmcScript \in Seq(Step)
    /\ MmcScript \in Seq(Step) /\ HsnScript \in Seq(Step)
<1>1. /\ PowerUp \in Seq(Step) /\ PowerDown \in Seq(Step)
      /\ StopApp \in Seq(Step) /\ RunApp \in Seq(Step)
  BY DEF PowerUp, PowerDown, StopApp, RunApp, Step
<1>2. /\ <<"reg_dpdk", "hook", "monitor", "unwatch", "flicker_stop">> \in Seq(Step)
      /\ <<"fetch">> \in Seq(Step) /\ <<"reg_dpdk", "monitor", "unwatch">> \in Seq(Step)
      /\ <<"fetch_log">> \in Seq(Step) /\ <<"network", "trigger", "flicker">> \in Seq(Step)
      /\ <<"success">> \in Seq(Step) /\ <<"network">> \in Seq(Step)
      /\ <<"power_off", "success">> \in Seq(Step) /\ <<"measure">> \in Seq(Step)
      /\ <<"flicker", "measure", "flicker_stop">> \in Seq(Step)
  BY DEF Step
<1>3. CmcTest \in Seq(Step) /\ VmcTest \in Seq(Step)
  BY <1>1, <1>2, ConcatProperties DEF CmcTest, VmcTest
<1>4. CmcScript \in Seq(Step) /\ VmcScript \in Seq(Step)
  BY <1>1, <1>2, <1>3, ConcatProperties DEF CmcScript, VmcScript
<1>5. MmcScript \in Seq(Step) /\ HsnScript \in Seq(Step)
  BY <1>1, <1>2, ConcatProperties DEF MmcScript, HsnScript
<1> QED
  BY <1>4, <1>5

\* What follows each step of the sequence of CMC (DpdkCmc.cpp).
LEMMA CmcAfter ==
    ASSUME unit = "cmc", NEW step \in DOMAIN Following.cmc
    PROVE  After(step) = Following.cmc[step]
<1> DEFINE s == CmcScript
<1>1. s \in Seq(Step)
  BY ScriptsAreSequences
<1>2. /\ Len(s) = 22
     /\ s[1] = "boot" /\ s[2] = "connect" /\ s[3] = "enable" /\ s[4] = "register"
     /\ s[5] = "network" /\ s[6] = "trigger" /\ s[7] = "flicker" /\ s[8] = "contact"
     /\ s[9] = "deploy" /\ s[10] = "launch" /\ s[11] = "reg_dpdk" /\ s[12] = "hook"
     /\ s[13] = "monitor" /\ s[14] = "unwatch" /\ s[15] = "flicker_stop"
     /\ s[16] = "query" /\ s[17] = "unregister" /\ s[18] = "fetch" /\ s[19] = "disable"
     /\ s[20] = "verify" /\ s[21] = "disconnect" /\ s[22] = "success"
  BY DEF CmcScript, CmcTest, PowerUp, RunApp, StopApp, PowerDown
<1>3. DOMAIN s = 1..22
  BY <1>1, <1>2
<1> HIDE DEF s
<1>4. \A i, j \in 1..22 : s[i] = s[j] => i = j
  BY <1>2
<1>5. \A i \in 1..21 : s[i] = step =>
        s[1 + (CHOOSE k \in DOMAIN s : s[k] = step)] = s[1 + i]
  BY <1>3, <1>4, Follows
<1>6. After(step) = s[1 + (CHOOSE k \in DOMAIN s : s[k] = step)]
  BY DEF After, Script, s
<1> QED
  BY <1>2, <1>5, <1>6 DEF Following

\* ... of VMC (DpdkVmc.cpp)
LEMMA VmcAfter ==
    ASSUME unit = "vmc", NEW step \in DOMAIN Following.vmc
    PROVE  After(step) = Following.vmc[step]
<1> DEFINE s == VmcScript
<1>1. s \in Seq(Step)
  BY ScriptsAreSequences
<1>2. /\ Len(s) = 18
     /\ s[1] = "boot" /\ s[2] = "connect" /\ s[3] = "enable" /\ s[4] = "register"
     /\ s[5] = "network" /\ s[6] = "contact" /\ s[7] = "deploy" /\ s[8] = "launch"
     /\ s[9] = "reg_dpdk" /\ s[10] = "monitor" /\ s[11] = "unwatch" /\ s[12] = "query"
     /\ s[13] = "unregister" /\ s[14] = "fetch_log" /\ s[15] = "disable"
     /\ s[16] = "verify" /\ s[17] = "disconnect" /\ s[18] = "success"
  BY DEF VmcScript, VmcTest, PowerUp, RunApp, StopApp, PowerDown
<1>3. DOMAIN s = 1..18
  BY <1>1, <1>2
<1> HIDE DEF s
<1>4. \A i, j \in 1..18 : s[i] = s[j] => i = j
  BY <1>2
<1>5. \A i \in 1..17 : s[i] = step =>
        s[1 + (CHOOSE k \in DOMAIN s : s[k] = step)] = s[1 + i]
  BY <1>3, <1>4, Follows
<1>6. After(step) = s[1 + (CHOOSE k \in DOMAIN s : s[k] = step)]
  BY DEF After, Script, s
<1> QED
  BY <1>2, <1>5, <1>6 DEF Following

\* ... of MMC (Mmc.cpp)
LEMMA MmcAfter ==
    ASSUME unit = "mmc", NEW step \in DOMAIN Following.mmc
    PROVE  After(step) = Following.mmc[step]
<1> DEFINE s == MmcScript
<1>1. s \in Seq(Step)
  BY ScriptsAreSequences
<1>2. /\ Len(s) = 12
     /\ s[1] = "boot" /\ s[2] = "connect" /\ s[3] = "enable" /\ s[4] = "register"
     /\ s[5] = "flicker" /\ s[6] = "measure" /\ s[7] = "flicker_stop" /\ s[8] = "disable"
     /\ s[9] = "verify" /\ s[10] = "disconnect" /\ s[11] = "power_off"
     /\ s[12] = "success"
  BY DEF MmcScript, PowerUp, PowerDown
<1>3. DOMAIN s = 1..12
  BY <1>1, <1>2
<1> HIDE DEF s
<1>4. \A i, j \in 1..12 : s[i] = s[j] => i = j
  BY <1>2
<1>5. \A i \in 1..11 : s[i] = step =>
        s[1 + (CHOOSE k \in DOMAIN s : s[k] = step)] = s[1 + i]
  BY <1>3, <1>4, Follows
<1>6. After(step) = s[1 + (CHOOSE k \in DOMAIN s : s[k] = step)]
  BY DEF After, Script, s
<1> QED
  BY <1>2, <1>5, <1>6 DEF Following

\* ... of HSN (Hsn.cpp)
LEMMA HsnAfter ==
    ASSUME unit = "hsn", NEW step \in DOMAIN Following.hsn
    PROVE  After(step) = Following.hsn[step]
<1> DEFINE s == HsnScript
<1>1. s \in Seq(Step)
  BY ScriptsAreSequences
<1>2. /\ Len(s) = 10
     /\ s[1] = "boot" /\ s[2] = "connect" /\ s[3] = "enable" /\ s[4] = "register"
     /\ s[5] = "measure" /\ s[6] = "disable" /\ s[7] = "verify" /\ s[8] = "disconnect"
     /\ s[9] = "power_off" /\ s[10] = "success"
  BY DEF HsnScript, PowerUp, PowerDown
<1>3. DOMAIN s = 1..10
  BY <1>1, <1>2
<1> HIDE DEF s
<1>4. \A i, j \in 1..10 : s[i] = s[j] => i = j
  BY <1>2
<1>5. \A i \in 1..9 : s[i] = step =>
        s[1 + (CHOOSE k \in DOMAIN s : s[k] = step)] = s[1 + i]
  BY <1>3, <1>4, Follows
<1>6. After(step) = s[1 + (CHOOSE k \in DOMAIN s : s[k] = step)]
  BY DEF After, Script, s
<1> QED
  BY <1>2, <1>5, <1>6 DEF Following

-----------------------------------------------------------------------------
(* The invariants.                                                         *)

AppSet == [run : 0..MaxRuns, phase : {"none", "up", "handover", "quitting"}, said : BOOLEAN]

\* The part of the state that the proofs look at.
RunTypeOK ==
    /\ run \in 0..MaxRuns /\ unit \in Units /\ alive \in BOOLEAN /\ fetched \in BOOLEAN
    /\ reg \subseteq {"server", "connected", "output", "dpdk", "hook"}
    /\ shutdown \in {"no", "main", "INT", "TERM"}
    /\ psu \in [on : BOOLEAN, connected : BOOLEAN]
    /\ app \in AppSet
    /\ remote \in [dir : BOOLEAN, files : [Run -> {"none", "whole"}]]
    /\ local \in [Run -> [Run -> {"none", "whole"}]]
    /\ flicker \subseteq 1..run
    /\ DOMAIN past = {"kind", "dumped", "cut", "done", "watched", "blind", "boot_failed",
                      "odds"}
    /\ past.dumped \subseteq Run /\ past.done \subseteq 1..run /\ past.blind \in BOOLEAN
    /\ alive => run > 0
    /\ Running => app.run \in 1..run

Early == {"boot", "connect", "enable", "register", "network", "trigger", "flicker", "contact",
          "deploy", "launch"}
Stopping == {"query", "term", "wait", "kill"}
Fetching == {"fetch", "fetch_log", "fetch_dir", "wipe"}
Down == {"sd_outputs", "sd_disconnect", "sd_logs", "sd_end", "stuck"}
Ending == {"disable", "verify", "disconnect", "success"}

\* Where the process may be, by unit; executeShutdown is the same for all.
Places ==
    [cmc |-> Early \cup {"reg_dpdk", "hook", "monitor", "unwatch", "flicker_stop", "unregister"}
                   \cup Ending,
     vmc |-> (Early \ {"trigger", "flicker"})
                   \cup {"reg_dpdk", "monitor", "unwatch", "unregister"} \cup Ending,
     mmc |-> {"boot", "connect", "enable", "register", "flicker", "measure", "flicker_stop",
              "power_off"} \cup Ending,
     hsn |-> {"boot", "connect", "enable", "register", "measure", "power_off"} \cup Ending]

PlaceInv ==
    /\ ~alive => at = "ended"
    /\ alive =>
         /\ at \in Places[unit] \cup {"call_shutdown"} \cup Stopping \cup Fetching \cup Down
         /\ at \in Stopping => unit \in {"cmc", "vmc"}
         /\ at \in Fetching => unit = "cmc" \/ (unit = "vmc" /\ at = "fetch_log")
         /\ at = "fetch_log" /\ unit = "vmc" => shutdown = "no"
         /\ at \in Places[unit] \cup {"call_shutdown"} => shutdown = "no"
         /\ at \in Down => shutdown # "no"
         /\ "dpdk" \in reg => unit \in {"cmc", "vmc"}
         /\ "hook" \in reg => unit = "cmc"
         /\ at \in Early => reg \cap {"dpdk", "hook"} = {}
         /\ at = "reg_dpdk" => "hook" \notin reg
         /\ at = "hook" => "dpdk" \in reg

\* What a sequence has behind it.
Released == Fetching \cup Ending \cup {"power_off"}
Watched == {"contact", "deploy", "launch", "reg_dpdk", "hook", "monitor", "unwatch",
            "measure", "flicker_stop"}

SequenceInv ==
    alive /\ shutdown = "no" =>
        /\ at \in {"disconnect", "power_off", "success"} => ~psu.on /\ "output" \notin reg
        /\ at \in {"power_off", "success"} => ~psu.connected /\ "connected" \notin reg
        /\ at \in Released => "dpdk" \notin reg
        /\ at \in Released \cup {"unregister"} /\ unit \in {"cmc", "vmc"} /\ ~past.blind
              => ~Running
        /\ run \in flicker => unit \in {"cmc", "mmc"} /\ at \in Watched

Empty(r) == \A q \in Run : local[r][q] = "none"

\* The application of a run that fetches its files has ended, as far as anybody was told.
StoppedInv ==
    alive /\ ~past.blind =>
        /\ "hook" \in reg /\ "dpdk" \notin reg => ~Running
        /\ at \in {"unregister"} \cup Fetching => ~Running
        /\ at = "sd_logs" /\ "hook" \in reg => ~Running

\* A directory on the PC is filled once.
LocalInv ==
    /\ \A r \in Run : r > run => Empty(r)
    /\ alive /\ ~fetched => Empty(run) /\ run \notin past.done
    /\ alive /\ at \in {"fetch_log", "fetch_dir", "wipe"} /\ unit = "cmc" =>
          fetched /\ (at # "wipe" => Empty(run))
    /\ alive /\ at \in Early => ~fetched

FilesInv ==
    ~past.blind =>
        /\ alive /\ at = "wipe" => local[run] = remote.files
        /\ \A q \in past.done : remote.files[q] # "whole"
        /\ Running => app.run \notin past.done
        /\ FilesKept

RunInv == RunTypeOK /\ PlaceInv /\ SequenceInv /\ StoppedInv /\ LocalInv /\ FilesInv

-----------------------------------------------------------------------------
(* The types are kept.                                                     *)

\* SIGTERM does not end the application at once.
LEMMA TerminatedApp ==
    ASSUME RunTypeOK, Running
    PROVE  /\ Terminated(app) \in AppSet /\ Terminated(app).run = app.run
           /\ Terminated(app).phase # "none"
<1> DEFINE first == app.phase = "up" /\ past.kind[app.run] = "cmc"
<1>1. Terminated(app) = [app EXCEPT !.phase = IF first THEN "handover" ELSE "quitting",
                                    !.said = ~first]
  BY DEF Terminated
<1>2. first \in BOOLEAN
  OBVIOUS
<1> HIDE DEF first
<1> QED
  BY <1>1, <1>2 DEF RunTypeOK, AppSet

\* What a launch leaves on the server.
LEMMA StartedApp ==
    ASSUME RunTypeOK, alive
    PROVE  /\ Started \in AppSet /\ Started.phase # "none"
           /\ Started.run = IF Running THEN app.run ELSE run
BY DEF RunTypeOK, AppSet, Started, Running

\* A signal in the orchestrator leaves everything what it is.
LEMMA SignalKeepsType ==
    ASSUME RunTypeOK, NEW sig \in {"INT", "TERM"}, NEW from, NEW to, Signal(sig, from, to)
    PROVE  RunTypeOK'
<1> USE UnitRunAssumption DEF RunTypeOK, AppSet, Running, Run, benchVars
<1>1. alive /\ app' \in {app, Started} /\ alive' \in BOOLEAN
  BY DEF Signal, Deliver
<1>2. shutdown' \in {shutdown, sig}
  BY DEF Signal, Deliver
<1>3. app' \in AppSet /\ (app'.phase # "none" => app'.run \in 1..run)
  BY <1>1, StartedApp
<1>4. remote' \in [dir : BOOLEAN, files : [Run -> {"none", "whole"}]]
  BY DEF Signal
<1>5. past' = past \/ past' = [past EXCEPT !.kind[run] = unit]
  BY DEF Signal
<1>6. /\ DOMAIN past' = DOMAIN past /\ past'.dumped = past.dumped
      /\ past'.done = past.done /\ past'.blind = past.blind
  BY <1>5
<1>7. UNCHANGED <<run, unit, reg, fetched, psu, local, flicker>>
  BY DEF Signal
<1> QED
  BY <1>1, <1>2, <1>3, <1>4, <1>6, <1>7

\* A step that leaves the application and its files alone.
LEMMA TypeFrame ==
    ASSUME RunTypeOK, UNCHANGED <<run, unit, shutdown, fetched, app, remote, local>>,
           alive' = alive \/ alive' = FALSE,
           reg' \subseteq {"server", "connected", "output", "dpdk", "hook"},
           psu' \in [on : BOOLEAN, connected : BOOLEAN], flicker' \subseteq 1..run,
           DOMAIN past' = DOMAIN past, past'.dumped = past.dumped, past'.done = past.done,
           past'.blind \in BOOLEAN
    PROVE  RunTypeOK'
<1>1. alive \in BOOLEAN /\ (alive => run > 0) /\ (Running => app.run \in 1..run)
  BY DEF RunTypeOK
<1>2. alive' \in BOOLEAN /\ (alive' => run' > 0)
  <2>1. CASE alive' = alive
    BY <1>1, <2>1
  <2>2. CASE alive' = FALSE
    BY <2>2
  <2> QED
    BY <2>1, <2>2
<1>3. Running' => app'.run \in 1..run'
  BY <1>1 DEF Running
<1>4. past'.dumped \subseteq Run /\ past'.done \subseteq 1..run'
  BY DEF RunTypeOK
<1> QED
  BY <1>2, <1>3, <1>4 DEF RunTypeOK

\* A step of which only the place and FlickerDetection are of interest.
LEMMA TypeFrameOfPlace ==
    ASSUME RunTypeOK,
           UNCHANGED <<run, unit, alive, shutdown, fetched, app, remote, local, reg, psu, past>>,
           flicker' \subseteq flicker
    PROVE  RunTypeOK'
BY DEF RunTypeOK, Running

\* A command to the power supply sets a flag of it.
LEMMA PsuType ==
    ASSUME NEW p \in [on : BOOLEAN, connected : BOOLEAN], NEW b \in BOOLEAN
    PROVE  /\ [p EXCEPT !.on = b] \in [on : BOOLEAN, connected : BOOLEAN]
           /\ [p EXCEPT !.connected = b] \in [on : BOOLEAN, connected : BOOLEAN]
OBVIOUS

\* A command that is lost changes nothing but that.
LEMMA LostKeepsPast ==
    ASSUME RunTypeOK, past' = past \/ past' = [past EXCEPT !.blind = TRUE]
    PROVE  /\ DOMAIN past' = DOMAIN past /\ past'.dumped = past.dumped
           /\ past'.done = past.done /\ past'.blind \in BOOLEAN
BY DEF RunTypeOK

\* A query about the application can at most leave the orchestrator in error.
LEMMA QueryKeepsType ==
    ASSUME RunTypeOK, NEW answer, IsApplicationRunning(answer), UNCHANGED <<procVars, benchVars>>
    PROVE  RunTypeOK'
<1>1. past' = past \/ past' = [past EXCEPT !.blind = TRUE]
  BY DEF IsApplicationRunning
<1>2. /\ DOMAIN past' = DOMAIN past /\ past'.dumped = past.dumped
      /\ past'.done = past.done /\ past'.blind \in BOOLEAN
  BY <1>1, LostKeepsPast
<1>3. UNCHANGED <<run, unit, alive, shutdown, fetched, app, remote, local, reg, psu, flicker>>
  BY DEF procVars, benchVars
<1>4. /\ reg' \subseteq {"server", "connected", "output", "dpdk", "hook"}
      /\ psu' \in [on : BOOLEAN, connected : BOOLEAN] /\ flicker' \subseteq 1..run
  BY <1>3 DEF RunTypeOK
<1> QED
  BY <1>2, <1>3, <1>4, TypeFrame

\* Every step keeps the types.
LEMMA TypeKept ==
    ASSUME RunTypeOK, Next
    PROVE  RunTypeOK'
<1> USE UnitRunAssumption DEF RunTypeOK, AppSet, Running, Run, procVars, benchVars
<1>1. CASE Boot
  BY <1>1 DEF Boot, At
<1>2. CASE Connect
  <2>1. /\ reg' \in {reg, reg \cup {"connected"}}
        /\ psu' \in {psu, [on |-> FALSE, connected |-> TRUE]}
    BY <1>2 DEF Connect
  <2>2. UNCHANGED <<run, unit, alive, shutdown, fetched, app, remote, local, flicker, past>>
    BY <1>2 DEF Connect
  <2>3. psu' \in [on : BOOLEAN, connected : BOOLEAN]
    <3>1. [on |-> FALSE, connected |-> TRUE] \in [on : BOOLEAN, connected : BOOLEAN]
      OBVIOUS
    <3>2. psu' = psu \/ psu' = [on |-> FALSE, connected |-> TRUE]
      BY <1>2 DEF Connect
    <3> QED
      BY <3>1, <3>2
  <2>4. reg' \subseteq {"server", "connected", "output", "dpdk", "hook"}
    BY <2>1
  <2> QED
    BY <2>2, <2>3, <2>4
<1>3. CASE Enable
  <2>1. psu' = psu \/ psu' = [psu EXCEPT !.on = TRUE]
    BY <1>3 DEF Enable
  <2>2. psu' \in [on : BOOLEAN, connected : BOOLEAN]
    <3>1. [psu EXCEPT !.on = TRUE] \in [on : BOOLEAN, connected : BOOLEAN]
      BY PsuType
    <3> QED
      BY <2>1, <3>1
  <2>3. UNCHANGED <<run, unit, alive, shutdown, fetched, app, remote, local, flicker, past>>
    BY <1>3 DEF Enable
  <2>4. reg' \subseteq reg
    BY <1>3 DEF Enable
  <2> QED
    BY <2>2, <2>3, <2>4, TypeFrame
<1>4. CASE Register
  BY <1>4 DEF Register
<1>5. CASE Network
  BY <1>5 DEF Network, Passes, At
<1>6. CASE Trigger
  BY <1>6 DEF Trigger, Passes, At
<1>7. CASE Measure
  BY <1>7 DEF Measure, Passes, At
<1>8. CASE StartFlicker
  <2>1. flicker' \in {flicker, flicker \cup {run}} /\ run \in 1..run
    BY <1>8 DEF StartFlicker, At
  <2> QED
    BY <1>8, <2>1 DEF StartFlicker
<1>9. CASE StopFlicker
  BY <1>9 DEF StopFlicker, At
<1>10. CASE TestConnection
  <2>1. /\ UNCHANGED <<run, unit, alive, shutdown, fetched, app, remote, local, reg, psu, past>>
        /\ flicker' \subseteq flicker
    BY <1>10 DEF TestConnection, Prepare, GivesUp
  <2> QED
    BY <2>1, TypeFrameOfPlace
<1>11. CASE DeployPrebuilt
  <2>1. /\ UNCHANGED <<run, unit, alive, shutdown, fetched, app, remote, local, reg, psu, past>>
        /\ flicker' \subseteq flicker
    BY <1>11 DEF DeployPrebuilt, Prepare, GivesUp
  <2> QED
    BY <2>1, TypeFrameOfPlace
<1>12. CASE Launch
  <2>1. app' \in {app, Started} /\ flicker' \subseteq flicker /\ alive
    BY <1>12 DEF Launch, At, GivesUp, executeInteractive, Succeeds
  <2>2. app' \in AppSet /\ (app'.phase # "none" => app'.run \in 1..run)
    BY <2>1, StartedApp
  <2> DEFINE ours == app'.run = run /\ unit = "cmc"
  <2>3. remote' = [remote EXCEPT !.dir = @ \/ ours] /\ ours \in BOOLEAN
    BY <1>12 DEF Launch
  <2> HIDE DEF ours
  <2>4. remote' \in [dir : BOOLEAN, files : [Run -> {"none", "whole"}]]
    BY <2>3
  <2>5. past' = [past EXCEPT !.kind[run] = unit]
    BY <1>12 DEF Launch
  <2>6. /\ DOMAIN past' = DOMAIN past /\ past'.dumped = past.dumped
        /\ past'.done = past.done /\ past'.blind = past.blind
    BY <2>5
  <2>7. UNCHANGED <<run, unit, alive, reg, shutdown, fetched, psu, local>>
    BY <1>12 DEF Launch
  <2> QED
    BY <2>1, <2>2, <2>4, <2>6, <2>7
<1>13. CASE Watch
  BY <1>13 DEF Watch, At
<1>14. CASE Monitor
  BY <1>14 DEF Monitor, At
<1>15. CASE Unwatch
  BY <1>15 DEF Unwatch, At
<1>16. CASE Query
  BY <1>16, QueryKeepsType DEF Query
<1>17. CASE Terminate
  <2>1. app' \in AppSet /\ app'.run = app.run /\ (app'.phase # "none" => Running)
    BY <1>17, TerminatedApp DEF Terminate
  <2>2. past' = past \/ past' = [past EXCEPT !.blind = TRUE]
    BY <1>17 DEF Terminate, Lost
  <2>3. /\ DOMAIN past' = DOMAIN past /\ past'.dumped = past.dumped
        /\ past'.done = past.done /\ past'.blind \in BOOLEAN
    BY <2>2, LostKeepsPast
  <2>4. UNCHANGED <<run, unit, alive, reg, shutdown, fetched, psu, remote, local, flicker>>
    BY <1>17 DEF Terminate
  <2> QED
    BY <2>1, <2>3, <2>4
<1>18. CASE Await
  BY <1>18, QueryKeepsType DEF Await
<1>19. CASE Kill
  <2>1. app' = app \/ app' = [app EXCEPT !.phase = "none"]
    BY <1>19 DEF Kill
  <2>2. app' \in AppSet /\ app'.run = app.run /\ (app'.phase # "none" => Running)
    <3>1. [app EXCEPT !.phase = "none"] \in AppSet
      OBVIOUS
    <3> QED
      BY <2>1, <3>1
  <2>3. \/ past' = [past EXCEPT !.blind = TRUE]
        \/ \E cut : past' = [past EXCEPT !.cut = cut]
    BY <1>19 DEF Kill, Lost
  <2>4. /\ DOMAIN past' = DOMAIN past /\ past'.dumped = past.dumped
        /\ past'.done = past.done /\ past'.blind \in BOOLEAN
    <3>1. CASE past' = [past EXCEPT !.blind = TRUE]
      BY <3>1
    <3>2. ASSUME NEW cut, past' = [past EXCEPT !.cut = cut]
          PROVE  /\ DOMAIN past' = DOMAIN past /\ past'.dumped = past.dumped
                 /\ past'.done = past.done /\ past'.blind = past.blind
      BY <3>2
    <3> QED
      BY <2>3, <3>1, <3>2
  <2>5. UNCHANGED <<run, unit, alive, reg, shutdown, fetched, psu, remote, local, flicker>>
    BY <1>19 DEF Kill
  <2> QED
    BY <2>2, <2>4, <2>5
<1>20. CASE Claim
  BY <1>20 DEF Claim, At
<1>21. CASE FetchLog
  BY <1>21 DEF FetchLog, At
<1>22. CASE FetchDirectory
  <2>1. /\ UNCHANGED <<run, unit, alive, reg, shutdown, fetched, psu, app, remote, flicker>>
        /\ past' = past /\ alive
    BY <1>22 DEF FetchDirectory, At
  <2>2. local' = local \/ local' = [local EXCEPT ![run] = remote.files]
    BY <1>22 DEF FetchDirectory
  <2>3. local' \in [Run -> [Run -> {"none", "whole"}]]
    BY <2>1, <2>2
  <2> QED
    BY <2>1, <2>3
<1>23. CASE Wipe
  <2>1. run \in Run /\ run \in 1..run
    BY <1>23 DEF Wipe, At
  <2>2. past' = past \/ past' = [past EXCEPT !.done = @ \cup {run}]
    BY <1>23 DEF Wipe
  <2>3. NoFiles \in [Run -> {"none", "whole"}]
    BY DEF NoFiles
  <2>4. remote' \in [dir : BOOLEAN, files : [Run -> {"none", "whole"}]]
    <3>1. remote' = remote \/ remote' = [dir |-> FALSE, files |-> NoFiles]
      BY <1>23 DEF Wipe
    <3>2. [dir |-> FALSE, files |-> NoFiles]
              \in [dir : BOOLEAN, files : [Run -> {"none", "whole"}]]
      BY <2>3
    <3> QED
      BY <3>1, <3>2
  <2>5. /\ DOMAIN past' = DOMAIN past /\ past'.dumped = past.dumped
        /\ past'.done \subseteq 1..run /\ past'.blind = past.blind
    BY <2>1, <2>2
  <2>6. UNCHANGED <<run, unit, alive, reg, shutdown, fetched, psu, app, local, flicker>>
    BY <1>23 DEF Wipe
  <2> QED
    BY <2>1, <2>4, <2>5, <2>6
<1>24. CASE Disable
  <2>1. psu' = psu \/ psu' = [psu EXCEPT !.on = FALSE]
    BY <1>24 DEF Disable
  <2>2. psu' \in [on : BOOLEAN, connected : BOOLEAN]
    <3>1. [psu EXCEPT !.on = FALSE] \in [on : BOOLEAN, connected : BOOLEAN]
      BY PsuType
    <3> QED
      BY <2>1, <3>1
  <2>3. UNCHANGED <<run, unit, alive, shutdown, fetched, app, remote, local, flicker, past>>
    BY <1>24 DEF Disable
  <2>4. reg' \subseteq reg
    BY <1>24 DEF Disable
  <2> QED
    BY <2>2, <2>3, <2>4, TypeFrame
<1>25. CASE Verify
  BY <1>25 DEF Verify, At
<1>26. CASE Disconnect
  <2>1. psu' = psu \/ psu' = [psu EXCEPT !.connected = FALSE]
    BY <1>26 DEF Disconnect
  <2>2. psu' \in [on : BOOLEAN, connected : BOOLEAN]
    <3>1. [psu EXCEPT !.connected = FALSE] \in [on : BOOLEAN, connected : BOOLEAN]
      BY PsuType
    <3> QED
      BY <2>1, <3>1
  <2>3. UNCHANGED <<run, unit, alive, shutdown, fetched, app, remote, local, flicker, past>>
    BY <1>26 DEF Disconnect
  <2>4. reg' \subseteq reg
    BY <1>26 DEF Disconnect
  <2> QED
    BY <2>2, <2>3, <2>4, TypeFrame
<1>27. CASE PowerOff
  BY <1>27 DEF PowerOff, At
<1>28. CASE Return
  <2>1. /\ UNCHANGED <<run, unit, reg, shutdown, fetched, psu, app, remote, local, past>>
        /\ alive' = FALSE
    BY <1>28 DEF Return
  <2>2. flicker' = flicker \ {run} \/ flicker' = flicker
    <3>1. flicker' = IF at = "success" \/ shutdown = "main" THEN flicker \ {run} ELSE flicker
      BY <1>28 DEF Return
    <3> QED
      BY <3>1, Zenon
  <2>3. flicker' \subseteq 1..run
    BY <2>2
  <2> QED
    BY <2>1, <2>3, TypeFrame
<1>29. CASE CallShutdown
  BY <1>29 DEF CallShutdown, At
<1>30. CASE ShutOutputs
  <2>1. psu' = psu \/ psu' = [psu EXCEPT !.on = @ /\ "output" \notin reg]
    BY <1>30 DEF ShutOutputs
  <2>2. psu' \in [on : BOOLEAN, connected : BOOLEAN]
    <3>1. (psu.on /\ "output" \notin reg) \in BOOLEAN
      OBVIOUS
    <3>2. [psu EXCEPT !.on = @ /\ "output" \notin reg] \in [on : BOOLEAN, connected : BOOLEAN]
      BY <3>1
    <3> QED
      BY <2>1, <3>2
  <2>3. UNCHANGED <<run, unit, alive, shutdown, fetched, app, remote, local, flicker, past>>
    BY <1>30 DEF ShutOutputs
  <2>4. reg' \subseteq reg
    BY <1>30 DEF ShutOutputs
  <2> QED
    BY <2>2, <2>3, <2>4, TypeFrame
<1>31. CASE ShutConnections
  BY <1>31 DEF ShutConnections, At
<1>32. CASE ShutLogs
  BY <1>32 DEF ShutLogs, At
<1>33. CASE CtrlC
  BY <1>33, SignalKeepsType DEF CtrlC
<1>34. CASE DogInt
  BY <1>34, SignalKeepsType DEF DogInt
<1>35. CASE DogTerm
  BY <1>35, SignalKeepsType DEF DogTerm
<1>36. CASE DogKill
  BY <1>36 DEF DogKill
<1>37. CASE StartRun
  <2>1. /\ run' \in 0..MaxRuns /\ run' = run + 1 /\ unit' \in Units
        /\ flicker' = flicker /\ past' = past /\ app' = app
    BY <1>37 DEF StartRun, unitSelector
  <2>2. 1..run \subseteq 1..run'
    BY <2>1
  <2>3. /\ alive' = TRUE /\ fetched' = FALSE /\ reg' = {} /\ shutdown' = "no"
        /\ UNCHANGED <<psu, remote, local>>
    BY <1>37 DEF StartRun
  <2>4. /\ flicker' \subseteq 1..run' /\ past'.done \subseteq 1..run'
        /\ Running' => app'.run \in 1..run'
    BY <2>1, <2>2
  <2>5. run' > 0
    BY <2>1
  <2> QED
    BY <2>1, <2>3, <2>4, <2>5
<1>38. CASE HandoverEnds
  <2>1. app.run \in 1..run /\ app' \in AppSet /\ app'.run = app.run
    BY <1>38 DEF HandoverEnds
  <2>2. remote' \in [dir : BOOLEAN, files : [Run -> {"none", "whole"}]]
    BY <1>38, <2>1 DEF HandoverEnds
  <2>3. past' = past \/ past' = [past EXCEPT !.dumped = @ \cup {app.run}]
    BY <1>38 DEF HandoverEnds
  <2>4. /\ DOMAIN past' = DOMAIN past /\ past'.dumped \subseteq Run
        /\ past'.done = past.done /\ past'.blind = past.blind
    BY <2>1, <2>3
  <2>5. Running /\ UNCHANGED <<run, unit, alive, reg, shutdown, fetched, psu, local, flicker>>
    BY <1>38 DEF HandoverEnds
  <2> QED
    BY <2>1, <2>2, <2>4, <2>5
<1>39. CASE AppExits
  BY <1>39 DEF AppExits
<1>40. CASE AppDies
  BY <1>40 DEF AppDies
<1>41. CASE AppStoppedByHand
  BY <1>41 DEF AppStoppedByHand, Terminated
<1> QED
  BY <1>1, <1>2, <1>3, <1>4, <1>5, <1>6, <1>7, <1>8, <1>9, <1>10, <1>11, <1>12, <1>13,
     <1>14, <1>15, <1>16, <1>17, <1>18, <1>19, <1>20, <1>21, <1>22, <1>23, <1>24, <1>25,
     <1>26, <1>27, <1>28, <1>29, <1>30, <1>31, <1>32, <1>33, <1>34, <1>35, <1>36, <1>37,
     <1>38, <1>39, <1>40, <1>41
     DEF Next, Process, Loop, Application

\* The same, step by step.
LEMMA Successors ==
    ASSUME RunTypeOK, PlaceInv, alive
    PROVE  /\ at = "connect" => After("connect") = "enable"
           /\ at = "enable" => After("enable") = "register"
           /\ at = "register" /\ unit \in {"cmc", "vmc"} => After("register") = "network"
           /\ at = "register" /\ unit = "mmc" => After("register") = "flicker"
           /\ at = "register" /\ unit = "hsn" => After("register") = "measure"
           /\ at = "network" /\ unit = "cmc" => After("network") = "trigger"
           /\ at = "network" /\ unit = "vmc" => After("network") = "contact"
           /\ at = "trigger" => After("trigger") = "flicker"
           /\ at = "flicker" /\ unit = "cmc" => After("flicker") = "contact"
           /\ at = "flicker" /\ unit = "mmc" => After("flicker") = "measure"
           /\ at = "contact" => After("contact") = "deploy"
           /\ at = "deploy" => After("deploy") = "launch"
           /\ at = "launch" => After("launch") = "reg_dpdk"
           /\ at = "reg_dpdk" /\ unit = "cmc" => After("reg_dpdk") = "hook"
           /\ at = "reg_dpdk" /\ unit = "vmc" => After("reg_dpdk") = "monitor"
           /\ at = "hook" => After("hook") = "monitor"
           /\ at = "unwatch" /\ unit = "cmc" => After("unwatch") = "flicker_stop"
           /\ at = "unwatch" /\ unit = "vmc" => After("unwatch") = "query"
           /\ at = "flicker_stop" /\ unit = "cmc" => After("flicker_stop") = "query"
           /\ at = "flicker_stop" /\ unit = "mmc" => After("flicker_stop") = "disable"
           /\ at = "unregister" /\ unit = "cmc" => After("unregister") = "fetch"
           /\ at = "unregister" /\ unit = "vmc" => After("unregister") = "fetch_log"
           /\ at = "disable" => After("disable") = "verify"
           /\ at = "verify" => After("verify") = "disconnect"
           /\ at = "disconnect" /\ unit \in {"cmc", "vmc"} => After("disconnect") = "success"
           /\ at = "disconnect" /\ unit \in {"mmc", "hsn"} => After("disconnect") = "power_off"
           /\ at = "fetch_log" /\ unit = "vmc" => After("fetch_log") = "disable"
           /\ at = "measure" /\ unit = "mmc" => After("measure") = "flicker_stop"
           /\ at = "measure" /\ unit = "hsn" => After("measure") = "disable"
           /\ at = "power_off" => After("power_off") = "success"
<1>1. unit \in {"cmc", "vmc", "mmc", "hsn"}
  BY UnitRunAssumption DEF RunTypeOK
<1>2. at \in DOMAIN Following[unit] => After(at) = Following[unit][at]
  BY <1>1, CmcAfter, VmcAfter, MmcAfter, HsnAfter DEF Following
<1>3. /\ at \in Places[unit] \cup {"call_shutdown"} \cup Stopping \cup Fetching \cup Down
      /\ at \in Fetching => unit = "cmc" \/ (unit = "vmc" /\ at = "fetch_log")
  BY DEF PlaceInv
<1>4. CASE unit = "cmc"
  BY <1>2, <1>3, <1>4 DEF Following, Places, Early, Ending, Stopping, Fetching, Down
<1>5. CASE unit = "vmc"
  BY <1>2, <1>3, <1>5 DEF Following, Places, Early, Ending, Stopping, Fetching, Down
<1>6. CASE unit = "mmc"
  BY <1>2, <1>3, <1>6 DEF Following, Places, Early, Ending, Stopping, Fetching, Down
<1>7. CASE unit = "hsn"
  BY <1>2, <1>3, <1>7 DEF Following, Places, Early, Ending, Stopping, Fetching, Down
<1> QED
  BY <1>1, <1>4, <1>5, <1>6, <1>7

\* A signal sends the process where a signal may send it.
LEMMA SignalKeepsPlace ==
    ASSUME RunTypeOK, PlaceInv, NEW sig \in {"INT", "TERM"}, NEW from, NEW to,
           Signal(sig, from, to)
    PROVE  PlaceInv'
<1>1. alive /\ UNCHANGED <<unit, reg>>
  BY DEF Signal
<1>2. \/ UNCHANGED <<alive, at, shutdown>>
      \/ ~alive' /\ at' = "ended"
      \/ alive' = alive /\ at' \in {"sd_outputs", "stuck"} /\ shutdown' # "no"
  BY DEF Signal, Deliver
<1>3. unit \in {"cmc", "vmc", "mmc", "hsn"}
  BY UnitRunAssumption DEF RunTypeOK
<1>4. CASE UNCHANGED <<alive, at, shutdown>>
  BY <1>1, <1>4 DEF PlaceInv
<1>5. CASE ~alive' /\ at' = "ended"
  BY <1>1, <1>5 DEF PlaceInv
<1>6. CASE alive' = alive /\ at' \in {"sd_outputs", "stuck"} /\ shutdown' # "no"
  BY <1>1, <1>3, <1>6 DEF PlaceInv, Places, Early, Stopping, Fetching, Down, Ending
<1> QED
  BY <1>2, <1>4, <1>5, <1>6

\* The process is where it can be.
LEMMA PlaceKept ==
    ASSUME RunTypeOK, PlaceInv, Next
    PROVE  PlaceInv'
<1> unit \in {"cmc", "vmc", "mmc", "hsn"}
  BY UnitRunAssumption DEF RunTypeOK
<1> USE DEF PlaceInv, procVars, benchVars, Places, Early, Stopping, Fetching, Down, Ending
<1>1. CASE Boot
  BY <1>1 DEF Boot, At
<1>2. CASE Connect
  BY <1>2, Successors DEF Connect, At, Succeeds, Fails
<1>3. CASE Enable
  BY <1>3, Successors DEF Enable, At, Succeeds, Fails
<1>4. CASE Register
  BY <1>4, Successors DEF Register
<1>5. CASE Network
  BY <1>5, Successors DEF Network, Passes, At, Succeeds, Fails
<1>6. CASE Trigger
  BY <1>6, Successors DEF Trigger, Passes, At, Succeeds, Fails
<1>7. CASE Measure
  BY <1>7, Successors DEF Measure, Passes, At, Succeeds, Fails
<1>8. CASE StartFlicker
  BY <1>8, Successors DEF StartFlicker, At
<1>9. CASE StopFlicker
  BY <1>9, Successors DEF StopFlicker, At, Succeeds
<1>10. CASE TestConnection
  BY <1>10, Successors DEF TestConnection, Prepare, GivesUp, At, Succeeds, Fails
<1>11. CASE DeployPrebuilt
  BY <1>11, Successors DEF DeployPrebuilt, Prepare, GivesUp, At, Succeeds, Fails
<1>12. CASE Launch
  <2>1. at = "launch" /\ alive /\ UNCHANGED <<alive, unit, reg, shutdown>>
    BY <1>12 DEF Launch, At
  <2>2. at' \in {After("launch"), "call_shutdown"}
    BY <1>12 DEF Launch, Succeeds, GivesUp, Fails
  <2>3. After("launch") = "reg_dpdk"
    BY <2>1, Successors
  <2> QED
    BY <2>1, <2>2, <2>3
<1>13. CASE Watch
  BY <1>13 DEF Watch, At
<1>14. CASE Monitor
  BY <1>14 DEF Monitor, At
<1>15. CASE Unwatch
  BY <1>15, Successors DEF Unwatch, At
<1>16. CASE Query
  BY <1>16 DEF Query, At, AfterStop
<1>17. CASE Terminate
  BY <1>17 DEF Terminate, At
<1>18. CASE Await
  BY <1>18 DEF Await, At, AfterStop
<1>19. CASE Kill
  BY <1>19 DEF Kill, At, AfterStop
<1>20. CASE Claim
  BY <1>20 DEF Claim, At, AfterFetch
<1>21. CASE FetchLog
  BY <1>21, Successors DEF FetchLog, At
<1>22. CASE FetchDirectory
  BY <1>22 DEF FetchDirectory, At, AfterFetch
<1>23. CASE Wipe
  BY <1>23 DEF Wipe, At, AfterFetch
<1>24. CASE Disable
  BY <1>24, Successors DEF Disable, At, Succeeds, Fails
<1>25. CASE Verify
  BY <1>25, Successors DEF Verify, At
<1>26. CASE Disconnect
  BY <1>26, Successors DEF Disconnect, At, Succeeds, Fails
<1>27. CASE PowerOff
  BY <1>27, Successors DEF PowerOff, At
<1>28. CASE Return
  BY <1>28 DEF Return
<1>29. CASE CallShutdown
  BY <1>29 DEF CallShutdown, At
<1>30. CASE ShutOutputs
  BY <1>30 DEF ShutOutputs, At
<1>31. CASE ShutConnections
  BY <1>31 DEF ShutConnections, At
<1>32. CASE ShutLogs
  BY <1>32 DEF ShutLogs, At
<1>33. CASE DogKill
  BY <1>33 DEF DogKill
<1>34. CASE StartRun
  <2>1. unit' \in {"cmc", "vmc", "mmc", "hsn"}
    BY <1>34, UnitRunAssumption DEF StartRun, unitSelector
  <2>2. alive' /\ at' = "boot" /\ reg' = {} /\ shutdown' = "no"
    BY <1>34 DEF StartRun
  <2> QED
    BY <2>1, <2>2
<1>35. CASE HandoverEnds
  BY <1>35 DEF HandoverEnds
<1>36. CASE AppExits
  BY <1>36 DEF AppExits
<1>37. CASE AppDies
  BY <1>37 DEF AppDies
<1>38. CASE AppStoppedByHand
  BY <1>38 DEF AppStoppedByHand
<1>39. CASE CtrlC \/ DogInt \/ DogTerm
  BY <1>39, SignalKeepsPlace DEF CtrlC, DogInt, DogTerm
<1> QED
  BY <1>1, <1>2, <1>3, <1>4, <1>5, <1>6, <1>7, <1>8, <1>9, <1>10, <1>11, <1>12, <1>13,
     <1>14, <1>15, <1>16, <1>17, <1>18, <1>19, <1>20, <1>21, <1>22, <1>23, <1>24, <1>25,
     <1>26, <1>27, <1>28, <1>29, <1>30, <1>31, <1>32, <1>33, <1>34, <1>35, <1>36, <1>37,
     <1>38, <1>39
     DEF Next, Process, Loop, Application

\* What a place says of the unit and of executeShutdown.
LEMMA PlaceFacts ==
    ASSUME RunTypeOK, PlaceInv, alive
    PROVE  /\ at \in {"trigger", "hook", "fetch", "fetch_dir", "wipe"} => unit = "cmc"
           /\ at \in {"network", "contact", "deploy", "launch", "reg_dpdk", "monitor",
                      "unwatch", "query", "term", "wait", "kill", "unregister", "fetch_log"}
                => unit \in {"cmc", "vmc"}
           /\ at \in {"flicker", "flicker_stop"} => unit \in {"cmc", "mmc"}
           /\ at \in {"measure", "power_off"} => unit \in {"mmc", "hsn"}
           /\ "dpdk" \in reg => unit \in {"cmc", "vmc"}
           /\ at \in {"sd_outputs", "sd_disconnect", "sd_logs", "sd_end", "stuck"}
                => shutdown # "no"
           /\ at \in {"boot", "connect", "enable", "register", "network", "trigger", "flicker",
                      "contact", "deploy", "launch", "reg_dpdk", "hook", "monitor", "unwatch",
                      "measure", "flicker_stop", "unregister", "disable", "verify",
                      "disconnect", "power_off", "success", "call_shutdown"}
                => shutdown = "no"
           /\ at = "fetch_log" /\ unit = "vmc" => shutdown = "no"
<1> unit \in {"cmc", "vmc", "mmc", "hsn"}
  BY UnitRunAssumption DEF RunTypeOK
<1> USE DEF PlaceInv, Places, Early, Stopping, Fetching, Down, Ending
<1>1. CASE unit = "cmc"
  BY <1>1
<1>2. CASE unit = "vmc"
  BY <1>2
<1>3. CASE unit = "mmc"
  BY <1>3
<1>4. CASE unit = "hsn"
  BY <1>4
<1> QED
  BY <1>1, <1>2, <1>3, <1>4

\* A signal ends the sequence, or changes nothing of what lies behind it.
LEMMA SignalKeepsSequence ==
    ASSUME RunTypeOK, PlaceInv, SequenceInv, NEW sig \in {"INT", "TERM"}, NEW from, NEW to,
           Signal(sig, from, to)
    PROVE  SequenceInv'
<1>1. alive /\ UNCHANGED <<run, unit, reg, psu, flicker>>
  BY DEF Signal
<1>2. \/ UNCHANGED <<alive, at, shutdown, app, past>>
      \/ ~alive' \/ shutdown' # "no"
  BY DEF Signal, Deliver
<1>3. CASE UNCHANGED <<alive, at, shutdown, app, past>>
  BY <1>1, <1>3 DEF SequenceInv, Running
<1> QED
  BY <1>2, <1>3 DEF SequenceInv

\* What a sequence has done stays done while it goes on.
LEMMA SequenceKept ==
    ASSUME RunTypeOK, PlaceInv, SequenceInv, StoppedInv, Next
    PROVE  SequenceInv'
<1> unit \in {"cmc", "vmc", "mmc", "hsn"}
  BY UnitRunAssumption DEF RunTypeOK
<1> USE DEF SequenceInv, Running, procVars, benchVars, Released, Watched, Fetching, Ending
<1>1. CASE Boot
  BY <1>1 DEF Boot, At
<1>2. CASE Connect
  BY <1>2, Successors DEF Connect, At, Succeeds, Fails
<1>3. CASE Enable
  BY <1>3, Successors DEF Enable, At, Succeeds, Fails
<1>4. CASE Register
  BY <1>4, Successors, PlaceFacts DEF Register
<1>5. CASE Network
  BY <1>5, Successors, PlaceFacts DEF Network, Passes, At, Succeeds, Fails
<1>6. CASE Trigger
  BY <1>6, Successors DEF Trigger, Passes, At, Succeeds, Fails
<1>7. CASE Measure
  BY <1>7, Successors, PlaceFacts DEF Measure, Passes, At, Succeeds, Fails
<1>8. CASE StartFlicker
  BY <1>8, Successors, PlaceFacts DEF StartFlicker, At
<1>9. CASE StopFlicker
  BY <1>9, Successors, PlaceFacts DEF StopFlicker, At, Succeeds
<1>10. CASE TestConnection
  BY <1>10, Successors DEF TestConnection, Prepare, GivesUp, At, Succeeds, Fails
<1>11. CASE DeployPrebuilt
  BY <1>11, Successors DEF DeployPrebuilt, Prepare, GivesUp, At, Succeeds, Fails
<1>12. CASE Launch
  BY <1>12, Successors DEF Launch, At, GivesUp, Succeeds, Fails
<1>13. CASE Watch
  BY <1>13 DEF Watch, At
<1>14. CASE Monitor
  BY <1>14 DEF Monitor, At
<1>15. CASE Unwatch
  BY <1>15, Successors, PlaceFacts DEF Unwatch, At
<1>16. CASE Query
  <2>1. /\ alive /\ at = "query" /\ app' = app
        /\ UNCHANGED <<run, unit, alive, shutdown, psu, reg, flicker>>
    BY <1>16 DEF Query, At
  <2>2. at' = "term" \/ (at' = AfterStop /\ (past'.blind \/ ~Running))
    BY <1>16 DEF Query, IsApplicationRunning, RunTypeOK
  <2>3. past'.blind \/ past' = past
    BY <1>16 DEF Query, IsApplicationRunning, RunTypeOK
  <2>4. unit \in {"cmc", "vmc"}
    BY <2>1, PlaceFacts
  <2> QED
    BY <2>1, <2>2, <2>3, <2>4 DEF AfterStop
<1>17. CASE Terminate
  BY <1>17 DEF Terminate, At, Lost
<1>18. CASE Await
  <2>1. /\ alive /\ at = "wait" /\ app' = app
        /\ UNCHANGED <<run, unit, alive, shutdown, psu, reg, flicker>>
    BY <1>18 DEF Await, At
  <2>2. at' = "kill" \/ (at' = AfterStop /\ (past'.blind \/ ~Running))
    BY <1>18 DEF Await, IsApplicationRunning, RunTypeOK
  <2>3. past'.blind \/ past' = past
    BY <1>18 DEF Await, IsApplicationRunning, RunTypeOK
  <2>4. unit \in {"cmc", "vmc"}
    BY <2>1, PlaceFacts
  <2> QED
    BY <2>1, <2>2, <2>3, <2>4 DEF AfterStop
<1>19. CASE Kill
  <2>1. /\ alive /\ at = "kill" /\ at' = AfterStop
        /\ UNCHANGED <<run, unit, alive, shutdown, psu, reg, flicker>>
    BY <1>19 DEF Kill, At
  <2>2. past'.blind \/ ~Running'
    BY <1>19 DEF Kill, Lost, RunTypeOK, AppSet
  <2>3. unit \in {"cmc", "vmc"}
    BY <2>1, PlaceFacts
  <2> QED
    BY <2>1, <2>2, <2>3 DEF AfterStop
<1>20. CASE Claim
  BY <1>20 DEF Claim, At, AfterFetch
<1>21. CASE FetchLog
  BY <1>21, Successors, PlaceFacts DEF FetchLog, At
<1>22. CASE FetchDirectory
  BY <1>22 DEF FetchDirectory, At, AfterFetch
<1>23. CASE Wipe
  <2>1. /\ alive /\ at = "wipe" /\ at' = AfterFetch
        /\ UNCHANGED <<run, unit, alive, shutdown, psu, reg, flicker, app>>
    BY <1>23 DEF Wipe, At
  <2>2. past'.blind = past.blind
    BY <1>23 DEF Wipe, RunTypeOK
  <2> QED
    BY <2>1, <2>2, PlaceFacts DEF AfterFetch
<1>24. CASE Disable
  BY <1>24, Successors DEF Disable, At, Succeeds, Fails
<1>25. CASE Verify
  BY <1>25, Successors DEF Verify, At
<1>26. CASE Disconnect
  <2>1. /\ alive /\ at = "disconnect"
        /\ UNCHANGED <<run, unit, alive, shutdown, app, past, flicker>>
    BY <1>26 DEF Disconnect, At
  <2>2. \/ at' = "call_shutdown"
        \/ /\ at' \in {"success", "power_off"}
           /\ psu' = [psu EXCEPT !.connected = FALSE] /\ reg' = reg \ {"connected"}
    BY <1>26, Successors DEF Disconnect, At, Succeeds, Fails
  <2>3. CASE at' = "call_shutdown"
    BY <2>1, <2>3
  <2>4. CASE /\ at' \in {"success", "power_off"}
             /\ psu' = [psu EXCEPT !.connected = FALSE] /\ reg' = reg \ {"connected"}
    <3>1. psu'.on = psu.on /\ psu'.connected = FALSE
      BY <2>4 DEF RunTypeOK
    <3> QED
      BY <2>1, <2>4, <3>1
  <2> QED
    BY <2>2, <2>3, <2>4
<1>27. CASE PowerOff
  BY <1>27, Successors DEF PowerOff, At
<1>28. CASE Return
  BY <1>28 DEF Return
<1>29. CASE CallShutdown
  BY <1>29 DEF CallShutdown, At
<1>30. CASE ShutOutputs
  BY <1>30 DEF ShutOutputs, At
<1>31. CASE ShutConnections
  BY <1>31 DEF ShutConnections, At
<1>32. CASE ShutLogs
  BY <1>32, PlaceFacts DEF ShutLogs, At
<1>33. CASE DogKill
  BY <1>33 DEF DogKill
<1>34. CASE StartRun
  <2>1. at' = "boot" /\ run' = run + 1 /\ flicker' = flicker
    BY <1>34 DEF StartRun
  <2>2. run' \notin flicker'
    BY <2>1 DEF RunTypeOK
  <2> QED
    BY <2>1, <2>2
<1>35. CASE HandoverEnds
  BY <1>35 DEF HandoverEnds
<1>36. CASE AppExits
  BY <1>36 DEF AppExits
<1>37. CASE AppDies
  BY <1>37 DEF AppDies
<1>38. CASE AppStoppedByHand
  BY <1>38 DEF AppStoppedByHand
<1>39. CASE CtrlC \/ DogInt \/ DogTerm
  BY <1>39, SignalKeepsSequence DEF CtrlC, DogInt, DogTerm
<1> QED
  BY <1>1, <1>2, <1>3, <1>4, <1>5, <1>6, <1>7, <1>8, <1>9, <1>10, <1>11, <1>12, <1>13,
     <1>14, <1>15, <1>16, <1>17, <1>18, <1>19, <1>20, <1>21, <1>22, <1>23, <1>24, <1>25,
     <1>26, <1>27, <1>28, <1>29, <1>30, <1>31, <1>32, <1>33, <1>34, <1>35, <1>36, <1>37,
     <1>38, <1>39
     DEF Next, Process, Loop, Application

\* A signal leads nobody past the stop of the application.
LEMMA SignalKeepsStopped ==
    ASSUME RunTypeOK, PlaceInv, StoppedInv, NEW sig \in {"INT", "TERM"}, NEW from, NEW to,
           Signal(sig, from, to)
    PROVE  StoppedInv'
<1>1. alive /\ UNCHANGED reg
  BY DEF Signal
<1>2. past'.blind = past.blind
  BY DEF Signal, RunTypeOK
<1>3. at = "launch" => "hook" \notin reg
  BY <1>1 DEF PlaceInv, Early
<1>4. \/ UNCHANGED <<at, app>>
      \/ ~alive'
      \/ at' \in {"sd_outputs", "stuck"} /\ (app' = app \/ at = "launch")
  BY DEF Signal, Deliver
<1> QED
  BY <1>1, <1>2, <1>3, <1>4 DEF StoppedInv, Running, Fetching

\* Whoever comes to the files comes past the stop of the application.
LEMMA StoppedKept ==
    ASSUME RunTypeOK, PlaceInv, StoppedInv, Next
    PROVE  StoppedInv'
<1> unit \in {"cmc", "vmc", "mmc", "hsn"}
  BY UnitRunAssumption DEF RunTypeOK
<1> USE DEF StoppedInv, Running, procVars, benchVars, Fetching
<1>1. CASE Boot
  BY <1>1 DEF Boot, At
<1>2. CASE Connect
  BY <1>2, Successors DEF Connect, At, Succeeds, Fails
<1>3. CASE Enable
  BY <1>3, Successors DEF Enable, At, Succeeds, Fails
<1>4. CASE Register
  BY <1>4, Successors, PlaceFacts DEF Register, PlaceInv
<1>5. CASE Network
  BY <1>5, Successors, PlaceFacts DEF Network, Passes, At, Succeeds, Fails
<1>6. CASE Trigger
  BY <1>6, Successors DEF Trigger, Passes, At, Succeeds, Fails
<1>7. CASE Measure
  BY <1>7, Successors, PlaceFacts DEF Measure, Passes, At, Succeeds, Fails
<1>8. CASE StartFlicker
  BY <1>8, Successors, PlaceFacts DEF StartFlicker, At
<1>9. CASE StopFlicker
  BY <1>9, Successors, PlaceFacts DEF StopFlicker, At, Succeeds
<1>10. CASE TestConnection
  BY <1>10, Successors DEF TestConnection, Prepare, GivesUp, At, Succeeds, Fails
<1>11. CASE DeployPrebuilt
  BY <1>11, Successors DEF DeployPrebuilt, Prepare, GivesUp, At, Succeeds, Fails
<1>12. CASE Launch
  BY <1>12, Successors DEF Launch, At, GivesUp, Succeeds, Fails, PlaceInv, Early
<1>13. CASE Watch
  BY <1>13 DEF Watch, At
<1>14. CASE Monitor
  BY <1>14 DEF Monitor, At
<1>15. CASE Unwatch
  BY <1>15, Successors, PlaceFacts DEF Unwatch, At
<1>16. CASE Query
  <2>1. /\ alive /\ at = "query" /\ app' = app /\ UNCHANGED <<alive, shutdown, reg>>
    BY <1>16 DEF Query, At
  <2>2. at' = "term" \/ (at' = AfterStop /\ (past'.blind \/ ~Running))
    BY <1>16 DEF Query, IsApplicationRunning, RunTypeOK
  <2>3. past'.blind \/ past' = past
    BY <1>16 DEF Query, IsApplicationRunning, RunTypeOK
  <2> QED
    BY <2>1, <2>2, <2>3 DEF AfterStop
<1>17. CASE Terminate
  <2>1. alive /\ at = "term" /\ at' = "wait" /\ UNCHANGED <<alive, reg>>
    BY <1>17 DEF Terminate, At
  <2>2. past'.blind = past.blind \/ past'.blind
    BY <1>17 DEF Terminate, Lost, RunTypeOK
  <2>3. Running' => Running
    BY <1>17 DEF Terminate
  <2> QED
    BY <2>1, <2>2, <2>3
<1>18. CASE Await
  <2>1. /\ alive /\ at = "wait" /\ app' = app /\ UNCHANGED <<alive, shutdown, reg>>
    BY <1>18 DEF Await, At
  <2>2. at' = "kill" \/ (at' = AfterStop /\ (past'.blind \/ ~Running))
    BY <1>18 DEF Await, IsApplicationRunning, RunTypeOK
  <2>3. past'.blind \/ past' = past
    BY <1>18 DEF Await, IsApplicationRunning, RunTypeOK
  <2> QED
    BY <2>1, <2>2, <2>3 DEF AfterStop
<1>19. CASE Kill
  <2>1. alive /\ at = "kill" /\ at' = AfterStop /\ UNCHANGED reg
    BY <1>19 DEF Kill, At
  <2>2. past'.blind \/ ~Running'
    BY <1>19 DEF Kill, Lost, RunTypeOK, AppSet
  <2> QED
    BY <2>1, <2>2 DEF AfterStop
<1>20. CASE Claim
  BY <1>20 DEF Claim, At, AfterFetch
<1>21. CASE FetchLog
  BY <1>21, Successors, PlaceFacts DEF FetchLog, At
<1>22. CASE FetchDirectory
  BY <1>22 DEF FetchDirectory, At, AfterFetch
<1>23. CASE Wipe
  <2>1. /\ alive /\ at = "wipe" /\ at' = AfterFetch /\ UNCHANGED <<alive, shutdown, reg, app>>
    BY <1>23 DEF Wipe, At
  <2>2. past'.blind = past.blind
    BY <1>23 DEF Wipe, RunTypeOK
  <2> QED
    BY <2>1, <2>2 DEF AfterFetch
<1>24. CASE Disable
  BY <1>24, Successors DEF Disable, At, Succeeds, Fails
<1>25. CASE Verify
  BY <1>25, Successors DEF Verify, At
<1>26. CASE Disconnect
  BY <1>26, Successors DEF Disconnect, At, Succeeds, Fails
<1>27. CASE PowerOff
  BY <1>27, Successors DEF PowerOff, At
<1>28. CASE Return
  BY <1>28 DEF Return
<1>29. CASE CallShutdown
  BY <1>29 DEF CallShutdown, At
<1>30. CASE ShutOutputs
  BY <1>30 DEF ShutOutputs, At
<1>31. CASE ShutConnections
  BY <1>31, PlaceFacts DEF ShutConnections, At
<1>32. CASE ShutLogs
  BY <1>32, PlaceFacts DEF ShutLogs, At
<1>33. CASE DogKill
  BY <1>33 DEF DogKill
<1>34. CASE StartRun
  BY <1>34 DEF StartRun, unitSelector
<1>35. CASE HandoverEnds
  BY <1>35 DEF HandoverEnds
<1>36. CASE AppExits
  BY <1>36 DEF AppExits
<1>37. CASE AppDies
  BY <1>37 DEF AppDies
<1>38. CASE AppStoppedByHand
  BY <1>38 DEF AppStoppedByHand
<1>39. CASE CtrlC \/ DogInt \/ DogTerm
  BY <1>39, SignalKeepsStopped DEF CtrlC, DogInt, DogTerm
<1> QED
  BY <1>1, <1>2, <1>3, <1>4, <1>5, <1>6, <1>7, <1>8, <1>9, <1>10, <1>11, <1>12, <1>13,
     <1>14, <1>15, <1>16, <1>17, <1>18, <1>19, <1>20, <1>21, <1>22, <1>23, <1>24, <1>25,
     <1>26, <1>27, <1>28, <1>29, <1>30, <1>31, <1>32, <1>33, <1>34, <1>35, <1>36, <1>37,
     <1>38, <1>39
     DEF Next, Process, Loop, Application

\* What the history remembers, it goes on remembering.
LEMMA PastKept ==
    ASSUME RunTypeOK, Next
    PROVE  /\ past.blind => past'.blind
           /\ Wipe \/ past'.done = past.done
           /\ HandoverEnds \/ past'.dumped = past.dumped
<1> USE DEF RunTypeOK, procVars, benchVars
<1>1. CASE \/ Connect \/ Enable \/ Register \/ Network \/ Trigger \/ Measure \/ StartFlicker
           \/ StopFlicker \/ TestConnection \/ DeployPrebuilt \/ Monitor \/ Unwatch
  BY <1>1
     DEF Connect, Enable, Register, Network, Trigger, Measure, StartFlicker, StopFlicker,
     TestConnection, DeployPrebuilt, Monitor, Unwatch, Passes, Prepare
<1>2. CASE \/ Claim \/ FetchLog \/ FetchDirectory \/ Disable \/ Verify \/ Disconnect
           \/ PowerOff \/ Return \/ CallShutdown \/ ShutOutputs \/ ShutConnections
           \/ ShutLogs \/ StartRun \/ AppExits \/ AppDies \/ AppStoppedByHand
  BY <1>2
     DEF Claim, FetchLog, FetchDirectory, Disable, Verify, Disconnect, PowerOff, Return,
     CallShutdown, ShutOutputs, ShutConnections, ShutLogs, StartRun, AppExits, AppDies,
     AppStoppedByHand, Passes, Prepare
<1>3. CASE Boot
  BY <1>3 DEF Boot
<1>4. CASE Launch
  BY <1>4 DEF Launch
<1>5. CASE Watch
  BY <1>5 DEF Watch
<1>6. CASE Query
  BY <1>6 DEF Query, IsApplicationRunning
<1>7. CASE Terminate
  BY <1>7 DEF Terminate, Lost
<1>8. CASE Await
  BY <1>8 DEF Await, IsApplicationRunning
<1>9. CASE Kill
  BY <1>9 DEF Kill, Lost
<1>10. CASE Wipe
  BY <1>10 DEF Wipe
<1>11. CASE HandoverEnds
  BY <1>11 DEF HandoverEnds
<1>12. CASE DogKill
  BY <1>12 DEF DogKill
<1>13. CASE CtrlC \/ DogInt \/ DogTerm
  BY <1>13 DEF CtrlC, DogInt, DogTerm, Signal
<1> QED
  BY <1>1, <1>2, <1>3, <1>4, <1>5, <1>6, <1>7, <1>8, <1>9, <1>10, <1>11, <1>12, <1>13
     DEF Next, Process, Loop, Application

\* What keeps the files on the PC and goes neither back to the start nor to the fetch.
LEMMA LocalFrame ==
    ASSUME LocalInv, UNCHANGED <<run, unit, fetched, local>>, past'.done = past.done,
           alive' => alive,
           \/ at' = at \/ {at, at'} \subseteq Early
           \/ at' \notin Early \cup {"fetch_log", "fetch_dir", "wipe"}
           \/ at' = "fetch_log" /\ unit # "cmc"
    PROVE  LocalInv'
BY DEF LocalInv, Empty, Early

\* A signal copies nothing.
LEMMA SignalKeepsLocal ==
    ASSUME RunTypeOK, LocalInv, NEW sig \in {"INT", "TERM"}, NEW from, NEW to,
           Signal(sig, from, to)
    PROVE  LocalInv'
<1>1. alive /\ UNCHANGED <<run, unit, fetched, local>>
  BY DEF Signal
<1>2. past'.done = past.done
  BY DEF Signal, RunTypeOK
<1>3. at' = at \/ ~alive' \/ at' \in {"sd_outputs", "stuck"}
  BY DEF Signal, Deliver
<1> QED
  BY <1>1, <1>2, <1>3 DEF LocalInv, Empty, Early

\* A run fills its own directory, once.
LEMMA LocalKept ==
    ASSUME RunTypeOK, PlaceInv, LocalInv, Next
    PROVE  LocalInv'
<1> unit \in {"cmc", "vmc", "mmc", "hsn"}
  BY UnitRunAssumption DEF RunTypeOK
<1> USE DEF LocalInv, Empty, procVars, benchVars, Early
<1>1. CASE Boot
  BY <1>1 DEF Boot, At
<1>2. CASE Connect
  BY <1>2, Successors DEF Connect, At, Succeeds, Fails
<1>3. CASE Enable
  BY <1>3, Successors DEF Enable, At, Succeeds, Fails
<1>4. CASE Register
  <2>1. /\ UNCHANGED <<run, unit, fetched, local, past>> /\ alive' = alive /\ alive
    BY <1>4 DEF Register
  <2>2. CASE at = "register"
    <3>1. at' \in {"network", "flicker", "measure"}
      BY <1>4, <2>1, <2>2, Successors DEF Register
    <3> QED
      BY <2>1, <2>2, <3>1, LocalFrame
  <2>3. CASE at \in {"reg_dpdk", "hook", "unregister"}
    <3>1. at' \in {"hook", "monitor", "fetch"} \/ (at' = "fetch_log" /\ unit = "vmc")
      BY <1>4, <2>1, <2>3, Successors, PlaceFacts DEF Register
    <3> QED
      BY <2>1, <3>1, LocalFrame
  <2> QED
    BY <1>4, <2>2, <2>3 DEF Register
<1>5. CASE Network
  BY <1>5, Successors DEF Network, Passes, At, Succeeds, Fails
<1>6. CASE Trigger
  BY <1>6, Successors DEF Trigger, Passes, At, Succeeds, Fails
<1>7. CASE Measure
  <2>1. /\ UNCHANGED <<run, unit, fetched, local>> /\ (alive' => alive)
        /\ at' = at \/ at' \notin Early \cup {"fetch_log", "fetch_dir", "wipe"}
                    \/ (at' = "fetch_log" /\ unit # "cmc")
    BY <1>7, Successors, PlaceFacts DEF Measure, Passes, At, Succeeds, Fails
  <2>2. past'.done = past.done
    BY <1>7 DEF Measure, Passes
  <2> QED
    BY <2>1, <2>2, LocalFrame
<1>8. CASE StartFlicker
  BY <1>8, Successors DEF StartFlicker, At
<1>9. CASE StopFlicker
  <2>1. /\ UNCHANGED <<run, unit, fetched, local>> /\ (alive' => alive)
        /\ at' = at \/ at' \notin Early \cup {"fetch_log", "fetch_dir", "wipe"}
                    \/ (at' = "fetch_log" /\ unit # "cmc")
    BY <1>9, Successors, PlaceFacts DEF StopFlicker, At, Succeeds
  <2>2. past'.done = past.done
    BY <1>9 DEF StopFlicker
  <2> QED
    BY <2>1, <2>2, LocalFrame
<1>10. CASE TestConnection
  BY <1>10, Successors DEF TestConnection, Prepare, GivesUp, At, Succeeds, Fails
<1>11. CASE DeployPrebuilt
  BY <1>11, Successors DEF DeployPrebuilt, Prepare, GivesUp, At, Succeeds, Fails
<1>12. CASE Launch
  <2>1. /\ UNCHANGED <<run, unit, fetched, local>> /\ alive' = alive
        /\ at' \in {"reg_dpdk", "call_shutdown"}
    BY <1>12, Successors DEF Launch, At, Succeeds, GivesUp, Fails
  <2>2. past'.done = past.done
    BY <1>12 DEF Launch, RunTypeOK
  <2> QED
    BY <2>1, <2>2, LocalFrame
<1>13. CASE Watch
  BY <1>13 DEF Watch, At
<1>14. CASE Monitor
  BY <1>14 DEF Monitor, At
<1>15. CASE Unwatch
  <2>1. /\ UNCHANGED <<run, unit, fetched, local>> /\ (alive' => alive)
        /\ at' = at \/ at' \notin Early \cup {"fetch_log", "fetch_dir", "wipe"}
                    \/ (at' = "fetch_log" /\ unit # "cmc")
    BY <1>15, Successors, PlaceFacts DEF Unwatch, At
  <2>2. past'.done = past.done
    BY <1>15 DEF Unwatch
  <2> QED
    BY <2>1, <2>2, LocalFrame
<1>16. CASE Query
  <2>1. /\ UNCHANGED <<run, unit, fetched, local>> /\ (alive' => alive)
        /\ at' = at \/ at' \notin Early \cup {"fetch_log", "fetch_dir", "wipe"}
                    \/ (at' = "fetch_log" /\ unit # "cmc")
    BY <1>16 DEF Query, At, AfterStop
  <2>2. past'.done = past.done
    BY <1>16, PastKept DEF Wipe, Query, At
  <2> QED
    BY <2>1, <2>2, LocalFrame
<1>17. CASE Terminate
  <2>1. /\ UNCHANGED <<run, unit, fetched, local>> /\ (alive' => alive)
        /\ at' = at \/ at' \notin Early \cup {"fetch_log", "fetch_dir", "wipe"}
                    \/ (at' = "fetch_log" /\ unit # "cmc")
    BY <1>17 DEF Terminate, At
  <2>2. past'.done = past.done
    BY <1>17, PastKept DEF Wipe, Terminate, At
  <2> QED
    BY <2>1, <2>2, LocalFrame
<1>18. CASE Await
  <2>1. /\ UNCHANGED <<run, unit, fetched, local>> /\ (alive' => alive)
        /\ at' = at \/ at' \notin Early \cup {"fetch_log", "fetch_dir", "wipe"}
                    \/ (at' = "fetch_log" /\ unit # "cmc")
    BY <1>18 DEF Await, At, AfterStop
  <2>2. past'.done = past.done
    BY <1>18, PastKept DEF Wipe, Await, At
  <2> QED
    BY <2>1, <2>2, LocalFrame
<1>19. CASE Kill
  <2>1. /\ UNCHANGED <<run, unit, fetched, local>> /\ (alive' => alive)
        /\ at' = at \/ at' \notin Early \cup {"fetch_log", "fetch_dir", "wipe"}
                    \/ (at' = "fetch_log" /\ unit # "cmc")
    BY <1>19 DEF Kill, At, AfterStop
  <2>2. past'.done = past.done
    BY <1>19, PastKept DEF Wipe, Kill, At
  <2> QED
    BY <2>1, <2>2, LocalFrame
<1>20. CASE Claim
  BY <1>20, PlaceFacts DEF Claim, At, AfterFetch
<1>21. CASE FetchLog
  BY <1>21, Successors, PlaceFacts DEF FetchLog, At
<1>22. CASE FetchDirectory
  <2>1. /\ alive /\ at = "fetch_dir" /\ at' \notin Early \cup {"fetch_log", "fetch_dir"}
        /\ UNCHANGED <<run, unit, fetched>> /\ past' = past
    BY <1>22 DEF FetchDirectory, At, AfterFetch
  <2>2. unit = "cmc" /\ fetched
    BY <2>1, PlaceFacts
  <2>3. \A r \in Run : r # run => local'[r] = local[r]
    BY <1>22 DEF FetchDirectory, RunTypeOK
  <2>4. run \in 0..MaxRuns
    BY DEF RunTypeOK
  <2>5. \A r \in Run : r > run => Empty(r)'
    BY <2>3, <2>4 DEF Run
  <2> QED
    BY <2>1, <2>2, <2>5
<1>23. CASE Wipe
  BY <1>23, PlaceFacts DEF Wipe, At, AfterFetch
<1>24. CASE Disable
  BY <1>24, Successors DEF Disable, At, Succeeds, Fails
<1>25. CASE Verify
  BY <1>25, Successors DEF Verify, At
<1>26. CASE Disconnect
  BY <1>26, Successors DEF Disconnect, At, Succeeds, Fails
<1>27. CASE PowerOff
  BY <1>27, Successors DEF PowerOff, At
<1>28. CASE Return
  BY <1>28 DEF Return
<1>29. CASE CallShutdown
  BY <1>29 DEF CallShutdown, At
<1>30. CASE ShutOutputs
  BY <1>30 DEF ShutOutputs, At
<1>31. CASE ShutConnections
  BY <1>31 DEF ShutConnections, At
<1>32. CASE ShutLogs
  BY <1>32 DEF ShutLogs, At
<1>33. CASE DogKill
  BY <1>33 DEF DogKill
<1>34. CASE StartRun
  <2>1. /\ run' = run + 1 /\ run < MaxRuns /\ at' = "boot" /\ fetched' = FALSE
        /\ UNCHANGED <<local, past>>
    BY <1>34 DEF StartRun
  <2>2. run' \in Run /\ run' > run /\ run' \notin past.done /\ run \in Int
    BY <2>1, UnitRunAssumption DEF RunTypeOK, Run
  <2>3. \A r \in Run : r > run' => r > run
    BY <2>1, <2>2 DEF Run
  <2> QED
    BY <2>1, <2>2, <2>3
<1>35. CASE HandoverEnds
  BY <1>35 DEF HandoverEnds
<1>36. CASE AppExits
  BY <1>36 DEF AppExits
<1>37. CASE AppDies
  BY <1>37 DEF AppDies
<1>38. CASE AppStoppedByHand
  BY <1>38 DEF AppStoppedByHand
<1>39. CASE CtrlC \/ DogInt \/ DogTerm
  BY <1>39, SignalKeepsLocal DEF CtrlC, DogInt, DogTerm
<1> QED
  BY <1>1, <1>2, <1>3, <1>4, <1>5, <1>6, <1>7, <1>8, <1>9, <1>10, <1>11, <1>12, <1>13,
     <1>14, <1>15, <1>16, <1>17, <1>18, <1>19, <1>20, <1>21, <1>22, <1>23, <1>24, <1>25,
     <1>26, <1>27, <1>28, <1>29, <1>30, <1>31, <1>32, <1>33, <1>34, <1>35, <1>36, <1>37,
     <1>38, <1>39
     DEF Next, Process, Loop, Application

\* What leaves the files where they are.
LEMMA FilesFrame ==
    ASSUME FilesInv, UNCHANGED local, remote'.files = remote.files,
           past'.done = past.done, past'.dumped = past.dumped, past.blind => past'.blind,
           alive' /\ at' = "wipe" => alive /\ at = "wipe" /\ run' = run,
           Running' => app'.run \notin past.done
    PROVE  FilesInv'
BY DEF FilesInv, FilesKept, Whole

\* scp: the directory of the run was empty, and is now that of the server.
LEMMA FetchKeepsFiles ==
    ASSUME RunTypeOK, PlaceInv, StoppedInv, LocalInv, FilesInv, FetchDirectory
    PROVE  FilesInv'
<1>1. /\ alive /\ at = "fetch_dir" /\ UNCHANGED <<run, alive, app, remote, past>>
      /\ \/ local' = [local EXCEPT ![run] = remote.files]
         \/ at' # "wipe" /\ local' = local
  BY DEF FetchDirectory, At, AfterFetch, procVars
<1>2. CASE at' # "wipe" /\ local' = local
  BY <1>1, <1>2, FilesFrame DEF FilesInv, Running
<1>3. CASE local' = [local EXCEPT ![run] = remote.files] /\ ~past.blind
  <2>1. unit = "cmc"
    BY <1>1, PlaceFacts
  <2>2. Empty(run)
    BY <1>1, <2>1 DEF LocalInv
  <2>3. run \in Run
    BY <1>1, UnitRunAssumption DEF RunTypeOK, Run
  <2>4. local'[run] = remote.files /\ \A r \in Run : r # run => local'[r] = local[r]
    BY <1>3, <2>3 DEF RunTypeOK
  <2>5. /\ \A q \in past.done : remote.files[q] # "whole"
        /\ Running => app.run \notin past.done
        /\ FilesKept
    BY <1>3 DEF FilesInv
  <2>6. \A r \in past.dumped : Whole(remote.files, r) \/ \E q \in Run : Whole(local'[q], r)
    <3> SUFFICES ASSUME NEW r \in past.dumped, NEW q \in Run, Whole(local[q], r)
                 PROVE  \E p \in Run : Whole(local'[p], r)
      BY <1>3, <2>5 DEF FilesKept
    <3>1. r \in Run
      BY DEF RunTypeOK
    <3>2. q # run
      BY <2>2, <3>1 DEF Empty, Whole
    <3> QED
      BY <2>4, <3>2
  <2>7. \A q \in past.done : \A r \in Run : r > q => ~Whole(local'[r], q)
    BY <1>3, <2>4, <2>5 DEF FilesKept, Whole
  <2> QED
    BY <1>1, <2>4, <2>5, <2>6, <2>7 DEF FilesInv, FilesKept, Running
<1>4. CASE past.blind
  BY <1>1, <1>4 DEF FilesInv
<1> QED
  BY <1>1, <1>2, <1>3, <1>4

\* rm -rf: the last copies are those on the PC.
LEMMA WipeKeepsFiles ==
    ASSUME RunTypeOK, PlaceInv, StoppedInv, LocalInv, FilesInv, Wipe
    PROVE  FilesInv'
<1>1. /\ alive /\ at = "wipe" /\ at' # "wipe" /\ UNCHANGED <<run, alive, app, local>>
      /\ past'.blind = past.blind /\ past'.dumped = past.dumped
  BY DEF Wipe, At, AfterFetch, procVars, RunTypeOK
<1>2. CASE past.blind
  BY <1>1, <1>2 DEF FilesInv
<1>3. CASE ~past.blind /\ UNCHANGED <<remote, past>>
  BY <1>1, <1>3, FilesFrame DEF FilesInv, Running
<1>4. CASE /\ ~past.blind /\ remote' = [dir |-> FALSE, files |-> NoFiles]
           /\ past' = [past EXCEPT !.done = @ \cup {run}]
  <2>1. past'.done = past.done \cup {run}
    BY <1>4 DEF RunTypeOK
  <2>2. \A q \in Run : remote'.files[q] = "none"
    BY <1>4 DEF NoFiles
  <2>3. ~Running
    BY <1>1, <1>4 DEF StoppedInv, Fetching
  <2>4. local[run] = remote.files /\ FilesKept
    BY <1>1, <1>4 DEF FilesInv
  <2>5. run \in Run /\ past.done \subseteq Run
    BY <1>1, UnitRunAssumption DEF RunTypeOK, Run
  <2>6. \A r \in past.dumped : \E q \in Run : Whole(local[q], r)
    BY <1>4, <2>4, <2>5 DEF FilesKept, Whole
  <2>7. \A q \in past.done : \A r \in Run : r > q => ~Whole(local[r], q)
    BY <1>4, <2>4 DEF FilesKept
  <2>8. \A r \in Run : r > run => ~Whole(local[r], run)
    BY <2>5 DEF LocalInv, Empty, Whole
  <2> QED
    BY <1>1, <2>1, <2>2, <2>3, <2>5, <2>6, <2>7, <2>8 DEF FilesInv, FilesKept, Running
<1> QED
  BY <1>1, <1>2, <1>3, <1>4 DEF Wipe

\* The hand-over writes on the server, and nobody is fetching.
LEMMA HandoverKeepsFiles ==
    ASSUME RunTypeOK, StoppedInv, FilesInv, HandoverEnds
    PROVE  FilesInv'
<1>1. /\ Running /\ UNCHANGED <<run, alive, at, local>> /\ app'.run = app.run
      /\ past'.blind = past.blind /\ past'.done = past.done
  BY DEF HandoverEnds, procVars, RunTypeOK, AppSet, Running
<1>2. app.run \in Run
  BY <1>1, UnitRunAssumption DEF RunTypeOK, Run
<1>3. CASE past.blind
  BY <1>1, <1>3 DEF FilesInv
<1>4. CASE ~past.blind /\ UNCHANGED <<remote, past>>
  BY <1>1, <1>4, FilesFrame DEF FilesInv
<1>5. CASE /\ ~past.blind /\ remote' = [remote EXCEPT !.files[app.run] = "whole"]
           /\ past' = [past EXCEPT !.dumped = @ \cup {app.run}]
  <2>1. /\ remote'.files[app.run] = "whole"
        /\ \A r \in Run : r # app.run => remote'.files[r] = remote.files[r]
    BY <1>2, <1>5 DEF RunTypeOK
  <2>2. past'.dumped = past.dumped \cup {app.run} /\ past.dumped \subseteq Run
    BY <1>5 DEF RunTypeOK
  <2>3. ~(alive /\ at = "wipe")
    BY <1>1, <1>5 DEF StoppedInv, Fetching
  <2>4. /\ \A q \in past.done : remote.files[q] # "whole"
        /\ app.run \notin past.done
        /\ FilesKept
    BY <1>1, <1>5 DEF FilesInv
  <2>5. past.done \subseteq Run
    BY UnitRunAssumption DEF RunTypeOK, Run
  <2>6. \A q \in past.done : remote'.files[q] # "whole"
    BY <2>1, <2>4, <2>5
  <2>7. \A r \in past'.dumped : Whole(remote'.files, r) \/ \E q \in Run : Whole(local[q], r)
    BY <1>5, <2>1, <2>2, <2>4 DEF FilesKept, Whole
  <2>8. \A q \in past.done : \A r \in Run : r > q => ~Whole(local[r], q)
    BY <1>5, <2>4 DEF FilesKept
  <2> QED
    BY <1>1, <2>3, <2>4, <2>6, <2>7, <2>8 DEF FilesInv, FilesKept
<1> QED
  BY <1>3, <1>4, <1>5 DEF HandoverEnds

\* A launch is of a run that has fetched nothing.
LEMMA LaunchIsNew ==
    ASSUME RunTypeOK, LocalInv, FilesInv, alive, at = "launch", ~past.blind
    PROVE  Started.run \notin past.done
<1>1. run \notin past.done
  BY DEF LocalInv, Early
<1>2. Running => app.run \notin past.done
  BY DEF FilesInv
<1> QED
  BY <1>1, <1>2, StartedApp

\* A signal takes no file away.
LEMMA SignalKeepsFiles ==
    ASSUME RunTypeOK, LocalInv, FilesInv, NEW sig \in {"INT", "TERM"}, NEW from, NEW to,
           Signal(sig, from, to)
    PROVE  FilesInv'
<1>1. alive /\ UNCHANGED <<run, local>>
  BY DEF Signal
<1>2. /\ past'.done = past.done /\ past'.dumped = past.dumped /\ past'.blind = past.blind
      /\ remote'.files = remote.files
  BY DEF Signal, RunTypeOK
<1>3. alive' /\ at' = "wipe" => at = "wipe"
  BY DEF Signal, Deliver
<1>4. app' = app \/ (app' = Started /\ at = "launch")
  BY DEF Signal, Deliver
<1>5. CASE past.blind
  BY <1>2, <1>5 DEF FilesInv
<1>6. CASE ~past.blind
  <2>1. Running' => app'.run \notin past.done
    BY <1>1, <1>4, <1>6, LaunchIsNew DEF FilesInv, Running
  <2> QED
    BY <1>1, <1>2, <1>3, <2>1, FilesFrame
<1> QED
  BY <1>5, <1>6

\* No last copy goes, and no copy turns up again.
LEMMA FilesStayKept ==
    ASSUME RunTypeOK, PlaceInv, StoppedInv, LocalInv, FilesInv, Next
    PROVE  FilesInv'
<1> unit \in {"cmc", "vmc", "mmc", "hsn"}
  BY UnitRunAssumption DEF RunTypeOK
<1>1. CASE FetchDirectory
  BY <1>1, FetchKeepsFiles
<1>2. CASE Wipe
  BY <1>2, WipeKeepsFiles
<1>3. CASE HandoverEnds
  BY <1>3, HandoverKeepsFiles
<1>4. CASE CtrlC \/ DogInt \/ DogTerm
  BY <1>4, SignalKeepsFiles DEF CtrlC, DogInt, DogTerm
<1>5. CASE Launch
  <2>1. /\ alive /\ at = "launch" /\ at' \in {"reg_dpdk", "call_shutdown"}
        /\ app' \in {app, Started} /\ UNCHANGED local
    BY <1>5, Successors DEF Launch, At, Succeeds, GivesUp, Fails, executeInteractive
  <2>2. remote'.files = remote.files
    BY <1>5 DEF Launch, RunTypeOK
  <2>3. /\ past'.done = past.done /\ past'.dumped = past.dumped /\ past'.blind = past.blind
    BY <1>5 DEF Launch, RunTypeOK
  <2>4. CASE past.blind
    BY <2>3, <2>4 DEF FilesInv
  <2>5. CASE ~past.blind
    <3>1. Running' => app'.run \notin past.done
      BY <2>1, <2>5, LaunchIsNew DEF FilesInv, Running
    <3> QED
      BY <2>1, <2>2, <2>3, <3>1, FilesFrame
  <2> QED
    BY <2>4, <2>5
<1>6. CASE StartRun
  <2>1. at' = "boot" /\ UNCHANGED <<app, remote, local, past>>
    BY <1>6 DEF StartRun, benchVars
  <2>2. CASE ~past.blind
    BY <2>1, <2>2, FilesFrame DEF FilesInv, Running
  <2> QED
    BY <2>1, <2>2 DEF FilesInv
<1>7. ASSUME UNCHANGED <<run, remote, local>>, alive' => alive, at' # "wipe" \/ at' = at,
             app' = app \/ app'.phase = "none" \/ (Running /\ app'.run = app.run),
             past'.done = past.done, past'.dumped = past.dumped
      PROVE  FilesInv'
  <2>1. past.blind => past'.blind
    BY PastKept
  <2>2. CASE past.blind
    BY <2>1, <2>2 DEF FilesInv
  <2>3. CASE ~past.blind
    BY <1>7, <2>1, <2>3, FilesFrame DEF FilesInv, Running
  <2> QED
    BY <2>2, <2>3
<1> USE DEF procVars, benchVars
<1>8. CASE Boot
  BY <1>8, <1>7, PastKept DEF Boot, At, RunTypeOK
<1>9. CASE Connect
  BY <1>9, <1>7, Successors, PlaceFacts DEF Connect, At, Succeeds, Fails
<1>10. CASE Enable
  BY <1>10, <1>7, Successors, PlaceFacts DEF Enable, At, Succeeds, Fails
<1>11. CASE Register
  <2>1. UNCHANGED <<run, app, remote, local, past, alive>> /\ alive
    BY <1>11 DEF Register
  <2>2. at' # "wipe"
    <3>1. at = "register" => at' \in {"network", "flicker", "measure"}
      BY <1>11, <2>1, Successors DEF Register
    <3>2. at \in {"reg_dpdk", "hook", "unregister"}
            => at' \in {"hook", "monitor", "fetch", "fetch_log"}
      BY <1>11, <2>1, Successors, PlaceFacts DEF Register
    <3> QED
      BY <1>11, <3>1, <3>2 DEF Register
  <2> QED
    BY <2>1, <2>2, <1>7
<1>12. CASE Network
  BY <1>12, <1>7, Successors, PlaceFacts DEF Network, Passes, At, Succeeds, Fails
<1>13. CASE Trigger
  BY <1>13, <1>7, Successors, PlaceFacts DEF Trigger, Passes, At, Succeeds, Fails
<1>14. CASE Measure
  BY <1>14, <1>7, Successors, PlaceFacts DEF Measure, Passes, At, Succeeds, Fails
<1>15. CASE StartFlicker
  BY <1>15, <1>7, Successors, PlaceFacts DEF StartFlicker, At
<1>16. CASE StopFlicker
  BY <1>16, <1>7, Successors, PlaceFacts DEF StopFlicker, At, Succeeds
<1>17. CASE TestConnection
  BY <1>17, <1>7, Successors, PlaceFacts DEF TestConnection, Prepare, GivesUp, At, Succeeds,
     Fails
<1>18. CASE DeployPrebuilt
  BY <1>18, <1>7, Successors, PlaceFacts DEF DeployPrebuilt, Prepare, GivesUp, At, Succeeds,
     Fails
<1>19. CASE Watch
  BY <1>19, <1>7, PastKept DEF Watch, At, RunTypeOK
<1>20. CASE Monitor
  BY <1>20, <1>7 DEF Monitor, At
<1>21. CASE Unwatch
  BY <1>21, <1>7, Successors, PlaceFacts DEF Unwatch, At
<1>22. CASE Query
  BY <1>22, <1>7, PastKept DEF Query, At, AfterStop, IsApplicationRunning, Wipe,
     HandoverEnds, IsApplicationRunning
<1>23. CASE Terminate
  <2>1. app' = app \/ (Running /\ app'.run = app.run)
    BY <1>23, TerminatedApp DEF Terminate
  <2> QED
    BY <1>23, <2>1, <1>7, PastKept DEF Terminate, Wipe, HandoverEnds, At
<1>24. CASE Await
  BY <1>24, <1>7, PastKept DEF Await, At, AfterStop, IsApplicationRunning, Wipe,
     HandoverEnds, IsApplicationRunning
<1>25. CASE Kill
  <2>1. app' = app \/ app'.phase = "none"
    BY <1>25 DEF Kill, RunTypeOK, AppSet
  <2>2. alive' = alive /\ at' # "wipe" /\ UNCHANGED <<run, remote, local>>
    BY <1>25 DEF Kill, AfterStop
  <2>3. past'.done = past.done /\ past'.dumped = past.dumped
    BY <1>25 DEF Kill, Lost, RunTypeOK
  <2> QED
    BY <2>1, <2>2, <2>3, <1>7
<1>26. CASE Claim
  BY <1>26, <1>7 DEF Claim, At, AfterFetch
<1>27. CASE FetchLog
  BY <1>27, <1>7, Successors, PlaceFacts DEF FetchLog, At
<1>28. CASE Disable
  BY <1>28, <1>7, Successors, PlaceFacts DEF Disable, At, Succeeds, Fails
<1>29. CASE Verify
  BY <1>29, <1>7, Successors, PlaceFacts DEF Verify, At
<1>30. CASE Disconnect
  <2>1. UNCHANGED <<run, app, remote, local, past, alive>> /\ at' # "wipe"
    BY <1>30, Successors DEF Disconnect, At, Succeeds, Fails
  <2> QED
    BY <2>1, <1>7
<1>31. CASE PowerOff
  BY <1>31, <1>7, Successors, PlaceFacts DEF PowerOff, At, RunTypeOK, AppSet
<1>32. CASE Return
  BY <1>32, <1>7 DEF Return
<1>33. CASE CallShutdown
  BY <1>33, <1>7 DEF CallShutdown, At
<1>34. CASE ShutOutputs
  BY <1>34, <1>7 DEF ShutOutputs, At
<1>35. CASE ShutConnections
  BY <1>35, <1>7 DEF ShutConnections, At
<1>36. CASE ShutLogs
  BY <1>36, <1>7 DEF ShutLogs, At
<1>37. CASE DogKill
  BY <1>37, <1>7, PastKept DEF DogKill, RunTypeOK
<1>38. CASE AppExits
  BY <1>38, <1>7 DEF AppExits, RunTypeOK, AppSet
<1>39. CASE AppDies
  BY <1>39, <1>7 DEF AppDies, RunTypeOK, AppSet
<1>40. CASE AppStoppedByHand
  <2>1. app' = app \/ (Running /\ app'.run = app.run)
    BY <1>40, TerminatedApp DEF AppStoppedByHand
  <2> QED
    BY <1>40, <2>1, <1>7, PastKept DEF AppStoppedByHand, Wipe, HandoverEnds, At
<1> QED
  BY <1>1, <1>2, <1>3, <1>4, <1>5, <1>6, <1>8, <1>9, <1>10, <1>11, <1>12, <1>13, <1>14,
     <1>15, <1>16, <1>17, <1>18, <1>19, <1>20, <1>21, <1>22, <1>23, <1>24, <1>25, <1>26,
     <1>27, <1>28, <1>29, <1>30, <1>31, <1>32, <1>33, <1>34, <1>35, <1>36, <1>37, <1>38,
     <1>39, <1>40
     DEF Next, Process, Loop, Application

-----------------------------------------------------------------------------
(* The theorems about the runs.                                            *)

\* The invariant holds when the loop starts ...
LEMMA RunInvInit == Init => RunInv
<1> SUFFICES ASSUME Init PROVE RunInv
  OBVIOUS
<1>1. RunTypeOK
  <2>1. /\ app \in AppSet /\ ~Running
    BY UnitRunAssumption DEF Init, NoApp, AppSet, Running
  <2>2. NoFiles \in [Run -> {"none", "whole"}]
    BY DEF NoFiles
  <2>3. /\ psu = [on |-> FALSE, connected |-> FALSE]
        /\ remote = [dir |-> FALSE, files |-> NoFiles]
        /\ local = [r \in Run |-> NoFiles]
    BY DEF Init
  <2>4. /\ psu \in [on : BOOLEAN, connected : BOOLEAN]
        /\ remote \in [dir : BOOLEAN, files : [Run -> {"none", "whole"}]]
        /\ local \in [Run -> [Run -> {"none", "whole"}]]
    BY <2>2, <2>3
  <2>5. /\ DOMAIN past = {"kind", "dumped", "cut", "done", "watched", "blind", "boot_failed",
                          "odds"}
        /\ past.dumped = {} /\ past.done = {} /\ past.blind = FALSE
    BY DEF Init
  <2>6. /\ run = 0 /\ unit \in Units /\ alive = FALSE /\ fetched = FALSE /\ reg = {}
        /\ shutdown = "no" /\ flicker = {}
    BY DEF Init, unitSelector
  <2>7. run \in 0..MaxRuns
    BY <2>6, UnitRunAssumption
  <2>8. past.dumped \subseteq Run /\ past.done \subseteq 1..run /\ flicker \subseteq 1..run
    BY <2>5, <2>6
  <2>9. past.blind \in BOOLEAN
    BY <2>5
  <2> QED
    BY <2>1, <2>4, <2>5, <2>6, <2>7, <2>8, <2>9 DEF RunTypeOK
<1>2. PlaceInv /\ SequenceInv /\ StoppedInv
  BY DEF Init, PlaceInv, SequenceInv, StoppedInv
<1>3. LocalInv
  BY DEF Init, LocalInv, Empty, NoFiles
<1>4. FilesInv
  BY DEF Init, FilesInv, FilesKept, NoApp, Running
<1> QED
  BY <1>1, <1>2, <1>3, <1>4 DEF RunInv

\* ... and every step keeps it.
LEMMA RunInvKept == RunInv /\ [Next]_vars => RunInv'
<1> SUFFICES ASSUME RunInv, [Next]_vars PROVE RunInv'
  OBVIOUS
<1>1. CASE Next
  BY <1>1, TypeKept, PlaceKept, SequenceKept, StoppedKept, LocalKept, FilesStayKept
     DEF RunInv
<1>2. CASE UNCHANGED vars
  BY <1>2 DEF vars, RunInv, RunTypeOK, PlaceInv, SequenceInv, StoppedInv, LocalInv, FilesInv,
              FilesKept, Running, Empty, Whole
<1> QED
  BY <1>1, <1>2

\* For any number of runs, of any units in any order, of signals and of faults: no hand-over
\* loses its last copy, and none turns up among the files of a later run.
THEOREM FilesKeptHolds == Spec => []FilesKept
<1>1. RunInv => FilesKept
  BY DEF RunInv, FilesInv, FilesKept
<1> QED
  BY RunInvInit, RunInvKept, <1>1, PTL DEF Spec

\* ... a sequence that comes to its end leaves the unit without power, nothing registered,
\* no FlickerDetection and, unless it is one that does not look, no application.
THEOREM CleanRunHolds == Spec => []CleanRunLeavesNothing
<1>1. RunInv => CleanRunLeavesNothing
  <2> SUFFICES ASSUME RunInv, at = "success" PROVE CleanRunLeavesNothing
    BY DEF CleanRunLeavesNothing
  <2>1. alive
    BY DEF RunInv, PlaceInv
  <2>2. shutdown = "no"
    BY <2>1, PlaceFacts DEF RunInv
  <2>3. unit \in {"cmc", "vmc", "mmc", "hsn"}
    BY UnitRunAssumption DEF RunInv, RunTypeOK
  <2> QED
    BY <2>1, <2>2, <2>3 DEF RunInv, SequenceInv, CleanRunLeavesNothing, Released, Fetching,
                            Ending, Watched
<1> QED
  BY RunInvInit, RunInvKept, <1>1, PTL DEF Spec

-----------------------------------------------------------------------------
(* Powering the server.                                                    *)

OutcomeSet == [ok : BOOLEAN, power : Power, odds : 0..BootOdds]

\* A server that is on and does not come up has cost something before.
Lag(server) == IF server = "hung" THEN 1 ELSE 0

\* What the four calls of a round do to the server, and what they use up: on, ...
LEMMA OnIs ==
    ASSUME NEW server \in Power, NEW odds \in 0..BootOdds, NEW r \in on(server, odds)
    PROVE  /\ r \in OutcomeSet /\ r.odds <= odds
           /\ server # "off" => r.power = server
           /\ ~r.ok => r.power = server /\ r.odds + 1 <= odds
           /\ r.ok /\ server = "off" =>
                \/ r.power = "booting"
                \/ r.power = "off" /\ r.odds + 1 <= odds
<1>1. odds \in Nat /\ odds <= BootOdds /\ BootOdds \in Nat
  BY ServerAssumption
<1>2. PICK q \in getPowerState(server, odds) :
         r \in IF q.seen = "On" THEN {Outcome(TRUE, server, q.odds)}
               ELSE {Outcome(TRUE, IF server = "off" THEN "booting" ELSE server, q.odds)}
                    \cup {Outcome(FALSE, server, k) : k \in {q.odds - 1} \cap Nat}
  BY DEF on
<1>3. /\ q.odds \in Nat
      /\ \/ q.odds = odds /\ q.seen = IF server = "off" THEN "Off" ELSE "On"
         \/ q.odds = odds - 1 /\ q.seen \in {"On", "Unknown"}
  BY <1>1 DEF getPowerState
<1>4. CASE r = Outcome(TRUE, server, q.odds) /\ q.seen = "On"
  BY <1>1, <1>3, <1>4 DEF Outcome, OutcomeSet
<1>5. CASE r = Outcome(TRUE, IF server = "off" THEN "booting" ELSE server, q.odds)
  BY <1>1, <1>3, <1>5 DEF Outcome, OutcomeSet, Power
<1>6. CASE r = Outcome(FALSE, server, q.odds - 1) /\ q.odds - 1 \in Nat /\ q.seen # "On"
  BY <1>1, <1>3, <1>6 DEF Outcome, OutcomeSet
<1> QED
  BY <1>2, <1>4, <1>5, <1>6

\* ... waitForPowerOn, ...
LEMMA PowerOnIs ==
    ASSUME NEW server \in Power, NEW odds \in 0..BootOdds, NEW r \in waitForPowerOn(server, odds)
    PROVE  /\ r \in OutcomeSet /\ r.odds <= odds /\ r.power = server
           /\ ~r.ok => server = "off"
           /\ r.ok /\ server = "off" => r.odds + 1 <= odds
<1>1. odds \in Nat /\ odds <= BootOdds /\ BootOdds \in Nat
  BY ServerAssumption
<1>2. CASE r = Outcome(server # "off", server, odds)
  <2>1. CASE server = "off"
    <3>1. (server # "off") = FALSE
      BY <2>1
    <3>2. r = Outcome(FALSE, server, odds)
      BY <1>2, <3>1
    <3> QED
      BY <1>1, <2>1, <3>2 DEF Outcome, OutcomeSet
  <2>2. CASE server # "off"
    <3>1. (server # "off") = TRUE
      BY <2>2
    <3>2. r = Outcome(TRUE, server, odds)
      BY <1>2, <3>1
    <3> QED
      BY <1>1, <2>2, <3>2 DEF Outcome, OutcomeSet
  <2> QED
    BY <2>1, <2>2
<1>3. CASE r = Outcome(TRUE, server, odds - 1) /\ odds - 1 \in Nat
  BY <1>1, <1>3 DEF Outcome, OutcomeSet
<1> QED
  BY <1>2, <1>3 DEF waitForPowerOn

\* ... waitForPing, ...
LEMMA PingIs ==
    ASSUME NEW server \in Power, NEW odds \in 0..BootOdds, NEW r \in waitForPing(server, odds)
    PROVE  /\ r \in OutcomeSet /\ r.odds <= odds
           /\ ~r.ok => \/ server = "booting" /\ r.power = "hung" /\ r.odds + 1 <= odds
                       \/ server \in {"off", "hung"} /\ r.power = server
<1>1. odds \in Nat /\ odds <= BootOdds /\ BootOdds \in Nat
  BY ServerAssumption
<1>2. CASE r = Outcome(TRUE, "up", odds)
  BY <1>1, <1>2 DEF Outcome, OutcomeSet, Power
<1>3. CASE r = Outcome(FALSE, "hung", odds - 1) /\ odds - 1 \in Nat /\ server = "booting"
  BY <1>1, <1>3 DEF Outcome, OutcomeSet, Power
<1>4. CASE r = Outcome(server = "up", server, odds) /\ server # "booting"
  <2>1. CASE server = "up"
    <3>1. (server = "up") = TRUE
      BY <2>1
    <3>2. r = Outcome(TRUE, server, odds)
      BY <1>4, <3>1
    <3> QED
      BY <1>1, <3>2 DEF Outcome, OutcomeSet
  <2>2. CASE server # "up"
    <3>1. (server = "up") = FALSE
      BY <2>2
    <3>2. r = Outcome(FALSE, server, odds)
      BY <1>4, <3>1
    <3> QED
      BY <1>1, <1>4, <2>2, <3>2 DEF Outcome, OutcomeSet, Power
  <2> QED
    BY <2>1, <2>2
<1> QED
  BY <1>2, <1>3, <1>4 DEF waitForPing

\* ... and hardReset.
LEMMA ResetIs ==
    ASSUME NEW server \in Power, NEW odds \in 0..BootOdds, NEW r \in hardReset(server, odds)
    PROVE  /\ r \in OutcomeSet /\ r.odds <= odds
           /\ \/ r.power = IF server = "off" THEN "off" ELSE "booting"
              \/ r.power = server /\ r.odds + 1 <= odds
<1>1. odds \in Nat /\ odds <= BootOdds /\ BootOdds \in Nat
  BY ServerAssumption
<1>2. CASE r = Outcome(TRUE, IF server = "off" THEN "off" ELSE "booting", odds)
  BY <1>1, <1>2 DEF Outcome, OutcomeSet, Power
<1>3. CASE r = Outcome(FALSE, server, odds - 1) /\ odds - 1 \in Nat
  BY <1>1, <1>3 DEF Outcome, OutcomeSet
<1> QED
  BY <1>2, <1>3 DEF hardReset

\* A round that fails has used up one odd answer, but for the first look at a server that
\* was hanging; to leave it hanging costs one more.
LEMMA RoundCosts ==
    ASSUME NEW server \in Power, NEW odds \in 0..BootOdds, NEW r \in Attempt(server, odds)
    PROVE  /\ r \in OutcomeSet
           /\ ~r.ok => r.odds + Lag(r.power) + 1 <= odds + Lag(server)
<1>1. odds \in Nat /\ BootOdds \in Nat
  BY ServerAssumption
<1> DEFINE started == on(server, odds)
           powered == UNION {waitForPowerOn(s.power, s.odds) : s \in {t \in started : t.ok}}
           pinged  == UNION {waitForPing(s.power, s.odds) : s \in {t \in powered : t.ok}}
           reset   == UNION {hardReset(s.power, s.odds) : s \in {t \in powered \cup pinged : ~t.ok}}
<1>2. r \in {s \in pinged : s.ok}
               \cup {[s EXCEPT !.ok = FALSE] : s \in reset \cup {t \in started : ~t.ok}}
  BY DEF Attempt
<1>3. ASSUME NEW s \in powered
      PROVE  /\ s \in OutcomeSet /\ s.odds <= odds
             /\ ~s.ok => server = "off" /\ s.power = "off" /\ s.odds + 1 <= odds
             /\ s.ok => \/ s.power = "booting"
                        \/ s.power \in {"hung", "up"} /\ server = s.power
                        \/ s.power = "off" /\ server = "off" /\ s.odds + 1 <= odds
  <2>1. PICK t \in started : t.ok /\ s \in waitForPowerOn(t.power, t.odds)
    OBVIOUS
  <2>2. /\ t \in OutcomeSet /\ t.odds <= odds
        /\ server # "off" => t.power = server
        /\ server = "off" => \/ t.power = "booting"
                             \/ t.power = "off" /\ t.odds + 1 <= odds
    BY <2>1, OnIs
  <2>3. t.power \in Power /\ t.odds \in 0..BootOdds
    BY <2>2 DEF OutcomeSet
  <2>4. /\ s \in OutcomeSet /\ s.odds <= t.odds /\ s.power = t.power
        /\ ~s.ok => t.power = "off"
    BY <2>1, <2>3, PowerOnIs
  <2>5. s.odds \in Nat /\ t.odds \in Nat
    BY <1>1, <2>2, <2>4 DEF OutcomeSet
  <2> QED
    BY <1>1, <2>2, <2>3, <2>4, <2>5 DEF Power
<1>4. ASSUME NEW s \in pinged
      PROVE  /\ s \in OutcomeSet /\ s.odds <= odds
             /\ ~s.ok => \/ s.power = "hung" /\ (server = "hung" \/ s.odds + 1 <= odds)
                         \/ s.power = "off" /\ server = "off" /\ s.odds + 1 <= odds
  <2>1. PICK t \in powered : t.ok /\ s \in waitForPing(t.power, t.odds)
    OBVIOUS
  <2>2. /\ t \in OutcomeSet /\ t.odds <= odds
        /\ \/ t.power = "booting"
           \/ t.power \in {"hung", "up"} /\ server = t.power
           \/ t.power = "off" /\ server = "off" /\ t.odds + 1 <= odds
    BY <2>1, <1>3
  <2>3. t.power \in Power /\ t.odds \in 0..BootOdds
    BY <2>2 DEF OutcomeSet
  <2>4. /\ s \in OutcomeSet /\ s.odds <= t.odds
        /\ ~s.ok => \/ t.power = "booting" /\ s.power = "hung" /\ s.odds + 1 <= t.odds
                    \/ t.power \in {"off", "hung"} /\ s.power = t.power
    BY <2>1, <2>3, PingIs
  <2>5. s.odds \in Nat /\ t.odds \in Nat
    BY <1>1, <2>2, <2>4 DEF OutcomeSet
  <2> QED
    BY <1>1, <2>2, <2>4, <2>5
<1>5. ASSUME NEW s \in reset
      PROVE  s \in OutcomeSet /\ s.odds + Lag(s.power) + 1 <= odds + Lag(server)
  <2>1. PICK t \in powered \cup pinged : ~t.ok /\ s \in hardReset(t.power, t.odds)
    OBVIOUS
  <2>2. /\ t \in OutcomeSet /\ t.odds <= odds
        /\ \/ t.power = "hung" /\ (server = "hung" \/ t.odds + 1 <= odds)
           \/ t.power = "off" /\ server = "off" /\ t.odds + 1 <= odds
    BY <2>1, <1>3, <1>4
  <2>3. t.power \in Power /\ t.odds \in 0..BootOdds
    BY <2>2 DEF OutcomeSet
  <2>4. /\ s \in OutcomeSet /\ s.odds <= t.odds
        /\ \/ s.power = IF t.power = "off" THEN "off" ELSE "booting"
           \/ s.power = t.power /\ s.odds + 1 <= t.odds
    BY <2>1, <2>3, ResetIs
  <2>5. s.odds \in Nat /\ t.odds \in Nat
    BY <1>1, <2>2, <2>4 DEF OutcomeSet
  <2>6. CASE t.power = "hung"
    BY <1>1, <2>2, <2>4, <2>5, <2>6 DEF Lag
  <2>7. CASE t.power = "off"
    BY <1>1, <2>2, <2>4, <2>5, <2>7 DEF Lag
  <2> QED
    BY <2>2, <2>4, <2>6, <2>7
<1>6. ASSUME NEW s \in started, ~s.ok
      PROVE  s \in OutcomeSet /\ s.odds + Lag(s.power) + 1 <= odds + Lag(server)
  <2>1. s \in OutcomeSet /\ s.power = server /\ s.odds + 1 <= odds
    BY <1>6, OnIs
  <2>2. s.odds \in Nat /\ Lag(server) \in Nat
    BY <1>1, <2>1 DEF OutcomeSet, Lag
  <2> QED
    BY <1>1, <2>1, <2>2
<1> HIDE DEF started, powered, pinged, reset
<1>7. CASE r \in pinged /\ r.ok
  BY <1>4, <1>7
<1>8. CASE \E s \in reset \cup {t \in started : ~t.ok} : r = [s EXCEPT !.ok = FALSE]
  <2>1. PICK s \in reset \cup {t \in started : ~t.ok} : r = [s EXCEPT !.ok = FALSE]
    BY <1>8
  <2>2. s \in OutcomeSet /\ s.odds + Lag(s.power) + 1 <= odds + Lag(server)
    BY <1>5, <1>6, <2>1
  <2>3. r \in OutcomeSet /\ r.odds = s.odds /\ r.power = s.power
    BY <2>1, <2>2 DEF OutcomeSet
  <2> QED
    BY <2>2, <2>3
<1> QED
  BY <1>2, <1>7, <1>8

-----------------------------------------------------------------------------
(* The rounds, one after the other.                                        *)

Start == Power \X (0..BootOdds)

\* What n rounds make of s, by what one round less makes of it.
Retry(f, n, s) ==
    IF n = 0 THEN {Outcome(FALSE, s[1], s[2])}
    ELSE LET round == Attempt(s[1], s[2])
         IN  {r \in round : r.ok} \cup
             UNION {f[n - 1][<<r.power, r.odds>>] : r \in {t \in round : ~t.ok}}
RoundsTo(f, k) == \A n \in 0..k : f[n] = [s \in Start |-> Retry(f, n, s)]

\* ... which is all that matters of the function.
LEMMA RetryOfPrevious ==
    ASSUME NEW f, NEW g, NEW n \in Nat, n # 0 => f[n - 1] = g[n - 1], NEW s
    PROVE  Retry(f, n, s) = Retry(g, n, s)
BY DEF Retry

\* There is such a function for any number of rounds: were there a number without one,
\* there would be a least.
LEMMA RoundsExist == ASSUME NEW k \in Nat PROVE \E f : RoundsTo(f, k)
<1> DEFINE C == {j \in Nat : ~\E f : RoundsTo(f, j)}
<1> SUFFICES ASSUME C # {} PROVE FALSE
  BY DEF C
<1>1. PICK m \in C : \A j \in C : m <= j
  BY LeastNatural
<1>2. CASE m = 0
  <2> DEFINE f == [n \in Nat |-> [s \in Start |-> {Outcome(FALSE, s[1], s[2])}]]
  <2>1. f[0] = [s \in Start |-> Retry(f, 0, s)]
    BY DEF Retry
  <2> HIDE DEF f
  <2>2. RoundsTo(f, 0)
    BY <2>1 DEF RoundsTo
  <2> QED
    BY <1>2, <2>2
<1>3. CASE m # 0
  <2>1. m - 1 \in Nat /\ ~(m <= m - 1)
    BY <1>3
  <2>2. PICK f : RoundsTo(f, m - 1)
    BY <1>1, <2>1
  <2> DEFINE g == [n \in Nat |-> IF n <= m - 1 THEN f[n] ELSE [s \in Start |-> Retry(f, n, s)]]
  <2>3. \A n \in 0..m : g[n] = IF n <= m - 1 THEN f[n] ELSE [s \in Start |-> Retry(f, n, s)]
    OBVIOUS
  <2> HIDE DEF g
  <2>4. ASSUME NEW n \in 0..m PROVE g[n] = [s \in Start |-> Retry(g, n, s)]
    <3>0. n \in Nat /\ m \in Nat /\ n <= m
      BY <1>1
    <3>1. g[n] = [s \in Start |-> Retry(f, n, s)]
      <4>1. CASE n <= m - 1
        <5>1. n \in 0..(m - 1) /\ g[n] = f[n]
          <6> HIDE DEF C
          <6>1. n \in 0..(m - 1)
            BY <3>0, <4>1
          <6>2. g[n] = f[n]
            BY <2>3, <4>1
          <6> QED
            BY <6>1, <6>2
        <5>2. f[n] = [s \in Start |-> Retry(f, n, s)]
          BY <2>2, <5>1 DEF RoundsTo
        <5> QED
          BY <5>1, <5>2
      <4>2. CASE ~(n <= m - 1)
        BY <2>3, <4>2
      <4> QED
        BY <4>1, <4>2
    <3>2. n # 0 => f[n - 1] = g[n - 1]
      <4> SUFFICES ASSUME n # 0 PROVE f[n - 1] = g[n - 1]
        OBVIOUS
      <4>1. n - 1 \in 0..m /\ n - 1 <= m - 1
        BY <3>0
      <4> QED
        BY <2>3, <4>1
    <3>3. \A s \in Start : Retry(f, n, s) = Retry(g, n, s)
      BY <3>2, RetryOfPrevious
    <3> QED
      BY <3>1, <3>3
  <2>5. RoundsTo(g, m)
    BY <2>4 DEF RoundsTo
  <2> QED
    BY <2>5
<1> QED
  BY <1>2, <1>3

\* ... and only one, as far as the rounds go.
LEMMA RoundsAgree ==
    ASSUME NEW f, NEW g, NEW k \in Nat, RoundsTo(f, k), RoundsTo(g, k)
    PROVE  f[k] = g[k]
<1> DEFINE C == {j \in 0..k : f[j] # g[j]}
<1> SUFFICES ASSUME C # {} PROVE FALSE
  BY DEF C
<1>1. PICK m \in C : \A j \in C : m <= j
  <2>1. C \in SUBSET Nat
    OBVIOUS
  <2> HIDE DEF C
  <2> QED
    BY <2>1, LeastNatural
<1>2. m \in 0..k /\ f[m] # g[m]
  OBVIOUS
<1>3. m # 0 => f[m - 1] = g[m - 1]
  <2> SUFFICES ASSUME m # 0, f[m - 1] # g[m - 1] PROVE FALSE
    OBVIOUS
  <2>1. m - 1 \in C
    BY <1>2
  <2> QED
    BY <1>1, <1>2, <2>1
<1>4. \A s \in Start : Retry(f, m, s) = Retry(g, m, s)
  BY <1>2, <1>3, RetryOfPrevious
<1> QED
  BY <1>2, <1>4 DEF RoundsTo

\* So Attempts is what its definition says.
LEMMA AttemptsAre == ASSUME NEW n \in Nat PROVE Attempts[n] = [s \in Start |-> Retry(Attempts, n, s)]
<1> DEFINE G(k) == CHOOSE f : RoundsTo(f, k)
           F == [k \in Nat |-> G(k)[k]]
<1>1. ASSUME NEW k \in Nat PROVE F[k] = [s \in Start |-> Retry(F, k, s)]
  <2>1. RoundsTo(G(k), k)
    BY RoundsExist
  <2>2. G(k)[k] = [s \in Start |-> Retry(G(k), k, s)]
    <3>1. k \in 0..k
      OBVIOUS
    <3> HIDE DEF G
    <3> QED
      BY <2>1, <3>1 DEF RoundsTo
  <2>3. k # 0 => G(k)[k - 1] = F[k - 1]
    <3> SUFFICES ASSUME k # 0 PROVE G(k)[k - 1] = F[k - 1]
      OBVIOUS
    <3>1. k - 1 \in Nat /\ \A j \in 0..(k - 1) : j \in 0..k
      OBVIOUS
    <3>2. RoundsTo(G(k - 1), k - 1)
      BY <3>1, RoundsExist
    <3>3. RoundsTo(G(k), k - 1)
      BY <2>1, <3>1 DEF RoundsTo
    <3> HIDE DEF G
    <3>4. G(k)[k - 1] = G(k - 1)[k - 1]
      BY <3>1, <3>2, <3>3, RoundsAgree
    <3> QED
      BY <3>1, <3>4
  <2>4. F[k] = G(k)[k]
    OBVIOUS
  <2> HIDE DEF G, F
  <2>5. \A s \in Start : Retry(G(k), k, s) = Retry(F, k, s)
    BY <2>3, RetryOfPrevious
  <2> QED
    BY <2>2, <2>4, <2>5
<1> DEFINE Is(f) == f = [k \in Nat |-> [s \in Start |-> Retry(f, k, s)]]
<1>2. Is(F)
  <2>1. F = [k \in Nat |-> F[k]]
    OBVIOUS
  <2> HIDE DEF F
  <2> QED
    BY <1>1, <2>1
<1>3. Attempts = CHOOSE f : Is(f)
  BY DEF Attempts, Retry, Start
<1> HIDE DEF F
<1>4. Is(Attempts)
  BY <1>2, <1>3
<1> QED
  BY <1>4

\* n rounds that fail have used up n odd answers, but for a server that was hanging.
RoundsCost(n) ==
    \A s \in Start : \A r \in Attempts[n][s] :
        r \in OutcomeSet /\ (~r.ok => r.odds + Lag(r.power) + n <= s[2] + Lag(s[1]))

LEMMA RoundsCostAll == ASSUME NEW k \in Nat PROVE RoundsCost(k)
<1> DEFINE C == {j \in Nat : ~RoundsCost(j)}
<1> SUFFICES ASSUME C # {} PROVE FALSE
  BY DEF C
<1>1. PICK m \in C : \A j \in C : m <= j
  BY LeastNatural
<1>2. m # 0 => m - 1 \in Nat /\ RoundsCost(m - 1)
  <2> SUFFICES ASSUME m # 0, ~RoundsCost(m - 1) PROVE FALSE
    OBVIOUS
  <2>1. m - 1 \in C /\ ~(m <= m - 1)
    OBVIOUS
  <2> QED
    BY <1>1, <2>1
<1> SUFFICES ASSUME NEW s \in Start, NEW r \in Attempts[m][s]
             PROVE  r \in OutcomeSet /\ (~r.ok => r.odds + Lag(r.power) + m <= s[2] + Lag(s[1]))
  BY <1>1 DEF RoundsCost
<1> HIDE DEF C
<1>3. m \in Nat
  BY DEF C
<1>4. r \in Retry(Attempts, m, s)
  BY <1>3, AttemptsAre
<1>5. s[1] \in Power /\ s[2] \in 0..BootOdds /\ s[2] \in Nat /\ Lag(s[1]) \in Nat
  BY ServerAssumption DEF Start, Lag
<1>6. CASE m = 0
  <2>1. r = Outcome(FALSE, s[1], s[2])
    BY <1>4, <1>6 DEF Retry
  <2>2. r \in OutcomeSet /\ r.odds = s[2] /\ r.power = s[1]
    BY <1>5, <2>1 DEF Outcome, OutcomeSet
  <2> QED
    BY <1>5, <1>6, <2>2
<1>7. CASE m # 0
  <2>1. CASE r \in Attempt(s[1], s[2]) /\ r.ok
    BY <1>5, <2>1, RoundCosts
  <2>2. CASE \E t \in Attempt(s[1], s[2]) : ~t.ok /\ r \in Attempts[m - 1][<<t.power, t.odds>>]
    <3>1. PICK t \in Attempt(s[1], s[2]) : ~t.ok /\ r \in Attempts[m - 1][<<t.power, t.odds>>]
      BY <2>2
    <3>2. t \in OutcomeSet /\ t.odds + Lag(t.power) + 1 <= s[2] + Lag(s[1])
      BY <1>5, <3>1, RoundCosts
    <3> DEFINE u == <<t.power, t.odds>>
    <3>3. u \in Start /\ u[1] = t.power /\ u[2] = t.odds
      BY <3>2 DEF OutcomeSet, Start
    <3>4. r \in OutcomeSet /\ (~r.ok => r.odds + Lag(r.power) + (m - 1) <= t.odds + Lag(t.power))
      BY <1>2, <1>7, <3>1, <3>3 DEF RoundsCost
    <3>5. /\ t.odds \in Nat /\ r.odds \in Nat /\ Lag(r.power) \in Nat /\ Lag(t.power) \in Nat
      BY ServerAssumption, <3>2, <3>4 DEF OutcomeSet, Lag
    <3> QED
      BY <1>3, <1>5, <3>2, <3>4, <3>5
  <2> QED
    BY <1>4, <1>7, <2>1, <2>2 DEF Retry
<1> QED
  BY <1>6, <1>7

\* onWithWait fails only for two odd answers or more.
LEMMA OnWithWaitCosts ==
    ASSUME NEW server \in Power, NEW r \in onWithWait(3, server)
    PROVE  r \in OutcomeSet /\ (~r.ok => BootOdds - r.odds >= 2)
<1>1. BootOdds \in Nat /\ BootOdds \in 0..BootOdds
  BY ServerAssumption
<1>2. CASE server = "up"
  <2>1. r = Outcome(TRUE, server, BootOdds)
    BY <1>2 DEF onWithWait
  <2> QED
    BY <1>1, <2>1 DEF Outcome, OutcomeSet
<1>3. CASE server # "up"
  <2> DEFINE s == <<server, BootOdds>>
  <2>1. s \in Start /\ s[1] = server /\ s[2] = BootOdds
    BY <1>1 DEF Start
  <2>2. r \in Attempts[3][s]
    BY <1>3 DEF onWithWait
  <2>3. RoundsCost(3)
    BY RoundsCostAll
  <2>4. r \in OutcomeSet /\ (~r.ok => r.odds + Lag(r.power) + 3 <= BootOdds + Lag(server))
    BY <2>1, <2>2, <2>3 DEF RoundsCost
  <2>5. r.odds \in Nat /\ Lag(r.power) \in {0, 1} /\ Lag(server) \in {0, 1}
    BY <1>1, <2>4 DEF OutcomeSet, Lag
  <2> QED
    BY <1>1, <2>4, <2>5
<1> QED
  BY <1>2, <1>3

-----------------------------------------------------------------------------
(* The boot.                                                               *)

BootInv == RunTypeOK /\ power \in Power /\ BootSurvives

\* What a step that is neither a boot nor a power-off leaves.
LEMMA BootFrame ==
    ASSUME BootInv, Next
    PROVE  \/ Boot
           \/ /\ PowerOff \/ power' = power
              /\ past'.boot_failed = past.boot_failed /\ past'.odds = past.odds
<1> USE DEF BootInv, RunTypeOK, procVars, benchVars
<1>1. CASE \/ Connect \/ Enable \/ Register \/ Network \/ Trigger \/ Measure \/ StartFlicker
           \/ StopFlicker \/ TestConnection \/ DeployPrebuilt \/ Monitor \/ Unwatch
  BY <1>1
     DEF Connect, Enable, Register, Network, Trigger, Measure, StartFlicker, StopFlicker,
     TestConnection, DeployPrebuilt, Monitor, Unwatch, Passes, Prepare
<1>2. CASE \/ Claim \/ FetchLog \/ FetchDirectory \/ Disable \/ Verify \/ Disconnect
           \/ PowerOff \/ Return \/ CallShutdown \/ ShutOutputs \/ ShutConnections
           \/ ShutLogs \/ StartRun \/ AppExits \/ AppDies \/ AppStoppedByHand
  BY <1>2
     DEF Claim, FetchLog, FetchDirectory, Disable, Verify, Disconnect, PowerOff, Return,
     CallShutdown, ShutOutputs, ShutConnections, ShutLogs, StartRun, AppExits, AppDies,
     AppStoppedByHand, Passes, Prepare
<1>3. CASE Boot
  BY <1>3
<1>4. CASE Launch
  BY <1>4 DEF Launch
<1>5. CASE Watch
  BY <1>5 DEF Watch
<1>6. CASE Query
  BY <1>6 DEF Query, IsApplicationRunning
<1>7. CASE Terminate
  BY <1>7 DEF Terminate, Lost
<1>8. CASE Await
  BY <1>8 DEF Await, IsApplicationRunning
<1>9. CASE Kill
  BY <1>9 DEF Kill, Lost
<1>10. CASE Wipe
  BY <1>10 DEF Wipe
<1>11. CASE HandoverEnds
  BY <1>11 DEF HandoverEnds
<1>12. CASE DogKill
  BY <1>12 DEF DogKill
<1>13. CASE CtrlC \/ DogInt \/ DogTerm
  BY <1>13 DEF CtrlC, DogInt, DogTerm, Signal
<1> QED
  BY <1>1, <1>2, <1>3, <1>4, <1>5, <1>6, <1>7, <1>8, <1>9, <1>10, <1>11, <1>12, <1>13
     DEF Next, Process, Loop, Application

\* Every step keeps what a failed boot has cost.
LEMMA BootInvKept == BootInv /\ [Next]_vars => BootInv'
<1> SUFFICES ASSUME BootInv, [Next]_vars PROVE BootInv'
  OBVIOUS
<1>1. CASE UNCHANGED vars
  BY <1>1 DEF vars, BootInv, RunTypeOK, Running, BootSurvives
<1>2. CASE Next
  <2>1. RunTypeOK'
    BY <1>2, TypeKept DEF BootInv
  <2>2. CASE Boot
    <3>1. PICK r \in onWithWait(3, power) :
             /\ power' = r.power
             /\ past' = [past EXCEPT !.boot_failed = ~r.ok,
                                     !.odds = IF r.ok THEN 0 ELSE BootOdds - r.odds]
      BY <2>2 DEF Boot
    <3>2. r \in OutcomeSet /\ (~r.ok => BootOdds - r.odds >= 2)
      BY <3>1, OnWithWaitCosts DEF BootInv
    <3>3. /\ past'.boot_failed = ~r.ok
          /\ past'.odds = IF r.ok THEN 0 ELSE BootOdds - r.odds
      BY <3>1 DEF BootInv, RunTypeOK
    <3>4. power' \in Power
      BY <3>1, <3>2 DEF OutcomeSet
    <3> QED
      BY <2>1, <3>2, <3>3, <3>4 DEF BootInv, BootSurvives
  <2>3. CASE /\ PowerOff \/ power' = power
             /\ past'.boot_failed = past.boot_failed /\ past'.odds = past.odds
    <3>1. power' \in Power
      <4>1. CASE PowerOff
        <5>1. PICK r \in offWithWait(power) : power' = r.power
          BY <4>1 DEF PowerOff
        <5>2. r.power \in {"off", power}
          <6>1. PICK q \in getPowerState(power, BootOdds) :
                   r \in IF q.seen = "Off" THEN {Outcome(TRUE, power, q.odds)}
                         ELSE {Outcome(TRUE, "off", q.odds), Outcome(FALSE, "off", 0),
                               Outcome(FALSE, power, 0)}
            BY <5>1 DEF offWithWait
          <6> QED
            BY <6>1 DEF Outcome
        <5> QED
          BY <5>1, <5>2 DEF BootInv, Power
      <4> QED
        BY <2>3, <4>1 DEF BootInv
    <3> QED
      BY <2>1, <2>3, <3>1 DEF BootInv, BootSurvives
  <2> QED
    BY <1>2, <2>2, <2>3, BootFrame
<1> QED
  BY <1>1, <1>2

\* For any number of runs and of odd answers, wherever the server starts from: three rounds
\* of onWithWait fail only when two things or more went wrong in them.
THEOREM BootHolds == Spec => []BootSurvives
<1>1. Init => BootInv
  <2> SUFFICES ASSUME Init PROVE BootInv
    OBVIOUS
  <2>1. past.boot_failed = FALSE /\ power \in Power
    BY DEF Init, Power
  <2> QED
    BY <2>1, RunInvInit DEF RunInv, BootInv, BootSurvives
<1>2. BootInv => BootSurvives
  BY DEF BootInv
<1> QED
  BY <1>1, <1>2, BootInvKept, PTL DEF Spec

-----------------------------------------------------------------------------
(* The wiring.  A frame that left with VLAN v re-enters with a PVID that   *)
(* belongs to one server port of the file in force, and comes home there.  *)

\* The VLANs of the server ports, file by file.
LEMMA VidsOfDtn ==
    /\ FileVids("dtn", 0) = (105..108) \cup (253..256)
    /\ FileVids("dtn", 1) = (109..112) \cup (249..252)
    /\ FileVids("dtn", 2) = (97..100) \cup (245..248)
    /\ FileVids("dtn", 3) = (101..104) \cup (241..244)
    /\ FileVids("dtn", 4) = (113..116) \cup (229..232)
    /\ FileVids("dtn", 5) = (117..120) \cup (225..228)
    /\ FileVids("dtn", 6) = (121..124) \cup (237..240)
    /\ FileVids("dtn", 7) = (125..128) \cup (233..236)
BY DEF FileVids, Block, DtnTx, DtnFile

\* ... in the file the DTN application copies for ATE mode
LEMMA VidsOfAte ==
    /\ FileVids("ate", 0) = (105..108) \cup (237..240)
    /\ FileVids("ate", 1) = (109..112) \cup (233..236)
    /\ FileVids("ate", 2) = (97..100) \cup (229..232)
    /\ FileVids("ate", 3) = (101..104) \cup (225..228)
    /\ FileVids("ate", 4) = (113..116) \cup (245..248)
    /\ FileVids("ate", 5) = (117..120) \cup (241..244)
    /\ FileVids("ate", 6) = (121..124) \cup (253..256)
    /\ FileVids("ate", 7) = (125..128) \cup (249..252)
BY DEF FileVids, Block, DtnTx, AteFile

\* ... in the file of VMC
LEMMA VidsOfVmc ==
    /\ FileVids("vmc", 0) = (105..108) \cup (233..236)
    /\ FileVids("vmc", 1) = (109..112) \cup (237..240)
    /\ FileVids("vmc", 2) = (97..100) \cup (225..228)
    /\ FileVids("vmc", 3) = (101..104) \cup (229..232)
    /\ FileVids("vmc", 4) = (113..116) \cup (241..244)
    /\ FileVids("vmc", 5) = (117..120) \cup (245..248)
    /\ FileVids("vmc", 6) = (121..124) \cup (249..252)
    /\ FileVids("vmc", 7) = (125..128) \cup (253..256)
BY DEF FileVids, Block, DtnTx, VmcFile

\* The ports that have the PVID w.
Arrivals(s, w) == {<<r, w>> : r \in {q \in Port : w \in FileVids(s.loaded, q)}}

\* Where a frame comes home that leaves through a device port of the bridge.
LEMMA HomeIs ==
    ASSUME NEW s, NEW u, NEW b, b # "nothing", NEW p, NEW v,
           {Iface("swp25", v - 97), Iface("swp9", v - 97)} \cap s.added
               \cap MembersOf(s.loaded) # {},
           v \in FileVids(s.loaded, p)
    PROVE  Home(s, u, b, p, v) = Arrivals(s, PvidOf(Crossed(u, b, v - 97)))
BY DEF Home, Arrivals

\* The 32 VLANs of DTN, through the unit, which crosses its halves.
LEMMA DtnRouted ==
    ASSUME NEW s, s.loaded = "dtn", \A d \in 0..31 : Iface("swp25", d) \in s.added
    PROVE  Routed(s, "dtn", FALSE, "unit")
<1> SUFFICES ASSUME NEW p \in 0..7, NEW v \in TxVlans("dtn", p)
             PROVE  \E w \in RxVlans("dtn", FALSE, Target("dtn", p)) :
                       Home(s, "dtn", "unit", p, v) = {<<Target("dtn", p), w>>}
  BY DEF Routed, PortsOf, Port
<1> DEFINE w == PvidOf(Crossed("dtn", "unit", v - 97))
           q == Target("dtn", p)
<1>1. \/ p = 0 /\ v \in 105..108 /\ q = 1 /\ w \in 249..252
      \/ p = 1 /\ v \in 109..112 /\ q = 0 /\ w \in 253..256
      \/ p = 2 /\ v \in 97..100 /\ q = 3 /\ w \in 241..244
      \/ p = 3 /\ v \in 101..104 /\ q = 2 /\ w \in 245..248
      \/ p = 4 /\ v \in 113..116 /\ q = 5 /\ w \in 225..228
      \/ p = 5 /\ v \in 117..120 /\ q = 4 /\ w \in 229..232
      \/ p = 6 /\ v \in 121..124 /\ q = 7 /\ w \in 233..236
      \/ p = 7 /\ v \in 125..128 /\ q = 6 /\ w \in 237..240
  BY DEF TxVlans, Block, DtnTx, Target, Paired, PvidOf, Crossed
<1>2. \A r \in Port : w \in FileVids(s.loaded, r) <=> r = q
  BY <1>1, VidsOfDtn DEF Port
<1>3. v \in FileVids(s.loaded, p) /\ q \in Port
  BY <1>1, VidsOfDtn DEF Port
<1>4. Iface("swp25", v - 97) \in s.added \cap MembersOf(s.loaded)
  BY <1>1 DEF MembersOf
<1> {Iface("swp25", v - 97), Iface("swp9", v - 97)} \cap s.added
        \cap MembersOf(s.loaded) # {}
  BY <1>4
<1>5. w \in RxVlans("dtn", FALSE, q)
  BY <1>1 DEF RxVlans, Block, DtnRx
<1> HIDE DEF q
<1>6. {r \in Port : w \in FileVids(s.loaded, r)} = {q}
  BY <1>2, <1>3
<1>7. Home(s, "dtn", "unit", p, v) = Arrivals(s, w)
  BY <1>3, HomeIs
<1>8. Home(s, "dtn", "unit", p, v) = {<<q, w>>}
  BY <1>6, <1>7 DEF Arrivals
<1> QED
  BY <1>5, <1>8 DEF q

\* The same through plugs, with the wiring of the ATE mode.
LEMMA AteRouted ==
    ASSUME NEW s, s.loaded = "ate", \A d \in 0..31 : Iface("swp25", d) \in s.added
    PROVE  Routed(s, "dtn", TRUE, "plugs")
<1> SUFFICES ASSUME NEW p \in 0..7, NEW v \in TxVlans("dtn", p)
             PROVE  \E w \in RxVlans("dtn", TRUE, Target("dtn", p)) :
                       Home(s, "dtn", "plugs", p, v) = {<<Target("dtn", p), w>>}
  BY DEF Routed, PortsOf, Port
<1> DEFINE w == PvidOf(Crossed("dtn", "plugs", v - 97))
           q == Target("dtn", p)
<1>1. \/ p = 0 /\ v \in 105..108 /\ q = 1 /\ w \in 233..236
      \/ p = 1 /\ v \in 109..112 /\ q = 0 /\ w \in 237..240
      \/ p = 2 /\ v \in 97..100 /\ q = 3 /\ w \in 225..228
      \/ p = 3 /\ v \in 101..104 /\ q = 2 /\ w \in 229..232
      \/ p = 4 /\ v \in 113..116 /\ q = 5 /\ w \in 241..244
      \/ p = 5 /\ v \in 117..120 /\ q = 4 /\ w \in 245..248
      \/ p = 6 /\ v \in 121..124 /\ q = 7 /\ w \in 249..252
      \/ p = 7 /\ v \in 125..128 /\ q = 6 /\ w \in 253..256
  BY DEF TxVlans, Block, DtnTx, Target, Paired, PvidOf, Crossed
<1>2. \A r \in Port : w \in FileVids(s.loaded, r) <=> r = q
  BY <1>1, VidsOfAte DEF Port
<1>3. v \in FileVids(s.loaded, p) /\ q \in Port
  BY <1>1, VidsOfAte DEF Port
<1>4. Iface("swp25", v - 97) \in s.added \cap MembersOf(s.loaded)
  BY <1>1 DEF MembersOf
<1> {Iface("swp25", v - 97), Iface("swp9", v - 97)} \cap s.added
        \cap MembersOf(s.loaded) # {}
  BY <1>4
<1>5. w \in RxVlans("dtn", TRUE, q)
  BY <1>1 DEF RxVlans, Block, AteRx
<1> HIDE DEF q
<1>6. {r \in Port : w \in FileVids(s.loaded, r)} = {q}
  BY <1>2, <1>3
<1>7. Home(s, "dtn", "plugs", p, v) = Arrivals(s, w)
  BY <1>3, HomeIs
<1>8. Home(s, "dtn", "plugs", p, v) = {<<q, w>>}
  BY <1>6, <1>7 DEF Arrivals
<1> QED
  BY <1>5, <1>8 DEF q

\* The 16 VLANs of VMC, through the unit, which crosses two of them.
LEMMA VmcRouted ==
    ASSUME NEW s, s.loaded = "vmc", \A d \in 0..15 : Iface("swp9", d) \in s.added
    PROVE  Routed(s, "vmc", FALSE, "unit")
<1> SUFFICES ASSUME NEW p \in 0..3, NEW v \in TxVlans("vmc", p)
             PROVE  \E w \in RxVlans("vmc", FALSE, Target("vmc", p)) :
                       Home(s, "vmc", "unit", p, v) = {<<Target("vmc", p), w>>}
  BY DEF Routed, PortsOf, Port
<1> DEFINE w == PvidOf(Crossed("vmc", "unit", v - 97))
           q == Target("vmc", p)
<1>1. \/ p = 0 /\ v \in 105..108 /\ q = 0 /\ w \in 233..236
      \/ p = 1 /\ v \in 109..112 /\ q = 1 /\ w \in 237..240
      \/ p = 2 /\ v \in 97..100 /\ q = 2 /\ w \in 225..228
      \/ p = 3 /\ v \in 101..104 /\ q = 3 /\ w \in 229..232
  BY DEF TxVlans, Block, VmcTx, Target, Paired, PvidOf, Crossed
<1>2. \A r \in Port : w \in FileVids(s.loaded, r) <=> r = q
  BY <1>1, VidsOfVmc DEF Port
<1>3. v \in FileVids(s.loaded, p) /\ q \in Port
  BY <1>1, VidsOfVmc DEF Port
<1>4. Iface("swp9", v - 97) \in s.added \cap MembersOf(s.loaded)
  BY <1>1 DEF MembersOf
<1> {Iface("swp25", v - 97), Iface("swp9", v - 97)} \cap s.added
        \cap MembersOf(s.loaded) # {}
  BY <1>4
<1>5. w \in RxVlans("vmc", FALSE, q)
  BY <1>1 DEF RxVlans, Block, VmcRx
<1> HIDE DEF q
<1>6. {r \in Port : w \in FileVids(s.loaded, r)} = {q}
  BY <1>2, <1>3
<1>7. Home(s, "vmc", "unit", p, v) = Arrivals(s, w)
  BY <1>3, HomeIs
<1>8. Home(s, "vmc", "unit", p, v) = {<<q, w>>}
  BY <1>6, <1>7 DEF Arrivals
<1> QED
  BY <1>5, <1>8 DEF q

\* The same through plugs.
LEMMA VmcAteRouted ==
    ASSUME NEW s, s.loaded = "vmc", \A d \in 0..15 : Iface("swp9", d) \in s.added
    PROVE  Routed(s, "vmc", TRUE, "plugs")
<1> SUFFICES ASSUME NEW p \in 0..3, NEW v \in TxVlans("vmc", p)
             PROVE  \E w \in RxVlans("vmc", TRUE, Target("vmc", p)) :
                       Home(s, "vmc", "plugs", p, v) = {<<Target("vmc", p), w>>}
  BY DEF Routed, PortsOf, Port
<1> DEFINE w == PvidOf(Crossed("vmc", "plugs", v - 97))
           q == Target("vmc", p)
<1>1. \/ p = 0 /\ v \in 105..108 /\ q = 0 /\ w \in 233..236
      \/ p = 1 /\ v \in 109..112 /\ q = 1 /\ w \in 237..240
      \/ p = 2 /\ v \in 97..100 /\ q = 2 /\ w \in 225..228
      \/ p = 3 /\ v \in 101..104 /\ q = 3 /\ w \in 229..232
  BY DEF TxVlans, Block, VmcTx, Target, Paired, PvidOf, Crossed
<1>2. \A r \in Port : w \in FileVids(s.loaded, r) <=> r = q
  BY <1>1, VidsOfVmc DEF Port
<1>3. v \in FileVids(s.loaded, p) /\ q \in Port
  BY <1>1, VidsOfVmc DEF Port
<1>4. Iface("swp9", v - 97) \in s.added \cap MembersOf(s.loaded)
  BY <1>1 DEF MembersOf
<1> {Iface("swp25", v - 97), Iface("swp9", v - 97)} \cap s.added
        \cap MembersOf(s.loaded) # {}
  BY <1>4
<1>5. w \in RxVlans("vmc", TRUE, q)
  BY <1>1 DEF RxVlans, Block, VmcRx
<1> HIDE DEF q
<1>6. {r \in Port : w \in FileVids(s.loaded, r)} = {q}
  BY <1>2, <1>3
<1>7. Home(s, "vmc", "plugs", p, v) = Arrivals(s, w)
  BY <1>3, HomeIs
<1>8. Home(s, "vmc", "plugs", p, v) = {<<q, w>>}
  BY <1>6, <1>7 DEF Arrivals
<1> QED
  BY <1>5, <1>8 DEF q

\* The two VLANs of CMC, through the unit or plugs, whatever mode was chosen.
LEMMA CmcRouted ==
    ASSUME NEW s, s.loaded = "cmc", \A d \in 0..1 : Iface("swp9", d) \in s.added,
           NEW m \in BOOLEAN, NEW b \in {"unit", "plugs"}
    PROVE  Routed(s, "cmc", m, b)
<1> SUFFICES ASSUME NEW v \in {97, 98}
             PROVE  \E w \in {225, 226} : Home(s, "cmc", b, 2, v) = {<<2, w>>}
  BY DEF Routed, PortsOf, TxVlans, RxVlans, Target
<1> DEFINE w == PvidOf(Crossed("cmc", b, v - 97))
<1>1. w \in {225, 226}
  BY DEF PvidOf, Crossed
<1>2. \A r \in Port : w \in FileVids(s.loaded, r) <=> r = 2
  BY <1>1 DEF FileVids, Port
<1>3. v \in FileVids(s.loaded, 2)
  BY DEF FileVids
<1>4. Iface("swp9", v - 97) \in s.added \cap MembersOf(s.loaded)
  BY DEF MembersOf
<1> {Iface("swp25", v - 97), Iface("swp9", v - 97)} \cap s.added
        \cap MembersOf(s.loaded) # {}
  BY <1>4
<1> b # "nothing"
  OBVIOUS
<1>5. {r \in Port : w \in FileVids(s.loaded, r)} = {2}
  BY <1>2 DEF Port
<1>6. Home(s, "cmc", b, 2, v) = Arrivals(s, w)
  BY <1>3, <1>4 DEF Home, Arrivals
<1>7. Home(s, "cmc", b, 2, v) = {<<2, w>>}
  BY <1>5, <1>6 DEF Arrivals
<1> QED
  BY <1>1, <1>7

-----------------------------------------------------------------------------
(* From the start of a test to its traffic.                                *)

Stage == {"idle", "deploy", "configure", "app", "mode", "loopback", "unit",
          "ateConfigure", "ateCables", "traffic"}

\* The file of the unit is in force and all its VLANs leave untagged.
Wired == sw.loaded = tested /\ HasAllExpectedVlans(sw, tested)

WireTypeOK ==
    /\ sw = [file |-> sw.file, loaded |-> sw.loaded, added |-> sw.added]
    /\ bench \in Bench /\ tested \in Unit /\ stage \in Stage /\ ate \in BOOLEAN

\* Only DTN asks for its mode so late, and until then ate is as the test found it.
AskedInv ==
    /\ stage \in {"mode", "loopback", "unit", "ateConfigure", "ateCables"} => tested = "dtn"
    /\ stage \notin {"idle", "traffic"} => ~ate
    /\ stage = "unit" => bench = "unit"

\* What the switch has at each stage of a test that reported nothing.
WiredInv ==
    warned = {} =>
        /\ stage = "configure" => sw.loaded = tested
        /\ stage \in {"app", "mode", "loopback", "unit"} => Wired
        /\ stage \in {"ateConfigure", "ateCables"} => sw.loaded = "ate"
        /\ stage = "ateCables" => \A d \in 0..31 : Iface("swp25", d) \in sw.added

WireInv == WireTypeOK /\ AskedInv /\ WiredInv /\ NoSilentMisrouting

\* The device ports that are waited for are those of the tables.
LEMMA ExpectedPorts ==
    ASSUME NEW s
    PROVE  /\ HasAllExpectedVlans(s, "dtn") => \A d \in 0..31 : Iface("swp25", d) \in s.added
           /\ HasAllExpectedVlans(s, "vmc") => \A d \in 0..15 : Iface("swp9", d) \in s.added
           /\ HasAllExpectedVlans(s, "cmc") => \A d \in 0..1 : Iface("swp9", d) \in s.added
<1>1. ASSUME HasAllExpectedVlans(s, "dtn"), NEW d \in 0..31 PROVE Iface("swp25", d) \in s.added
  <2>1. d + 1 \in DOMAIN ExpectedDtn /\ ExpectedDtn[d + 1] = Iface("swp25", d)
    BY DEF ExpectedDtn
  <2> QED
    BY <1>1, <2>1 DEF HasAllExpectedVlans, Expected, Fetched
<1>2. ASSUME HasAllExpectedVlans(s, "vmc"), NEW d \in 0..15 PROVE Iface("swp9", d) \in s.added
  <2>1. d + 1 \in DOMAIN ExpectedVmc /\ ExpectedVmc[d + 1] = Iface("swp9", d)
    BY DEF ExpectedVmc
  <2> QED
    BY <1>2, <2>1 DEF HasAllExpectedVlans, Expected, Fetched
<1>3. ASSUME HasAllExpectedVlans(s, "cmc"), NEW d \in 0..1 PROVE Iface("swp9", d) \in s.added
  <2>1. d + 1 \in DOMAIN ExpectedCmc /\ ExpectedCmc[d + 1] = Iface("swp9", d)
    BY DEF ExpectedCmc
  <2> QED
    BY <1>3, <2>1 DEF HasAllExpectedVlans, Expected, Fetched
<1> QED
  BY <1>1, <1>2, <1>3

\* The whole batch completes the wiring.
LEMMA BatchCompletes ==
    ASSUME NEW u \in Unit, NEW s, s = [file |-> s.file, loaded |-> s.loaded, added |-> s.added]
    PROVE  HasAllExpectedVlans(Prefix(s, Expected(u), Len(Expected(u))), u)
<1> DEFINE ports == {Iface("swp25", d) : d \in 0..31} \cup {Iface("swp9", d) : d \in 0..31}
<1>1. /\ ExpectedDtn \in Seq(ports) /\ ExpectedVmc \in Seq(ports)
      /\ ExpectedCmc \in Seq(ports)
  BY DEF ExpectedDtn, ExpectedVmc, ExpectedCmc
<1>2. DOMAIN Expected(u) = 1..Len(Expected(u))
  BY <1>1 DEF Expected, Unit
<1> QED
  BY <1>2 DEF HasAllExpectedVlans, Fetched, Prefix

\* The same of the commands of the ATE mode.
LEMMA AteCompletes ==
    ASSUME NEW s, s = [file |-> s.file, loaded |-> s.loaded, added |-> s.added]
    PROVE  \A d \in 0..31 : Iface("swp25", d) \in Prefix(s, ExpectedAte, Len(ExpectedAte)).added
<1>1. ExpectedAte \in Seq({Iface("swp25", d) : d \in 0..31}) /\ DOMAIN ExpectedAte = 1..32
  BY DEF ExpectedAte
<1>2. Len(ExpectedAte) = 32
  BY <1>1
<1>3. \A d \in 0..31 : ExpectedAte[d + 1] = Iface("swp25", d) /\ d + 1 \in 1..32
  BY DEF ExpectedAte
<1> QED
  BY <1>2, <1>3 DEF Prefix

\* Adding entries changes neither the file on the disk nor the one in force.
LEMMA PrefixKeeps ==
    ASSUME NEW s, s = [file |-> s.file, loaded |-> s.loaded, added |-> s.added],
           NEW batch, NEW n
    PROVE  Prefix(s, batch, n) = [file |-> s.file, loaded |-> s.loaded,
                                  added |-> s.added \cup {batch[i] : i \in 1..n}]
<1> DEFINE new == s.added \cup {batch[i] : i \in 1..n}
<1>1. Prefix(s, batch, n) = [s EXCEPT !.added = new]
  BY DEF Prefix
<1> HIDE DEF new
<1>2. PICK f, l, a : s = [file |-> f, loaded |-> l, added |-> a]
  OBVIOUS
<1> QED
  BY <1>1, <1>2 DEF new

\* A wired switch routes, in whichever way the operator can cable it.
LEMMA WiredRoutes ==
    ASSUME WireTypeOK, Wired, NEW m \in BOOLEAN, NEW b \in {"unit", "plugs"},
           tested = "dtn" => ~m /\ b = "unit",
           tested = "vmc" => m = (b = "plugs")
    PROVE  Routed(sw, tested, m, b)
<1>1. CASE tested = "dtn"
  <2>1. \A d \in 0..31 : Iface("swp25", d) \in sw.added
    BY <1>1, ExpectedPorts DEF Wired
  <2>2. m = FALSE /\ b = "unit"
    BY <1>1
  <2> QED
    BY <1>1, <2>1, <2>2, DtnRouted DEF Wired
<1>2. CASE tested = "vmc"
  <2>1. \A d \in 0..15 : Iface("swp9", d) \in sw.added
    BY <1>2, ExpectedPorts DEF Wired
  <2>2. (m = TRUE /\ b = "plugs") \/ (m = FALSE /\ b = "unit")
    BY <1>2
  <2> QED
    BY <1>2, <2>1, <2>2, VmcRouted, VmcAteRouted DEF Wired
<1>3. CASE tested = "cmc"
  <2>1. \A d \in 0..1 : Iface("swp9", d) \in sw.added
    BY <1>3, ExpectedPorts DEF Wired
  <2> QED
    BY <1>3, <2>1, CmcRouted DEF Wired
<1> QED
  BY <1>1, <1>2, <1>3 DEF WireTypeOK, Unit

\* A file that is deployed without a warning is in force.
LEMMA DeployLoads ==
    ASSUME WireTypeOK, NEW f, NEW next, Deploy(f, next)
    PROVE  /\ sw' = [file |-> sw'.file, loaded |-> sw'.loaded, added |-> sw'.added]
           /\ stage' = next
           /\ warned' = {} => sw'.loaded = f
<1> DEFINE copied == [sw EXCEPT !.file = f]
<1>1. copied = [file |-> f, loaded |-> sw.loaded, added |-> sw.added]
  BY DEF WireTypeOK
<1>2. Reloaded(copied) = [file |-> f, loaded |-> f, added |-> {}]
  BY <1>1 DEF Reloaded, NewSwitch
<1>3. CASE sw' = Reloaded(copied)
  BY <1>2, <1>3 DEF Deploy
<1>4. CASE Warn("reload") /\ sw' \in {copied, Reloaded(copied)}
  <2>1. warned' # {}
    BY <1>4 DEF Warn
  <2> QED
    BY <1>1, <1>2, <1>4, <2>1 DEF Deploy
<1> QED
  BY <1>3, <1>4 DEF Deploy

\* The invariant holds before the first test ...
LEMMA WireInvInit == CommissionInit => WireInv
<1> SUFFICES ASSUME CommissionInit PROVE WireInv
  OBVIOUS
<1>1. PICK f \in File : sw = NewSwitch(f)
  BY DEF CommissionInit
<1>2. sw = [file |-> sw.file, loaded |-> sw.loaded, added |-> sw.added]
  BY <1>1 DEF NewSwitch
<1> QED
  BY <1>2 DEF CommissionInit, WireInv, WireTypeOK, AskedInv, WiredInv, NoSilentMisrouting,
              Unit, Stage

\* ... and every step keeps it.
LEMMA WireInvKept == WireInv /\ [CommissionNext]_commissionVars => WireInv'
<1> SUFFICES ASSUME WireInv, [CommissionNext]_commissionVars PROVE WireInv'
  OBVIOUS
<1> USE DEF WireInv
<1>1. CASE UNCHANGED commissionVars
  BY <1>1 DEF commissionVars, WireTypeOK, AskedInv, WiredInv, NoSilentMisrouting, Wired
<1>2. ASSUME NEW u \in Unit, StartTest(u) PROVE WireInv'
  BY <1>2 DEF StartTest, WireTypeOK, AskedInv, WiredInv, NoSilentMisrouting, Stage
<1>3. CASE DeployFails \/ ConfigureFails
  BY <1>3 DEF DeployFails, ConfigureFails, WireTypeOK, AskedInv, WiredInv,
              NoSilentMisrouting, Stage
<1>4. CASE DeployNetworkInterfaces
  <2>1. /\ sw' = [file |-> sw'.file, loaded |-> sw'.loaded, added |-> sw'.added]
        /\ stage' = "configure" /\ (warned' = {} => sw'.loaded = tested)
    BY <1>4, DeployLoads DEF DeployNetworkInterfaces
  <2> QED
    BY <1>4, <2>1 DEF DeployNetworkInterfaces, WireTypeOK, AskedInv, WiredInv,
                      NoSilentMisrouting, Stage
<1>5. CASE ConfigureSkips
  BY <1>5 DEF ConfigureSkips, WireTypeOK, AskedInv, WiredInv, NoSilentMisrouting, Stage, Wired
<1>6. CASE ConfigureApplies
  <2> DEFINE batch == Expected(tested)
  <2>1. /\ UNCHANGED <<bench, tested, ate, warned>> /\ stage = "configure"
        /\ \/ sw' = Prefix(sw, batch, Len(batch)) /\ stage' = "app"
           \/ stage' = "idle" /\ (sw' = sw \/ \E n \in Int : sw' = Prefix(sw, batch, n))
    <3>1. Len(batch) \in Int
      BY DEF Expected, ExpectedDtn, ExpectedVmc, ExpectedCmc, WireTypeOK, Unit
    <3> QED
      BY <1>6, <3>1 DEF ConfigureApplies
  <2>2. sw' = [file |-> sw'.file, loaded |-> sw'.loaded, added |-> sw'.added]
    BY <2>1, PrefixKeeps DEF WireTypeOK
  <2>3. CASE sw' = Prefix(sw, batch, Len(batch)) /\ stage' = "app"
    <3>1. sw'.loaded = sw.loaded
      BY <2>3, PrefixKeeps DEF WireTypeOK
    <3>2. HasAllExpectedVlans(sw', tested')
      BY <2>1, <2>3, BatchCompletes DEF WireTypeOK
    <3> QED
      BY <2>1, <2>2, <2>3, <3>1, <3>2 DEF WireTypeOK, AskedInv, WiredInv,
                                          NoSilentMisrouting, Stage, Wired
  <2>4. CASE stage' = "idle"
    BY <2>1, <2>2, <2>4 DEF WireTypeOK, AskedInv, WiredInv, NoSilentMisrouting, Stage
  <2> QED
    BY <2>1, <2>3, <2>4
<1>7. CASE SwitchRestarts
  BY <1>7 DEF SwitchRestarts, Reloaded, NewSwitch, WireTypeOK, AskedInv, WiredInv,
              NoSilentMisrouting, Stage
<1>8. ASSUME NEW m \in BOOLEAN, NEW b \in Bench, ModeChosen(m, b), stage = "app",
             tested = "cmc" \/ (tested = "vmc" /\ m = (b = "plugs") /\ b # "nothing")
      PROVE  WireInv'
  <2>1. warned = {} /\ b # "nothing" => Routed(sw, tested, m, b)
    <3> SUFFICES ASSUME warned = {}, b # "nothing" PROVE Routed(sw, tested, m, b)
      OBVIOUS
    <3>1. Wired
      BY <1>8 DEF WiredInv
    <3>2. b \in {"unit", "plugs"}
      BY DEF Bench
    <3>3. tested # "dtn" /\ (tested = "vmc" => m = (b = "plugs"))
      BY <1>8
    <3> QED
      BY <3>1, <3>2, <3>3, WiredRoutes
  <2>2. /\ UNCHANGED <<sw, tested, warned>> /\ ate' = m /\ bench' = b
        /\ stage' = "traffic"
    BY <1>8 DEF ModeChosen
  <2>3. NoSilentMisrouting'
    BY <2>1, <2>2 DEF NoSilentMisrouting
  <2> QED
    BY <2>2, <2>3 DEF WireTypeOK, AskedInv, WiredInv, Stage
<1>9. CASE VmcModeSelection
  BY <1>8, <1>9 DEF VmcModeSelection, Bench
<1>10. CASE CmcModeSelection
  <2>1. PICK m \in BOOLEAN, b \in Bench : ModeChosen(m, b)
    BY <1>10 DEF CmcModeSelection, Bench, WireTypeOK
  <2>2. stage = "app" /\ tested = "cmc"
    BY <1>10 DEF CmcModeSelection
  <2> QED
    BY <1>8, <2>1, <2>2
<1>11. CASE StartLoopback \/ SkipLoopback
  BY <1>11 DEF StartLoopback, SkipLoopback, WireTypeOK, AskedInv, WiredInv,
               NoSilentMisrouting, Stage, Wired, Bench
<1>12. CASE StartUnitTest
  BY <1>12 DEF StartUnitTest, WireTypeOK, AskedInv, WiredInv, NoSilentMisrouting, Stage,
               Wired, Bench
<1>13. CASE AteConfigureFails
  BY <1>13 DEF AteConfigureFails, Warn, WireTypeOK, AskedInv, WiredInv, NoSilentMisrouting,
               Stage
<1>14. CASE AteDeployInterfaces
  <2>1. /\ sw' = [file |-> sw'.file, loaded |-> sw'.loaded, added |-> sw'.added]
        /\ stage' = "ateConfigure" /\ (warned' = {} => sw'.loaded = "ate")
    BY <1>14, DeployLoads DEF AteDeployInterfaces
  <2> QED
    BY <1>14, <2>1 DEF AteDeployInterfaces, WireTypeOK, AskedInv, WiredInv,
                       NoSilentMisrouting, Stage
<1>15. CASE AteConfigureSequence
  <2>1. /\ UNCHANGED <<bench, tested, ate>> /\ stage = "ateConfigure"
        /\ stage' = "ateCables"
        /\ \/ /\ warned' = warned
              /\ sw' = Prefix(sw, ExpectedAte, Len(ExpectedAte))
           \/ warned' # {} /\ (sw' = sw \/ \E n \in Int : sw' = Prefix(sw, ExpectedAte, n))
    BY <1>15 DEF AteConfigureSequence, Warn
  <2>2. sw' = [file |-> sw'.file, loaded |-> sw'.loaded, added |-> sw'.added]
    BY <2>1, PrefixKeeps DEF WireTypeOK
  <2>3. ASSUME warned' = {}
        PROVE  /\ warned = {} /\ sw'.loaded = sw.loaded
               /\ \A d \in 0..31 : Iface("swp25", d) \in sw'.added
    <3>1. warned = {} /\ sw' = Prefix(sw, ExpectedAte, Len(ExpectedAte))
      BY <2>1, <2>3
    <3>2. sw'.loaded = sw.loaded
      BY <3>1, PrefixKeeps DEF WireTypeOK
    <3>3. \A d \in 0..31 : Iface("swp25", d) \in Prefix(sw, ExpectedAte, Len(ExpectedAte)).added
      BY AteCompletes DEF WireTypeOK
    <3> QED
      BY <3>1, <3>2, <3>3
  <2> QED
    BY <2>1, <2>2, <2>3 DEF WireTypeOK, AskedInv, WiredInv, NoSilentMisrouting, Stage
<1>16. CASE EnterAteMode
  <2>1. /\ UNCHANGED <<sw, tested>> /\ bench' = "plugs" /\ ate' = TRUE
        /\ stage = "ateCables" /\ stage' = "traffic" /\ (warned' = {} => warned = {})
    BY <1>16 DEF EnterAteMode, Warn
  <2>2. warned' = {} => Routed(sw, "dtn", TRUE, "plugs")
    BY <2>1, AteRouted DEF WiredInv
  <2>3. NoSilentMisrouting'
    BY <2>1, <2>2 DEF NoSilentMisrouting, AskedInv
  <2> QED
    BY <2>1, <2>3 DEF WireTypeOK, AskedInv, WiredInv, Stage, Bench
<1>17. CASE SkipPair \/ RunSingleTest \/ ClosePair
  <2>1. /\ UNCHANGED <<sw, bench, tested, stage, ate>> /\ stage # "traffic"
        /\ warned' = {} => warned = {}
    BY <1>17 DEF SkipPair, RunSingleTest, ClosePair, Warn, Measuring
  <2> QED
    BY <2>1 DEF WireTypeOK, AskedInv, WiredInv, NoSilentMisrouting, Wired
<1>18. CASE EndLoopback
  BY <1>18 DEF EndLoopback, WireTypeOK, AskedInv, WiredInv, NoSilentMisrouting, Stage, Wired
<1>19. CASE EndUnitTest
  <2>1. /\ UNCHANGED <<sw, bench, tested, ate>> /\ stage = "unit"
        /\ stage' = "traffic" /\ (warned' = {} => warned = {})
    BY <1>19 DEF EndUnitTest, Warn
  <2>2. tested = "dtn" /\ bench = "unit" /\ ate = FALSE
    BY <2>1 DEF AskedInv, WireTypeOK
  <2>3. warned' = {} => Routed(sw, tested, ate, bench)
    BY <2>1, <2>2, WiredRoutes DEF WiredInv
  <2>4. NoSilentMisrouting'
    BY <2>1, <2>3 DEF NoSilentMisrouting
  <2> QED
    BY <2>1, <2>4 DEF WireTypeOK, AskedInv, WiredInv, Stage
<1>20. CASE EndTest
  BY <1>20 DEF EndTest, WireTypeOK, AskedInv, WiredInv, NoSilentMisrouting, Stage
<1> QED
  BY <1>1, <1>2, <1>3, <1>4, <1>5, <1>6, <1>7, <1>9, <1>10, <1>11, <1>12, <1>13, <1>14,
     <1>15, <1>16, <1>17, <1>18, <1>19, <1>20 DEF CommissionNext

\* Whatever was tested before, whatever the switch had and whichever steps failed: a test
\* that reported nothing has every VLAN come home where its tables expect it.
THEOREM NoSilentMisroutingHolds == CommissionSpec => []NoSilentMisrouting
<1>1. WireInv => NoSilentMisrouting
  BY DEF WireInv
<1> QED
  BY WireInvInit, WireInvKept, <1>1, PTL DEF CommissionSpec

-----------------------------------------------------------------------------
(* One measurement.                                                        *)

Counting == <<"test", 0>>
Number == {<<"warm-up", 0>>, <<"warm-up", 1>>, Counting}
Time == Nat \cup {Never}
PacketSet == [vlan : Int, seq : Number, at : Nat]
ChannelSet == [stamps : Seq(Int \X Int), packets : SUBSET PacketSet, now : Nat]

\* No stamp is of the future, and the packets that count are of the VLANs measured before.
SoundChannel(ch) ==
    /\ ch \in ChannelSet
    /\ \A i \in 1..Len(ch.stamps) : ch.stamps[i][1] <= ch.now
ChannelInv(ch, done) ==
    /\ SoundChannel(ch)
    /\ \A p \in ch.packets : p.seq = Counting => p.vlan \in done

\* Only the packet that is sent joins those under way, and its stamp the queue.
Sent(ch, vlan, seq, lat) == [vlan |-> vlan, seq |-> seq, at |-> ch.now + lat]
LEMMA TransmitKeeps ==
    ASSUME NEW ch, SoundChannel(ch),
           NEW vlan \in Int, NEW seq \in Number,
           NEW stamp \in Time, NEW lat \in Time
    PROVE  /\ SoundChannel(Transmit(ch, vlan, seq, stamp, lat))
           /\ Transmit(ch, vlan, seq, stamp, lat).now = ch.now
           /\ \A p \in Transmit(ch, vlan, seq, stamp, lat).packets :
                p \in ch.packets \/ (lat # Never /\ p = Sent(ch, vlan, seq, lat))
<1> DEFINE t == Transmit(ch, vlan, seq, stamp, lat)
           new == Sent(ch, vlan, seq, lat)
           mark == <<ch.now, ch.now + stamp>>
           stamps == IF stamp = Never THEN ch.stamps ELSE Append(ch.stamps, mark)
           packets == IF lat = Never THEN ch.packets ELSE ch.packets \cup {new}
<1>1. PICK s \in Seq(Int \X Int), ps \in SUBSET PacketSet, now \in Nat :
         ch = [stamps |-> s, packets |-> ps, now |-> now]
  BY DEF ChannelSet, SoundChannel
<1>2. t = [stamps |-> stamps, packets |-> packets, now |-> now]
  <2>1. t = [ch EXCEPT !.stamps = stamps, !.packets = packets]
    BY DEF Transmit, Sent
  <2> HIDE DEF stamps, packets
  <2> QED
    BY <1>1, <2>1
<1>3. Never \in Int /\ mark \in Int \X Int /\ mark[1] = now
  BY <1>1 DEF Never, Time
<1>4. lat # Never => new \in PacketSet
  BY <1>1 DEF PacketSet, Sent, Time
<1>5. packets \in SUBSET PacketSet
  BY <1>1, <1>4
<1>6. stamps \in Seq(Int \X Int) /\ \A i \in 1..Len(stamps) : stamps[i][1] <= now
  <2>0. \A i \in 1..Len(s) : s[i][1] <= now
    BY <1>1 DEF SoundChannel
  <2>1. CASE stamp = Never
    BY <1>1, <2>0, <2>1
  <2>2. CASE stamp # Never
    <3> HIDE DEF mark
    <3>1. stamps = Append(s, mark)
      BY <1>1, <2>2
    <3>2. /\ Append(s, mark) \in Seq(Int \X Int) /\ Len(Append(s, mark)) = Len(s) + 1
          /\ \A i \in 1..Len(s) : Append(s, mark)[i] = s[i]
          /\ Append(s, mark)[Len(s) + 1] = mark
      BY <1>1, <1>3, AppendProperties
    <3>3. Len(s) \in Nat
      BY <1>1
    <3>4. ASSUME NEW i \in 1..(Len(s) + 1) PROVE Append(s, mark)[i][1] <= now
      <4>1. i \in 1..Len(s) \/ i = Len(s) + 1
        BY <3>3
      <4>2. CASE i \in 1..Len(s)
        BY <2>0, <3>2, <4>2
      <4>3. CASE i = Len(s) + 1
        BY <1>1, <1>3, <3>2, <4>3
      <4> QED
        BY <4>1, <4>2, <4>3
    <3> QED
      BY <3>1, <3>2, <3>4
  <2> QED
    BY <2>1, <2>2
<1> HIDE DEF stamps, packets, t
<1>7. t \in ChannelSet /\ t.now = ch.now /\ t.stamps = stamps /\ t.packets = packets /\ t.now = now
  BY <1>1, <1>2, <1>5, <1>6 DEF ChannelSet
<1> QED
  BY <1>4, <1>6, <1>7 DEF t, packets, SoundChannel

\* Reading a stamp takes time, and what is read is of the past.
LEMMA ReadStampKeeps ==
    ASSUME NEW ch, SoundChannel(ch),
           NEW limit \in Nat
    PROVE  LET r == ReadStamp(ch, limit)
           IN  /\ SoundChannel(r.ch) /\ r.ch.now >= ch.now /\ r.ch.packets = ch.packets
               /\ r.stamp = Never \/ (r.stamp \in Int /\ r.stamp <= ch.now)
<1> DEFINE r == ReadStamp(ch, limit)
<1>1. PICK s \in Seq(Int \X Int), ps \in SUBSET PacketSet, now \in Nat :
         ch = [stamps |-> s, packets |-> ps, now |-> now]
  BY DEF ChannelSet, SoundChannel
<1>2. \A i \in 1..Len(s) : s[i][1] <= now
  BY <1>1 DEF SoundChannel
<1>3. CASE ch.stamps # <<>> /\ Head(ch.stamps)[2] <= ch.now + limit
  <2> DEFINE late == Later(now, Head(s)[2])
  <2>1. s # <<>> /\ Head(s) = s[1] /\ Head(s) \in Int \X Int /\ Len(s) \in Nat /\ Len(s) > 0
    BY <1>1, <1>3
  <2>2. /\ Tail(s) \in Seq(Int \X Int) /\ Len(Tail(s)) = Len(s) - 1
        /\ \A i \in 1..Len(Tail(s)) : Tail(s)[i] = s[i + 1]
    BY <2>1, HeadTailProperties
  <2>3. late \in Nat /\ late >= now
    BY <1>1, <2>1 DEF Later
  <2>4. r = [stamp |-> Head(s)[1], ch |-> [stamps |-> Tail(s), packets |-> ps, now |-> late]]
    BY <1>1, <1>3 DEF ReadStamp
  <2>5. ASSUME NEW i \in 1..Len(Tail(s)) PROVE Tail(s)[i][1] <= late
    <3>1. i + 1 \in 1..Len(s) /\ Tail(s)[i] = s[i + 1]
      BY <2>1, <2>2
    <3>2. s[i + 1][1] <= now
      BY <1>2, <3>1
    <3>3. s[i + 1] \in Int \X Int
      BY <1>1, <3>1
    <3>4. s[i + 1][1] \in Int
      BY <3>3
    <3> QED
      BY <1>1, <2>3, <3>1, <3>2, <3>4
  <2> HIDE DEF late
  <2>6. Head(s)[1] \in Int /\ Head(s)[1] <= now
    BY <1>2, <2>1
  <2> HIDE DEF r
  <2>7. r.ch.stamps = Tail(s) /\ r.ch.packets = ps /\ r.ch.now = late /\ r.stamp = Head(s)[1]
    BY <2>4
  <2>8. r.ch \in ChannelSet
    BY <1>1, <2>2, <2>3, <2>4 DEF ChannelSet
  <2>9. ch.now = now /\ ch.packets = ps
    BY <1>1
  <2> QED
    BY <2>3, <2>5, <2>6, <2>7, <2>8, <2>9 DEF r, SoundChannel
<1>4. CASE ~(ch.stamps # <<>> /\ Head(ch.stamps)[2] <= ch.now + limit)
  <2>1. r = [stamp |-> Never, ch |-> [stamps |-> s, packets |-> ps, now |-> now + limit]]
    BY <1>1, <1>4 DEF ReadStamp
  <2>2. r.ch \in ChannelSet
    BY <1>1, <2>1 DEF ChannelSet
  <2>3. \A i \in 1..Len(s) : s[i][1] \in Int
    BY <1>1
  <2>4. \A i \in 1..Len(s) : s[i][1] <= now + limit
    BY <1>1, <1>2, <2>3
  <2> HIDE DEF r
  <2>5. r.ch.stamps = s /\ r.ch.packets = ps /\ r.ch.now = now + limit /\ r.stamp = Never
    BY <2>1
  <2>6. ch.now = now /\ ch.packets = ps /\ now + limit >= now
    BY <1>1
  <2> QED
    BY <2>2, <2>4, <2>5, <2>6 DEF r, SoundChannel
<1> QED
  BY <1>3, <1>4

\* The first packet is one of them.
LEMMA FirstIs ==
    ASSUME NEW ps \in SUBSET PacketSet, ps # {}
    PROVE  First(ps) \in ps /\ \A q \in ps : First(ps).at <= q.at
<1> DEFINE ats == {p.at : p \in ps}
<1>1. ats \in SUBSET Nat /\ ats # {}
  BY DEF PacketSet
<1>2. PICK m \in ats : \A k \in ats : m <= k
  BY <1>1, LeastNatural
<1>3. \E p \in ps : \A q \in ps : p.at <= q.at
  BY <1>2
<1> QED
  BY <1>3 DEF First

\* Neither a packet that is thrown away nor the draining adds any.
LEMMA DiscardKeeps ==
    ASSUME NEW ch, SoundChannel(ch)
    PROVE  LET d == DiscardOne(ch)
           IN  /\ SoundChannel(d) /\ d.now >= ch.now /\ d.packets \subseteq ch.packets
<1> DEFINE due == {p \in ch.packets : p.at <= ch.now + WarmUpWait}
           d == DiscardOne(ch)
<1>1. PICK s \in Seq(Int \X Int), ps \in SUBSET PacketSet, now \in Nat :
         ch = [stamps |-> s, packets |-> ps, now |-> now]
  BY DEF ChannelSet, SoundChannel
<1>2. ASSUME NEW late \in Nat, late >= now, NEW left \in SUBSET ps,
             d = [stamps |-> s, packets |-> left, now |-> late]
      PROVE  SoundChannel(d) /\ d.now >= ch.now /\ d.packets \subseteq ch.packets
  <2> HIDE DEF d
  <2>1. d \in ChannelSet
    BY <1>1, <1>2 DEF ChannelSet
  <2>2. \A i \in 1..Len(s) : s[i][1] \in Int /\ s[i][1] <= now
    BY <1>1 DEF SoundChannel
  <2>3. \A i \in 1..Len(s) : s[i][1] <= late
    BY <1>1, <1>2, <2>2
  <2> QED
    BY <1>1, <1>2, <2>1, <2>3 DEF SoundChannel
<1>3. CASE due = {}
  <2>1. d = [stamps |-> s, packets |-> ps, now |-> now + WarmUpWait]
    BY <1>1, <1>3 DEF DiscardOne
  <2>2. now + WarmUpWait \in Nat /\ now + WarmUpWait >= now
    BY <1>1 DEF WarmUpWait
  <2> QED
    BY <1>2, <2>1, <2>2
<1>4. CASE due # {}
  <2> DEFINE f == First(due)
  <2>1. due \in SUBSET PacketSet
    BY <1>1
  <2> HIDE DEF due
  <2>2. f \in PacketSet
    BY <1>4, <2>1, FirstIs
  <2>3. d = [stamps |-> s, packets |-> ps \ {f}, now |-> Later(now, f.at)]
    BY <1>1, <1>4 DEF DiscardOne, due
  <2>4. Later(now, f.at) \in Nat /\ Later(now, f.at) >= now
    BY <1>1, <2>2 DEF Later, PacketSet
  <2> HIDE DEF f, d
  <2>5. ps \ {f} \in SUBSET ps
    OBVIOUS
  <2>6. SoundChannel(d) /\ d.now >= ch.now /\ d.packets \subseteq ch.packets
    BY <1>2, <2>3, <2>4, <2>5
  <2> QED
    BY <2>6 DEF d
<1> QED
  BY <1>3, <1>4

\* A packet to warm up leaves none that counts.
LEMMA WarmUpKeeps ==
    ASSUME NEW ch, NEW done, ChannelInv(ch, done), NEW vlan \in Int, NEW w \in {0, 1},
           NEW choice, choice.stamp \in Time, choice.lat \in Time
    PROVE  ChannelInv(WarmUpPacket(ch, vlan, w, choice), done)
<1> DEFINE stamp == choice.stamp
           lat == choice.lat
           seq == <<"warm-up", w>>
           new == Sent(ch, vlan, seq, lat)
           t == Transmit(ch, vlan, seq, stamp, lat)
           r == ReadStamp(t, WarmUpWait)
           d == DiscardOne(r.ch)
<1>0. stamp \in Time /\ lat \in Time
  OBVIOUS
<1>1. seq \in Number /\ seq # Counting
  BY DEF Counting, Number
<1> HIDE DEF seq, stamp, lat
<1>2. SoundChannel(t) /\ \A p \in t.packets : p \in ch.packets \/ p = new
  <2>1. t = Transmit(ch, vlan, seq, stamp, lat)
    OBVIOUS
  <2>2. SoundChannel(ch)
    BY DEF ChannelInv
  <2> HIDE DEF t
  <2>3. SoundChannel(t)
    BY <1>0, <1>1, <2>1, <2>2, TransmitKeeps
  <2>4. ASSUME NEW p \in t.packets PROVE p \in ch.packets \/ p = Sent(ch, vlan, seq, lat)
    <3>1. p \in Transmit(ch, vlan, seq, stamp, lat).packets
      BY <2>1
    <3> QED
      BY <1>0, <1>1, <2>2, <3>1, TransmitKeeps
  <2> QED
    BY <2>3, <2>4
<1> HIDE DEF t
<1>3. SoundChannel(r.ch) /\ r.ch.packets = t.packets
  <2>1. WarmUpWait \in Nat
    BY DEF WarmUpWait
  <2> QED
    BY <1>2, <2>1, ReadStampKeeps
<1> HIDE DEF r
<1>4. SoundChannel(d) /\ d.packets \subseteq t.packets
  BY <1>3, DiscardKeeps
<1> HIDE DEF d
<1>5. PICK s \in Seq(Int \X Int), ps \in SUBSET PacketSet, now \in Nat :
         d = [stamps |-> s, packets |-> ps, now |-> now]
  BY <1>4 DEF ChannelSet, SoundChannel
<1>6. WarmUpPacket(ch, vlan, w, choice) = [stamps |-> s, packets |-> ps, now |-> now + 10]
  <2>1. WarmUpPacket(ch, vlan, w, choice) = [d EXCEPT !.now = @ + 10]
    BY DEF WarmUpPacket, d, r, t, seq, stamp, lat
  <2> QED
    BY <1>5, <2>1
<1>7. [stamps |-> s, packets |-> ps, now |-> now + 10] \in ChannelSet
  BY <1>5 DEF ChannelSet
<1>8. \A i \in 1..Len(s) : s[i][1] \in Int /\ s[i][1] <= now
  BY <1>4, <1>5 DEF SoundChannel
<1>9. \A i \in 1..Len(s) : s[i][1] <= now + 10
  BY <1>5, <1>8
<1>10. \A p \in ps : p.seq = Counting => p.vlan \in done
  <2> SUFFICES ASSUME NEW p \in ps, p.seq = Counting PROVE p.vlan \in done
    OBVIOUS
  <2>1. p \in ch.packets \/ p = new
    BY <1>2, <1>4, <1>5
  <2>2. new.seq # Counting
    BY <1>1 DEF Sent
  <2> QED
    BY <2>1, <2>2 DEF ChannelInv
<1> QED
  BY <1>6, <1>7, <1>9, <1>10 DEF ChannelInv, SoundChannel

\* Nor does the draining add any.
LEMMA DrainKeeps ==
    ASSUME NEW ch, NEW done, ChannelInv(ch, done)
    PROVE  ChannelInv(Drain(ch), done)
<1>1. PICK s \in Seq(Int \X Int), ps \in SUBSET PacketSet, now \in Nat :
         ch = [stamps |-> s, packets |-> ps, now |-> now]
  BY DEF ChannelSet, ChannelInv, SoundChannel
<1> DEFINE left == {p \in ps : p.at > now}
<1>2. Drain(ch) = [stamps |-> s, packets |-> left, now |-> now]
  <2>1. Drain(ch) = [ch EXCEPT !.packets = left]
    BY <1>1 DEF Drain
  <2> HIDE DEF left
  <2> QED
    BY <1>1, <2>1
<1>3. [stamps |-> s, packets |-> left, now |-> now] \in ChannelSet
  BY <1>1 DEF ChannelSet
<1> QED
  BY <1>1, <1>2, <1>3 DEF ChannelInv, SoundChannel

\* The packet that counts is taken by its number, and no other that is under way has it: the
\* measured time reaches from a stamp of the past to its arrival.
LEMMA MeasuredIs ==
    ASSUME NEW ch, NEW done, ChannelInv(ch, done), NEW vlan \in Int, vlan \notin done,
           NEW choice, choice.stamp \in Time, choice.lat \in Time,
           NEW m, m = MeasuredPacket(ch, vlan, choice)
    PROVE  /\ ChannelInv(m.ch, done \cup {vlan})
           /\ \A p \in m.ch.packets : p.at > m.ch.now
           /\ DOMAIN m = {"ch", "valid", "latency", "actual"}
           /\ m.valid \in BOOLEAN /\ m.latency \in Int /\ m.actual \in Int
           /\ m.valid => choice.lat # Never /\ m.latency >= m.actual
<1> DEFINE stamp == choice.stamp
           lat == choice.lat
           new == Sent(ch, vlan, Counting, lat)
           t == Transmit(ch, vlan, Counting, stamp, lat)
           s == ReadStamp(t, StampWait)
           deadline == s.ch.now + RxTimeout
           mine == {p \in s.ch.packets :
                       /\ p.at < deadline /\ OurPacket(p, vlan, Counting)
                       /\ s.stamp # Never /\ p.at > s.stamp}
           ended == IF mine = {} THEN deadline ELSE Later(s.ch.now, First(mine).at)
<1>0. stamp \in Time /\ lat \in Time
  OBVIOUS
<1> HIDE DEF stamp, lat
<1>1. /\ SoundChannel(t) /\ t.now = ch.now
      /\ \A p \in t.packets : p \in ch.packets \/ (lat # Never /\ p = new)
  <2>1. t = Transmit(ch, vlan, Counting, stamp, lat)
    OBVIOUS
  <2>2. SoundChannel(ch) /\ Counting \in Number
    BY DEF ChannelInv, Number
  <2> HIDE DEF t
  <2>3. SoundChannel(t) /\ t.now = ch.now
    BY <1>0, <2>1, <2>2, TransmitKeeps
  <2>4. ASSUME NEW p \in t.packets
        PROVE  p \in ch.packets \/ (lat # Never /\ p = Sent(ch, vlan, Counting, lat))
    <3>1. p \in Transmit(ch, vlan, Counting, stamp, lat).packets
      BY <2>1
    <3> QED
      BY <1>0, <2>2, <3>1, TransmitKeeps
  <2> QED
    BY <2>3, <2>4
<1> HIDE DEF t
<1>2. /\ SoundChannel(s.ch) /\ s.ch.packets = t.packets /\ s.ch.now >= t.now
      /\ s.stamp = Never \/ (s.stamp \in Int /\ s.stamp <= t.now)
  <2>1. StampWait \in Nat
    BY DEF StampWait
  <2> QED
    BY <1>1, <2>1, ReadStampKeeps
<1>3. m = [ch |-> [s.ch EXCEPT !.now = ended, !.packets = {p \in @ : p.at > ended}],
           valid |-> mine # {},
           latency |-> IF mine = {} THEN 0 ELSE First(mine).at - s.stamp,
           actual |-> IF mine = {} THEN 0 ELSE lat]
  BY DEF MeasuredPacket, t, stamp, lat, Counting
<1> HIDE DEF s
<1>4. ASSUME NEW p \in mine PROVE p = new /\ lat # Never
  <2>1. p \in t.packets /\ p.seq = Counting /\ p.vlan = vlan
    BY <1>2 DEF OurPacket
  <2>2. p \notin ch.packets
    BY <2>1 DEF ChannelInv
  <2> QED
    BY <1>1, <2>1, <2>2
<1>5. PICK q \in Seq(Int \X Int), ps \in SUBSET PacketSet, now \in Nat :
         s.ch = [stamps |-> q, packets |-> ps, now |-> now]
  BY <1>2 DEF ChannelSet, SoundChannel
<1>6. mine \in SUBSET PacketSet
  BY <1>5
<1> HIDE DEF mine
<1>7. mine # {} => First(mine) \in mine /\ First(mine) = new /\ lat # Never
  BY <1>4, <1>6, FirstIs
<1>8. ended \in Nat /\ ended >= now
  <2>1. CASE mine = {}
    BY <1>5, <2>1 DEF RxTimeout
  <2>2. CASE mine # {}
    <3>1. First(mine).at \in Nat
      BY <1>6, <1>7, <2>2 DEF PacketSet
    <3> QED
      BY <1>5, <2>2, <3>1 DEF Later
  <2> QED
    BY <2>1, <2>2
<1> DEFINE left == {p \in ps : p.at > ended}
           valid == mine # {}
           latency == IF mine = {} THEN 0 ELSE First(mine).at - s.stamp
           actual == IF mine = {} THEN 0 ELSE lat
<1>9. valid \in BOOLEAN /\ latency \in Int /\ actual \in Int
      /\ (valid => lat # Never /\ latency >= actual)
  <2>1. CASE mine = {}
    BY <2>1
  <2>2. CASE mine # {}
    <3>1. First(mine).at = ch.now + lat /\ lat \in Nat
      BY <1>0, <1>7, <2>2 DEF Sent, Time
    <3>2. s.stamp \in Int /\ s.stamp <= ch.now
      <4>1. s.stamp # Never
        BY <1>7, <2>2 DEF mine
      <4> QED
        BY <1>1, <1>2, <4>1
    <3>3. ch.now \in Nat
      BY DEF ChannelInv, ChannelSet, SoundChannel
    <3>4. lat # Never
      BY <1>7, <2>2
    <3> QED
      BY <2>2, <3>1, <3>2, <3>3, <3>4
  <2> QED
    BY <2>1, <2>2
<1>10. [s.ch EXCEPT !.now = ended, !.packets = {p \in @ : p.at > ended}]
           = [stamps |-> q, packets |-> left, now |-> ended]
  <2>1. left = {p \in s.ch.packets : p.at > ended}
    BY <1>5
  <2>2. [s.ch EXCEPT !.now = ended, !.packets = left]
            = [stamps |-> q, packets |-> left, now |-> ended]
    <3> HIDE DEF left
    <3> DEFINE c == s.ch
    <3>1. c = [stamps |-> q, packets |-> ps, now |-> now]
      BY <1>5
    <3> HIDE DEF ended, left, c
    <3> DEFINE f == [c EXCEPT !.now = ended, !.packets = left]
    <3>2. DOMAIN f = {"stamps", "packets", "now"} /\ f = [i \in DOMAIN f |-> f[i]]
      BY <3>1
    <3>3. f.stamps = q /\ f.packets = left /\ f.now = ended
      BY <3>1
    <3> HIDE DEF f
    <3>4. f = [stamps |-> q, packets |-> left, now |-> ended]
      BY <3>2, <3>3
    <3> QED
      BY <3>4 DEF c, f
  <2> HIDE DEF ended, left
  <2> QED
    BY <2>1, <2>2
<1> HIDE DEF ended, left, valid, latency, actual
<1>11. /\ m.ch = [stamps |-> q, packets |-> left, now |-> ended]
       /\ m.valid = valid /\ m.latency = latency /\ m.actual = actual
       /\ DOMAIN m = {"ch", "valid", "latency", "actual"}
  <2>1. m = [ch |-> [stamps |-> q, packets |-> left, now |-> ended],
             valid |-> valid, latency |-> latency, actual |-> actual]
    BY <1>3, <1>10 DEF valid, latency, actual
  <2> QED
    BY <2>1
<1>12. left \in SUBSET PacketSet /\ \A p \in left : p \in ps /\ p.at > ended
  BY <1>5 DEF left
<1>13. m.ch \in ChannelSet
  BY <1>5, <1>8, <1>11, <1>12 DEF ChannelSet
<1>14. \A i \in 1..Len(q) : q[i][1] <= ended
  <2>1. \A i \in 1..Len(q) : q[i][1] \in Int /\ q[i][1] <= now
    BY <1>2, <1>5 DEF SoundChannel
  <2> QED
    BY <1>5, <1>8, <2>1
<1>15. \A p \in left : p.seq = Counting => p.vlan \in done \cup {vlan}
  <2> SUFFICES ASSUME NEW p \in left, p.seq = Counting PROVE p.vlan \in done \cup {vlan}
    OBVIOUS
  <2>1. p \in ch.packets \/ p = new
    BY <1>1, <1>2, <1>5, <1>12
  <2> QED
    BY <2>1 DEF ChannelInv, Sent
<1>16. ChannelInv(m.ch, done \cup {vlan})
  BY <1>11, <1>13, <1>14, <1>15 DEF ChannelInv, SoundChannel
<1> QED
  BY <1>9, <1>11, <1>12, <1>16 DEF lat

\* What counts for the next measurement is how long ago a stamp was taken, and when a packet
\* will come.
LEMMA RebasedKeeps ==
    ASSUME NEW ch, NEW done, ChannelInv(ch, done), \A p \in ch.packets : p.at > ch.now
    PROVE  ChannelInv(Rebased(ch), done)
<1>1. PICK s \in Seq(Int \X Int), ps \in SUBSET PacketSet, now \in Nat :
         ch = [stamps |-> s, packets |-> ps, now |-> now]
  BY DEF ChannelSet, ChannelInv, SoundChannel
<1> DEFINE q == [i \in DOMAIN s |-> <<s[i][1] - now, s[i][2] - now>>]
           moved(p) == [p EXCEPT !.at = @ - now]
           left == {moved(p) : p \in ps}
<1>2. Rebased(ch) = [stamps |-> q, packets |-> left, now |-> 0]
  BY <1>1 DEF Rebased
<1>3. q \in Seq(Int \X Int) /\ \A i \in 1..Len(q) : q[i][1] <= 0
  <2>1. Len(s) \in Nat /\ DOMAIN s = 1..Len(s) /\ \A i \in 1..Len(s) : s[i] \in Int \X Int
    BY <1>1
  <2>2. \A i \in 1..Len(s) : s[i][1] <= now
    BY <1>1 DEF ChannelInv, SoundChannel
  <2>3. \A i \in 1..Len(s) : q[i] \in Int \X Int /\ q[i][1] <= 0
    BY <1>1, <2>1, <2>2
  <2>4. q \in [1..Len(s) -> Int \X Int]
    BY <2>1, <2>3
  <2>5. q \in Seq(Int \X Int) /\ Len(q) = Len(s)
    <3> DEFINE n == Len(s)
    <3>1. n \in Nat /\ q \in [1..n -> Int \X Int]
      BY <2>1, <2>4
    <3> HIDE DEF q, n
    <3>2. q \in Seq(Int \X Int) /\ Len(q) = n
      BY <3>1
    <3> QED
      BY <3>2 DEF n
  <2> QED
    BY <2>3, <2>5
<1>4. ASSUME NEW p \in ps
      PROVE  /\ moved(p) \in PacketSet /\ moved(p).seq = p.seq /\ moved(p).vlan = p.vlan
  <2>1. PICK v \in Int, n \in Number, due \in Nat :
           p = [vlan |-> v, seq |-> n, at |-> due]
    BY <1>1 DEF PacketSet
  <2>2. due > now
    BY <1>1, <2>1
  <2>3. moved(p) = [p EXCEPT !.at = due - now]
    BY <2>1
  <2>4. due - now \in Nat
    BY <1>1, <2>1, <2>2
  <2> DEFINE rest == due - now
  <2> HIDE DEF moved, rest
  <2>5. moved(p) = [vlan |-> v, seq |-> n, at |-> rest]
    BY <2>1, <2>3 DEF rest
  <2>6. rest \in Nat
    BY <2>4 DEF rest
  <2>7. moved(p) \in PacketSet
    BY <2>5, <2>6 DEF PacketSet
  <2> QED
    BY <2>1, <2>5, <2>7
<1>5. left \in SUBSET PacketSet
  BY <1>4
<1>6. \A p \in left : p.seq = Counting => p.vlan \in done
  <2> SUFFICES ASSUME NEW p \in left, p.seq = Counting PROVE p.vlan \in done
    OBVIOUS
  <2>1. PICK o \in ps : p = moved(o)
    OBVIOUS
  <2> HIDE DEF moved, left
  <2>2. o.seq = p.seq /\ o.vlan = p.vlan
    BY <1>4, <2>1
  <2>3. o \in ch.packets
    BY <1>1
  <2> QED
    BY <2>2, <2>3 DEF ChannelInv
<1> HIDE DEF q, left
<1>7. [stamps |-> q, packets |-> left, now |-> 0] \in ChannelSet
  BY <1>3, <1>5 DEF ChannelSet
<1> QED
  BY <1>2, <1>3, <1>6, <1>7 DEF ChannelInv, SoundChannel

\* A measurement that counts never takes less than the packet took, whatever earlier ones left
\* in the sockets, and it needs the packet to come home.
Genuine(r, lat) == r.valid => lat # Never /\ r.latency >= r.actual
LEMMA SingleTestIs ==
    ASSUME NEW ch, NEW done, ChannelInv(ch, done), NEW vlan \in Int, vlan \notin done,
           NEW a, a.stamp \in Time, a.lat \in Time,
           NEW b, b.stamp \in Time, b.lat \in Time,
           NEW c, c.stamp \in Time, c.lat \in Time,
           NEW r, r = SingleTest(ch, vlan, <<a, b, c>>)
    PROVE  /\ ChannelInv(r.ch, done \cup {vlan})
           /\ r.valid \in BOOLEAN /\ r.latency \in Int /\ r.actual \in Int
           /\ Genuine(r, c.lat)
<1> DEFINE u == WarmUpPacket(ch, vlan, 0, a)
           w == WarmUpPacket(u, vlan, 1, b)
           d == Drain(w)
           m == MeasuredPacket(d, vlan, c)
<1>0. 0 \in {0, 1} /\ 1 \in {0, 1}
  OBVIOUS
<1>1. ChannelInv(u, done)
  BY <1>0, WarmUpKeeps
<1> HIDE DEF u
<1>2. ChannelInv(w, done)
  BY <1>0, <1>1, WarmUpKeeps
<1> HIDE DEF w
<1>3. ChannelInv(d, done)
  BY <1>2, DrainKeeps
<1> HIDE DEF d
<1>4. r = [m EXCEPT !.ch = Rebased(@)]
  BY DEF SingleTest, u, w, d
<1>5. /\ ChannelInv(m.ch, done \cup {vlan})
      /\ \A p \in m.ch.packets : p.at > m.ch.now
      /\ DOMAIN m = {"ch", "valid", "latency", "actual"}
      /\ m.valid \in BOOLEAN /\ m.latency \in Int /\ m.actual \in Int
      /\ m.valid => c.lat # Never /\ m.latency >= m.actual
  <2>2. m = MeasuredPacket(d, vlan, c) /\ c.stamp \in Time /\ c.lat \in Time
    BY <1>0
  <2> HIDE DEF m
  <2>3. ChannelInv(m.ch, done \cup {vlan})
    BY <1>3, <2>2, MeasuredIs
  <2>4. \A p \in m.ch.packets : p.at > m.ch.now
    BY <1>3, <2>2, MeasuredIs
  <2>5. DOMAIN m = {"ch", "valid", "latency", "actual"}
    BY <1>3, <2>2, MeasuredIs
  <2>6. m.valid \in BOOLEAN /\ m.latency \in Int /\ m.actual \in Int
    BY <1>3, <2>2, MeasuredIs
  <2>7. m.valid => c.lat # Never /\ m.latency >= m.actual
    BY <1>3, <2>2, MeasuredIs
  <2> QED
    BY <2>3, <2>4, <2>5, <2>6, <2>7
<1> HIDE DEF m
<1>6. ChannelInv(Rebased(m.ch), done \cup {vlan})
  BY <1>5, RebasedKeeps
<1>7. r.ch = Rebased(m.ch) /\ r.valid = m.valid /\ r.latency = m.latency /\ r.actual = m.actual
  BY <1>4, <1>5
<1> QED
  BY <1>5, <1>6, <1>7 DEF Genuine

-----------------------------------------------------------------------------
(* The switch's share, from the loop-back test: a mean, which is no more   *)
(* than its greatest latency.                                              *)

\* The sum over a set of results is that over all but one of them, and that one.
AnyResult(s) == CHOOSE r \in s : TRUE
SumStep(g, s) == IF s = {} THEN 0 ELSE AnyResult(s).latency + g[s \ {AnyResult(s)}]
Sums(S) == CHOOSE g : g = [s \in SUBSET S |-> SumStep(g, s)]
LatencySum(S) == MapThenSumSet(LAMBDA r : r.latency, S)

LEMMA LatencySumIs == ASSUME NEW S PROVE LatencySum(S) = Sums(S)[S]
BY DEF LatencySum, MapThenSumSet, MapThenFoldSet, Sums, SumStep, AnyResult

\* Some results out of finitely many.
LEMMA ResultsOf ==
    ASSUME NEW S, IsFiniteSet(S)
    PROVE  /\ \A s \in SUBSET S : Cardinality(s) \in Nat /\ Cardinality(s) <= Cardinality(S)
           /\ \A s \in SUBSET S : s # {} =>
                /\ AnyResult(s) \in s /\ s \ {AnyResult(s)} \in SUBSET S
                /\ Cardinality(s \ {AnyResult(s)}) = Cardinality(s) - 1
<1>1. ASSUME NEW s \in SUBSET S
      PROVE  IsFiniteSet(s) /\ Cardinality(s) \in Nat /\ Cardinality(s) <= Cardinality(S)
  BY FS_Subset, FS_CardinalityType
<1>2. ASSUME NEW s \in SUBSET S, s # {}
      PROVE  /\ AnyResult(s) \in s /\ s \ {AnyResult(s)} \in SUBSET S
             /\ Cardinality(s \ {AnyResult(s)}) = Cardinality(s) - 1
  <2>1. AnyResult(s) \in s
    BY <1>2 DEF AnyResult
  <2> QED
    BY <1>1, <2>1, FS_RemoveElement
<1> QED
  BY <1>1, <1>2

\* There are such sums: of one result, of two, and so on.
Few(S, k) == {s \in SUBSET S : Cardinality(s) <= k}
SumsOfFew(S, g, k) ==
    /\ g \in [Few(S, k) -> Int]
    /\ \A s \in Few(S, k) : g[s] = SumStep(g, s)

LEMMA SumsGrow ==
    ASSUME NEW S, IsFiniteSet(S), \A r \in S : r.latency \in Int,
           NEW k \in Nat, NEW g, SumsOfFew(S, g, k)
    PROVE  \E h : SumsOfFew(S, h, k + 1)
<1> DEFINE h == [s \in Few(S, k + 1) |-> SumStep(g, s)]
<1>1. ASSUME NEW s \in Few(S, k + 1), s # {}
      PROVE  /\ AnyResult(s).latency \in Int
             /\ s \ {AnyResult(s)} \in Few(S, k) /\ s \ {AnyResult(s)} \in Few(S, k + 1)
  <2> DEFINE t == s \ {AnyResult(s)}
  <2>1. /\ AnyResult(s) \in S /\ Cardinality(s) \in Nat /\ Cardinality(s) <= k + 1
        /\ t \in SUBSET S /\ Cardinality(t) = Cardinality(s) - 1
    BY <1>1, ResultsOf DEF Few
  <2> HIDE DEF t
  <2>2. Cardinality(t) <= k /\ Cardinality(t) <= k + 1
    BY <2>1
  <2>3. t \in Few(S, k) /\ t \in Few(S, k + 1) /\ AnyResult(s).latency \in Int
    BY <2>1, <2>2 DEF Few
  <2> QED
    BY <2>3 DEF t
<1>2. \A s \in Few(S, k) : s \in Few(S, k + 1) /\ h[s] = g[s]
  <2>1. ASSUME NEW s \in Few(S, k) PROVE s \in Few(S, k + 1)
    BY ResultsOf DEF Few
  <2> QED
    BY <2>1 DEF SumsOfFew
<1>3. ASSUME NEW s \in Few(S, k + 1) PROVE h[s] \in Int /\ h[s] = SumStep(h, s)
  <2>1. h[s] = SumStep(g, s)
    OBVIOUS
  <2>2. CASE s = {}
    BY <2>1, <2>2 DEF SumStep
  <2>3. CASE s # {}
    <3>1. h[s \ {AnyResult(s)}] = g[s \ {AnyResult(s)}] /\ g[s \ {AnyResult(s)}] \in Int
      BY <1>1, <1>2, <2>3 DEF SumsOfFew
    <3> DEFINE x == AnyResult(s).latency
               y == g[s \ {AnyResult(s)}]
    <3>2. SumStep(g, s) = x + y /\ SumStep(h, s) = x + h[s \ {AnyResult(s)}]
      BY <2>3 DEF SumStep
    <3>3. x \in Int /\ y \in Int /\ h[s \ {AnyResult(s)}] = y
      BY <1>1, <2>3, <3>1
    <3> HIDE DEF h, x, y
    <3> QED
      BY <2>1, <3>2, <3>3
  <2> QED
    BY <2>2, <2>3
<1>4. h = [s \in Few(S, k + 1) |-> h[s]]
  OBVIOUS
<1> HIDE DEF h
<1>5. h \in [Few(S, k + 1) -> Int]
  BY <1>3, <1>4
<1> QED
  BY <1>3, <1>5 DEF SumsOfFew

\* Were there a number of results for which it fails, there would be a least one.
LEMMA SumsExist ==
    ASSUME NEW S, IsFiniteSet(S), \A r \in S : r.latency \in Int, NEW k \in Nat
    PROVE  \E g : SumsOfFew(S, g, k)
<1> DEFINE C == {j \in Nat : ~\E g : SumsOfFew(S, g, j)}
<1> SUFFICES ASSUME C # {} PROVE FALSE
  BY DEF C
<1>1. PICK m \in C : \A j \in C : m <= j
  BY LeastNatural
<1>2. m # 0
  <2> DEFINE g == [s \in Few(S, 0) |-> 0]
  <2>1. ASSUME NEW s \in Few(S, 0) PROVE s = {}
    <3>1. IsFiniteSet(s) /\ Cardinality(s) \in Nat /\ Cardinality(s) <= 0
      BY ResultsOf, FS_Subset DEF Few
    <3>2. Cardinality(s) = 0
      BY <3>1
    <3> QED
      BY <3>1, <3>2, FS_EmptySet
  <2>2. g \in [Few(S, 0) -> Int]
    OBVIOUS
  <2>3. \A s \in Few(S, 0) : g[s] = SumStep(g, s)
    BY <2>1 DEF SumStep
  <2> HIDE DEF g
  <2>4. SumsOfFew(S, g, 0)
    BY <2>2, <2>3 DEF SumsOfFew
  <2> QED
    BY <2>4
<1>3. m - 1 \in Nat /\ (m - 1) + 1 = m /\ ~(m <= m - 1)
  BY <1>2
<1>4. PICK g : SumsOfFew(S, g, m - 1)
  BY <1>1, <1>3
<1>5. \E h : SumsOfFew(S, h, m)
  BY <1>3, <1>4, SumsGrow
<1> QED
  BY <1>5

\* Latencies within a limit sum up to no more than the limit for each.
LEMMA SumBounded ==
    ASSUME NEW S, IsFiniteSet(S),
           \A r \in S : r.latency \in Int /\ r.latency <= LoopbackMax
    PROVE  LatencySum(S) \in Int /\ LatencySum(S) <= LoopbackMax * Cardinality(S)
<1> DEFINE P == Sums(S)
           n == Cardinality(S)
<1>1. \E g : g = [s \in SUBSET S |-> SumStep(g, s)]
  <2>1. n \in Nat
    BY FS_CardinalityType
  <2>2. PICK g : SumsOfFew(S, g, n)
    BY <2>1, SumsExist
  <2>3. Few(S, n) = SUBSET S
    BY ResultsOf DEF Few
  <2>4. g = [s \in Few(S, n) |-> g[s]]
    BY <2>2 DEF SumsOfFew
  <2> QED
    BY <2>2, <2>3, <2>4 DEF SumsOfFew
<1>2. P = [s \in SUBSET S |-> SumStep(P, s)]
  BY <1>1 DEF Sums
<1> HIDE DEF P
<1>3. \A s \in SUBSET S : P[s] = SumStep(P, s)
  BY <1>2
<1>4. \A s \in SUBSET S : P[s] \in Int /\ P[s] <= LoopbackMax * Cardinality(s)
  <2> DEFINE C == {s \in SUBSET S : ~(P[s] \in Int /\ P[s] <= LoopbackMax * Cardinality(s))}
             N == {Cardinality(s) : s \in C}
  <2> SUFFICES ASSUME C # {} PROVE FALSE
    OBVIOUS
  <2>1. N \in SUBSET Nat /\ N # {}
    BY ResultsOf
  <2>2. PICK m \in N : \A j \in N : m <= j
    BY <2>1, LeastNatural
  <2>3. PICK s \in C : Cardinality(s) = m
    BY <2>2
  <2>4. s # {}
    <3>1. SUFFICES ASSUME s = {} PROVE FALSE
      OBVIOUS
    <3>2. P[s] = 0 /\ Cardinality(s) = 0
      BY <1>3, <2>3, <3>1, FS_EmptySet DEF SumStep
    <3> QED
      BY <2>3, <3>2 DEF LoopbackMax
  <2> DEFINE t == s \ {AnyResult(s)}
             x == AnyResult(s).latency
  <2>5. /\ Cardinality(s) \in Nat /\ t \in SUBSET S /\ Cardinality(t) = Cardinality(s) - 1
        /\ AnyResult(s) \in S
    BY <2>3, <2>4, ResultsOf
  <2>6. P[s] = x + P[t] /\ x \in Int /\ x <= LoopbackMax
    BY <1>3, <2>3, <2>4, <2>5 DEF SumStep
  <2> HIDE DEF t, x
  <2>7. t \notin C
    <3>1. SUFFICES ASSUME t \in C PROVE FALSE
      OBVIOUS
    <3>2. m <= Cardinality(t)
      BY <2>2, <3>1
    <3> QED
      BY <2>3, <2>5, <3>2
  <2>8. P[t] \in Int /\ P[t] <= LoopbackMax * Cardinality(t)
    BY <2>5, <2>7
  <2>9. P[s] \in Int /\ P[s] <= LoopbackMax * Cardinality(s)
    BY <2>5, <2>6, <2>8 DEF LoopbackMax
  <2> QED
    BY <2>3, <2>9
<1> QED
  BY <1>4, LatencySumIs DEF P

\* Neither the mean of latencies within the limit nor the two defaults exceed both bounds.
LEMMA LoopbackLatencyBounded ==
    ASSUME NEW loopback, IsFiniteSet(loopback),
           \A r \in loopback : r.latency \in Int /\ LoopbackPassed(r),
           NEW p \in Nat
    PROVE  /\ LoopbackLatency(loopback, p) \in Int
           /\ LoopbackLatency(loopback, p)
                 <= IF p \in Copper THEN 0 ELSE Later(LoopbackMax, DefaultSwitch)
<1> DEFINE mine == {r \in loopback : r.valid /\ r.tx = p}
<1>1. CASE p \in Copper
  BY <1>1 DEF LoopbackLatency
<1>2. CASE p \notin Copper /\ mine = {}
  BY <1>2 DEF LoopbackLatency, Later, DefaultSwitch, LoopbackMax
<1>3. CASE p \notin Copper /\ mine # {}
  <2>1. IsFiniteSet(mine) /\ Cardinality(mine) \in Nat /\ Cardinality(mine) # 0
    BY <1>3, FS_Subset, FS_CardinalityType, FS_EmptySet
  <2>2. LatencySum(mine) \in Int /\ LatencySum(mine) <= LoopbackMax * Cardinality(mine)
    BY <2>1, SumBounded DEF LoopbackPassed
  <2>3. LoopbackLatency(loopback, p) = LatencySum(mine) \div Cardinality(mine)
    BY <1>3 DEF LoopbackLatency, LatencySum
  <2> DEFINE a == LatencySum(mine)
             n == Cardinality(mine)
  <2> HIDE DEF mine, a, n
  <2>4. a \in Int /\ n \in Nat /\ n # 0 /\ a <= 30 * n
    BY <2>1, <2>2 DEF a, n, LoopbackMax
  <2>5. a \div n \in Int /\ a \div n <= 30
    BY <2>4
  <2> QED
    BY <1>3, <2>3, <2>5 DEF a, n, Later, DefaultSwitch, LoopbackMax
<1> QED
  BY <1>1, <1>2, <1>3

-----------------------------------------------------------------------------
(* All measurements of a test.                                             *)

PairSet == (Port \X Port) \cup CopperPairs
EntrySet == [tx : Nat, rx : Nat, vlan : Int, valid : BOOLEAN, latency : Int, actual : Int]

\* The files are those of the units, and the results are finitely many entries.
TestOK ==
    /\ sw.file \in File /\ sw.loaded \in File
    /\ test = [pairs |-> test.pairs, lanes |-> test.lanes, ch |-> test.ch, odd |-> test.odd,
               loopback |-> test.loopback, unit |-> test.unit, passed |-> test.passed]
    /\ test.loopback \in SUBSET EntrySet /\ IsFiniteSet(test.loopback)
    /\ test.unit \in SUBSET EntrySet

\* The VLANs of the pair that have been measured through its sockets.
Measured == {VlanOn(Pair, l) : l \in LanesOf(Pair) \ test.lanes}
PairsInv ==
    /\ ~Measuring => test.pairs = {}
    /\ stage = "loopback" => test.pairs \subseteq LoopbackTodo
    /\ stage = "unit" => test.pairs \subseteq UnitTodo
    /\ test.pairs = {} => test.ch = FreshChannel
    /\ test.pairs # {} => test.lanes \subseteq LanesOf(Pair) /\ ChannelInv(test.ch, Measured)

\* A frame that comes home at the other port of its pair comes home nowhere else.
HomeAlone(s, p, v) ==
    \E w \in RxVlans("dtn", FALSE, Paired(p)) : Home(s, "dtn", "unit", p, v) = {<<Paired(p), w>>}
ComesHome(r) == r.tx \in Copper \/ HomeAlone(sw, r.tx, r.vlan)
AllPassed ==
    /\ \A r \in test.loopback : LoopbackPassed(r)
    /\ \A r \in test.unit : UnitPassed(r, test.loopback)
ResultInv ==
    /\ \A r \in test.loopback \cup test.unit : r.valid => r.actual <= r.latency
    /\ stage \notin {"unit", "traffic", "idle"} => test.unit = {}
    /\ stage \notin {"traffic", "idle"} => test.passed = "none"
    /\ stage \in {"unit", "traffic"} => \A r \in test.unit : r.valid => ComesHome(r)
    /\ stage = "traffic" /\ test.passed = "passed" => AllPassed

MeasureInv == TestOK /\ PairsInv /\ ResultInv

\* The loop-back test and the test of the unit take their pairs from the tables.
LEMMA TodoIs ==
    /\ LoopbackTodo \subseteq Port \X Port
    /\ UnitTodo \subseteq PairSet
    /\ \A p \in UnitTodo : p[1] \in Copper \/ (p[1] \in Port /\ p[2] = Paired(p[1]))
    /\ \A p \in PairSet : p[1] \in Nat /\ p[2] \in Nat /\ (p[1] \in Copper \/ p[1] \in Port)
<1>1. \A p \in Port : 7 - p \in Port /\ Paired(p) \in Port
  BY DEF Port, Paired
<1>2. LoopbackTodo \subseteq Port \X Port
  BY <1>1 DEF LoopbackTodo, LoopbackPairs, Covered
<1>3. \A p \in UnitTodo :
         p \in CopperPairs \/ (p[1] \in Port /\ p \in Port \X Port /\ p[2] = Paired(p[1]))
  BY <1>1 DEF UnitTodo, UnitPairs, Covered
<1>4. \A p \in CopperPairs : p[1] \in Copper /\ p[1] \in Nat /\ p[2] \in Nat
  BY DEF CopperPairs, Copper
<1>5. \A p \in Port \X Port : p[1] \in Nat /\ p[2] \in Nat /\ p[1] \in Port
  BY DEF Port
<1> QED
  BY <1>2, <1>3, <1>4, <1>5 DEF PairSet

\* The pair whose turn it is is one of those that are left.
LEMMA EarliestIs ==
    ASSUME NEW pairs \in SUBSET PairSet, pairs # {}
    PROVE  Earliest(pairs) \in pairs
<1> DEFINE senders == {p[1] : p \in pairs}
<1>1. senders \in SUBSET Nat /\ senders # {}
  BY TodoIs
<1>2. PICK m \in senders : \A k \in senders : m <= k
  BY <1>1, LeastNatural
<1>3. \E p \in pairs : \A q \in pairs : p[1] <= q[1]
  BY <1>2
<1> QED
  BY <1>3 DEF Earliest

\* The sockets of a pair are new.
LEMMA FreshIs == ASSUME NEW done PROVE ChannelInv(FreshChannel, done)
<1>1. <<>> \in Seq(Int \X Int) /\ Len(<<>>) = 0
  OBVIOUS
<1>2. FreshChannel \in ChannelSet
  BY <1>1 DEF FreshChannel, ChannelSet
<1> QED
  BY <1>1, <1>2 DEF FreshChannel, ChannelInv, SoundChannel

\* What a packet can meet: to come home it must be wired.
LEMMA FatesAre ==
    ASSUME NEW pair, NEW vlan, NEW c \in Fates(pair, vlan)
    PROVE  /\ c.stamp \in Time /\ c.lat \in Time
           /\ c.lat # Never =>
                \/ pair[1] \in Copper
                \/ \E w \in 225..256 : <<pair[2], w>> \in Home(sw, tested, bench, pair[1], vlan)
<1> DEFINE lat == IF stage = "loopback" THEN LoopLatency ELSE UnitLatency
           home == \/ pair[1] \in Copper /\ bench = "unit"
                   \/ /\ pair[1] \notin Copper
                      /\ \E w \in 225..256 :
                             <<pair[2], w>> \in Home(sw, tested, bench, pair[1], vlan)
           stamps == {<<0, 0>>, <<LateBy, 1>>, <<Never, 1>>}
           arrivals == IF home THEN (lat \X {0}) \cup {<<LateBy, 1>>, <<Never, 1>>}
                               ELSE {<<Never, 0>>}
<1>1. PICK f \in stamps \X arrivals :
         c = [stamp |-> f[1][1], lat |-> f[2][1], odd |-> f[1][2] + f[2][2]]
  BY DEF Fates
<1>2. LateBy \in Nat /\ lat \subseteq Nat
  BY CommissionAssumption
<1>3. f[1][1] \in Time
  BY <1>1, <1>2 DEF Time
<1>4. f[2] \in arrivals
  BY <1>1
<1> HIDE DEF lat, stamps
<1>5. f[2][1] \in Time
  <2>1. \/ f[2] \in lat \X {0}
        \/ f[2] = <<LateBy, 1>> \/ f[2] = <<Never, 1>> \/ f[2] = <<Never, 0>>
    BY <1>4
  <2>2. f[2][1] \in lat \/ f[2][1] = LateBy \/ f[2][1] = Never
    BY <2>1
  <2> QED
    BY <1>2, <2>2 DEF Time
<1>6. home \/ f[2][1] = Never
  BY <1>4
<1> QED
  BY <1>1, <1>3, <1>5, <1>6

\* Whatever file is in force, a PVID belongs to one server port at most.
LEMMA OnePort ==
    ASSUME NEW f \in File, NEW w \in 225..256, NEW p \in Port, NEW q \in Port,
           w \in FileVids(f, p), w \in FileVids(f, q)
    PROVE  p = q
<1>1. CASE f = "dtn"
  BY <1>1, VidsOfDtn DEF Port
<1>2. CASE f = "ate"
  BY <1>2, VidsOfAte DEF Port
<1>3. CASE f = "vmc"
  BY <1>3, VidsOfVmc DEF Port
<1>4. CASE f = "cmc"
  BY <1>4 DEF FileVids
<1> QED
  BY <1>1, <1>2, <1>3, <1>4 DEF File, Unit

\* A frame of a unit pair that comes home at the other port comes home there alone, and with
\* a VLAN that the traffic will expect.
LEMMA ComesAlone ==
    ASSUME NEW s, s.loaded \in File, NEW p \in Port, NEW l \in 0..3,
           NEW v, v = DtnTx[p + 1] + l, NEW w0,
           <<Paired(p), w0>> \in Home(s, "dtn", "unit", p, v)
    PROVE  HomeAlone(s, p, v)
<1> DEFINE w == PvidOf(Crossed("dtn", "unit", v - 97))
           q == Paired(p)
           home == Home(s, "dtn", "unit", p, v)
<1>1. \/ p = 0 /\ v \in 105..108 /\ q = 1 /\ w \in 249..252
      \/ p = 1 /\ v \in 109..112 /\ q = 0 /\ w \in 253..256
      \/ p = 2 /\ v \in 97..100 /\ q = 3 /\ w \in 241..244
      \/ p = 3 /\ v \in 101..104 /\ q = 2 /\ w \in 245..248
      \/ p = 4 /\ v \in 113..116 /\ q = 5 /\ w \in 225..228
      \/ p = 5 /\ v \in 117..120 /\ q = 4 /\ w \in 229..232
      \/ p = 6 /\ v \in 121..124 /\ q = 7 /\ w \in 233..236
      \/ p = 7 /\ v \in 125..128 /\ q = 6 /\ w \in 237..240
  BY DEF DtnTx, Paired, PvidOf, Crossed, Port
<1>2. w \in RxVlans("dtn", FALSE, q) /\ w \in 225..256
  BY <1>1 DEF RxVlans, Block, DtnRx
<1>3. home = {<<r, w>> : r \in {r \in Port : w \in FileVids(s.loaded, r)}}
  BY DEF Home
<1> HIDE DEF home, q, w
<1>4. q \in Port /\ w \in FileVids(s.loaded, q)
  BY <1>3 DEF home, q
<1>5. {r \in Port : w \in FileVids(s.loaded, r)} = {q}
  BY <1>2, <1>4, OnePort
<1>6. home = {<<q, w>>}
  BY <1>3, <1>5
<1> QED
  BY <1>2, <1>6 DEF home, q, HomeAlone

-----------------------------------------------------------------------------
(* Its steps.                                                              *)

\* A stage that does not measure takes over what the one before found, or ends the test.
LEMMA ResultsStay ==
    ASSUME MeasureInv, test' = test, test.pairs = {}, stage' \notin {"loopback", "unit"},
           stage' = "idle" \/ stage \notin {"unit", "traffic", "idle"},
           sw'.file \in File, sw'.loaded \in File
    PROVE  MeasureInv'
<1>1. TestOK'
  BY DEF MeasureInv, TestOK
<1>2. PairsInv'
  BY DEF MeasureInv, PairsInv, Measuring
<1>3. ResultInv'
  <2>1. CASE stage' = "idle"
    BY <2>1 DEF MeasureInv, ResultInv
  <2>2. CASE stage \notin {"unit", "traffic", "idle"}
    BY <2>2 DEF MeasureInv, ResultInv
  <2> QED
    BY <2>1, <2>2
<1> QED
  BY <1>1, <1>2, <1>3 DEF MeasureInv

\* The next pair has new sockets, and all its VLANs are still to be measured.
LEMMA NextPairKeeps ==
    ASSUME MeasureInv, Measuring, test.pairs # {}, test' = NextPair,
           UNCHANGED <<sw, stage>>
    PROVE  MeasureInv'
<1> DEFINE left == test.pairs \ {Pair}
<1>1. test' = [pairs |-> left, lanes |-> FirstLanes(left), ch |-> FreshChannel,
               odd |-> test.odd, loopback |-> test.loopback, unit |-> test.unit,
               passed |-> test.passed]
  <2>1. test' = [test EXCEPT !.pairs = left, !.ch = FreshChannel, !.lanes = FirstLanes(left)]
    BY DEF NextPair
  <2> HIDE DEF left
  <2>2. DOMAIN test' = {"pairs", "lanes", "ch", "odd", "loopback", "unit", "passed"}
    BY <2>1 DEF MeasureInv, TestOK
  <2>3. /\ test'.pairs = left /\ test'.lanes = FirstLanes(left) /\ test'.ch = FreshChannel
        /\ test'.odd = test.odd /\ test'.loopback = test.loopback /\ test'.unit = test.unit
        /\ test'.passed = test.passed
    BY <2>1 DEF MeasureInv, TestOK
  <2>4. test' = [i \in DOMAIN test' |-> test'[i]]
    BY <2>1
  <2> QED
    BY <2>2, <2>3, <2>4
<1> HIDE DEF left
<1>2. /\ test'.pairs = left /\ test'.lanes = FirstLanes(left) /\ test'.ch = FreshChannel
      /\ test'.loopback = test.loopback /\ test'.unit = test.unit /\ test'.passed = test.passed
  BY <1>1
<1>3. TestOK'
  BY <1>1 DEF MeasureInv, TestOK
<1>4. PairsInv'
  <2>1. test.pairs \in SUBSET PairSet /\ left \subseteq test.pairs
    BY TodoIs DEF MeasureInv, PairsInv, Measuring, left, PairSet
  <2>2. left # {} => test'.lanes = LanesOf(Pair')
    BY <1>2 DEF FirstLanes, Pair
  <2>3. ChannelInv(FreshChannel, Measured')
    BY FreshIs
  <2> QED
    BY <1>2, <2>1, <2>2, <2>3 DEF MeasureInv, PairsInv, Measuring
<1>5. ResultInv'
  BY <1>2 DEF MeasureInv, ResultInv, AllPassed, ComesHome
<1> QED
  BY <1>3, <1>4, <1>5 DEF MeasureInv

\* The lanes are numbers.
LEMMA LanesAre == ASSUME NEW pair, NEW l \in LanesOf(pair) PROVE l \in Nat
<1>1. \A k \in Lanes : k \in Nat
  BY CommissionAssumption
<1> QED
  BY <1>1 DEF LanesOf

\* The VLANs of a pair differ ...
LEMMA VlansDiffer ==
    ASSUME NEW pair \in PairSet, NEW l \in LanesOf(pair), NEW k \in LanesOf(pair), l # k
    PROVE  VlanOn(pair, l) # VlanOn(pair, k)
<1>1. pair[1] \notin Copper /\ pair[1] \in Port
  BY TodoIs DEF LanesOf
<1>2. DtnTx[pair[1] + 1] \in Int
  BY <1>1 DEF DtnTx, Port
<1>3. l \in Int /\ k \in Int
  BY <1>1, CommissionAssumption DEF LanesOf
<1> QED
  BY <1>1, <1>2, <1>3 DEF VlanOn

\* ... and are those of the table.
LEMMA VlanIs ==
    ASSUME NEW pair \in PairSet, NEW l \in LanesOf(pair)
    PROVE  /\ VlanOn(pair, l) \in Int
           /\ pair[1] \notin Copper =>
                pair[1] \in Port /\ l \in 0..3 /\ VlanOn(pair, l) = DtnTx[pair[1] + 1] + l
<1>1. CASE pair[1] \in Copper
  BY <1>1 DEF VlanOn
<1>2. CASE pair[1] \notin Copper
  <2>1. pair[1] \in Port /\ l \in 0..3
    BY <1>2, TodoIs, CommissionAssumption DEF LanesOf
  <2>2. DtnTx[pair[1] + 1] \in Int
    BY <2>1 DEF DtnTx, Port
  <2> QED
    BY <1>2, <2>1, <2>2 DEF VlanOn
<1> QED
  BY <1>1, <1>2

\* A measurement adds a result to those of its stage.
LEMMA SingleTestKeeps == ASSUME MeasureInv, WireInv, RunSingleTest PROVE MeasureInv'
<1> DEFINE lane == CHOOSE l \in test.lanes : \A k \in test.lanes : l <= k
           vlan == VlanOn(Pair, lane)
<1>0. PICK choices \in Fates(Pair, vlan) \X Fates(Pair, vlan) \X Fates(Pair, vlan) :
         LET r == SingleTest(test.ch, vlan, choices)
             entry == [tx |-> Pair[1], rx |-> Pair[2], vlan |-> vlan, valid |-> r.valid,
                       latency |-> r.latency, actual |-> r.actual]
             kind == IF stage = "loopback" THEN "loopback" ELSE "unit"
         IN  test' = [test EXCEPT ![kind] = @ \cup {entry}, !.lanes = @ \ {lane},
                                  !.ch = r.ch,
                                  !.odd = test.odd + choices[1].odd + choices[2].odd
                                              + choices[3].odd]
  BY DEF RunSingleTest
<1> DEFINE r == SingleTest(test.ch, vlan, choices)
           entry == [tx |-> Pair[1], rx |-> Pair[2], vlan |-> vlan, valid |-> r.valid,
                     latency |-> r.latency, actual |-> r.actual]
           odd == test.odd + choices[1].odd + choices[2].odd + choices[3].odd
           a == choices[1]
           b == choices[2]
           c == choices[3]
           loopback == IF stage = "loopback" THEN test.loopback \cup {entry} ELSE test.loopback
           unit_ == IF stage = "loopback" THEN test.unit ELSE test.unit \cup {entry}
<1>1. /\ Measuring /\ test.pairs # {} /\ test.lanes # {}
      /\ UNCHANGED <<sw, bench, tested, stage>>
  BY DEF RunSingleTest
<1>2. test.pairs \in SUBSET PairSet /\ Pair \in test.pairs /\ Pair \in PairSet
  <2>1. test.pairs \in SUBSET PairSet
    BY <1>1, TodoIs DEF MeasureInv, PairsInv, Measuring, PairSet
  <2> QED
    BY <1>1, <2>1, EarliestIs DEF Pair
<1>3. lane \in test.lanes /\ lane \in LanesOf(Pair)
  <2>1. test.lanes \subseteq LanesOf(Pair)
    BY <1>1 DEF MeasureInv, PairsInv
  <2>2. test.lanes \in SUBSET Nat
    BY <2>1, LanesAre
  <2>3. \E l \in test.lanes : \A k \in test.lanes : l <= k
    BY <1>1, <2>2, LeastNatural
  <2> QED
    BY <2>1, <2>3
<1> HIDE DEF lane
<1>4. vlan \in Int /\ vlan \notin Measured /\ ChannelInv(test.ch, Measured)
  <2>1. ASSUME NEW k \in LanesOf(Pair) \ test.lanes PROVE vlan # VlanOn(Pair, k)
    BY <1>2, <1>3, VlansDiffer
  <2> QED
    BY <1>1, <1>2, <1>3, <2>1, VlanIs DEF Measured, MeasureInv, PairsInv
<1> HIDE DEF vlan
<1>5. /\ a \in Fates(Pair, vlan) /\ b \in Fates(Pair, vlan) /\ c \in Fates(Pair, vlan)
      /\ choices = <<a, b, c>>
  OBVIOUS
<1>6. /\ ChannelInv(r.ch, Measured \cup {vlan})
      /\ r.valid \in BOOLEAN /\ r.latency \in Int /\ r.actual \in Int
      /\ r.valid => c.lat # Never /\ r.latency >= r.actual
  <2>1. r = SingleTest(test.ch, vlan, <<a, b, c>>)
    BY <1>5
  <2> HIDE DEF r, a, b, c, entry, odd, loopback, unit_
  <2>2. /\ a.stamp \in Time /\ a.lat \in Time /\ b.stamp \in Time /\ b.lat \in Time
        /\ c.stamp \in Time /\ c.lat \in Time
    <3>1. \A o \in Fates(Pair, vlan) : o.stamp \in Time /\ o.lat \in Time
      BY FatesAre
    <3> QED
      BY <1>5, <3>1
  <2>3. ChannelInv(r.ch, Measured \cup {vlan})
    BY <1>4, <2>1, <2>2, SingleTestIs
  <2>4. r.valid \in BOOLEAN /\ r.latency \in Int /\ r.actual \in Int
    BY <1>4, <2>1, <2>2, SingleTestIs
  <2>5. Genuine(r, c.lat)
    BY <1>4, <2>1, <2>2, SingleTestIs
  <2> QED
    BY <2>3, <2>4, <2>5 DEF Genuine
<1>7. test' = [pairs |-> test.pairs, lanes |-> test.lanes \ {lane}, ch |-> r.ch, odd |-> odd,
               loopback |-> loopback, unit |-> unit_, passed |-> test.passed]
  <2> DEFINE kind == IF stage = "loopback" THEN "loopback" ELSE "unit"
  <2>1. test' = [test EXCEPT ![kind] = @ \cup {entry}, !.lanes = @ \ {lane}, !.ch = r.ch,
                             !.odd = odd]
    BY <1>0 DEF vlan, lane
  <2> HIDE DEF entry, r, odd
  <2>2. CASE stage = "loopback"
    <3>1. test' = [test EXCEPT !.loopback = @ \cup {entry}, !.lanes = @ \ {lane}, !.ch = r.ch,
                               !.odd = odd]
      BY <2>1, <2>2
    <3> HIDE DEF kind
    <3>2. DOMAIN test' = {"pairs", "lanes", "ch", "odd", "loopback", "unit", "passed"}
      BY <3>1 DEF MeasureInv, TestOK
    <3>3. /\ test'.pairs = test.pairs /\ test'.lanes = test.lanes \ {lane} /\ test'.ch = r.ch
          /\ test'.odd = odd /\ test'.loopback = test.loopback \cup {entry}
          /\ test'.unit = test.unit /\ test'.passed = test.passed
      BY <3>1 DEF MeasureInv, TestOK
    <3>4. test' = [i \in DOMAIN test' |-> test'[i]]
      BY <3>1
    <3> QED
      BY <2>2, <3>2, <3>3, <3>4
  <2>3. CASE stage # "loopback"
    <3>1. test' = [test EXCEPT !.unit = @ \cup {entry}, !.lanes = @ \ {lane}, !.ch = r.ch,
                               !.odd = odd]
      BY <2>1, <2>3
    <3> HIDE DEF kind
    <3>2. DOMAIN test' = {"pairs", "lanes", "ch", "odd", "loopback", "unit", "passed"}
      BY <3>1 DEF MeasureInv, TestOK
    <3>3. /\ test'.pairs = test.pairs /\ test'.lanes = test.lanes \ {lane} /\ test'.ch = r.ch
          /\ test'.odd = odd /\ test'.loopback = test.loopback
          /\ test'.unit = test.unit \cup {entry} /\ test'.passed = test.passed
      BY <3>1 DEF MeasureInv, TestOK
    <3>4. test' = [i \in DOMAIN test' |-> test'[i]]
      BY <3>1
    <3> QED
      BY <2>3, <3>2, <3>3, <3>4
  <2> QED
    BY <2>2, <2>3
<1> HIDE DEF r
<1>8. /\ entry \in EntrySet /\ (entry.valid => entry.actual <= entry.latency)
      /\ entry.tx = Pair[1] /\ entry.vlan = vlan /\ entry.valid = r.valid
  <2>1. Pair[1] \in Nat /\ Pair[2] \in Nat
    BY <1>2, TodoIs
  <2>2. entry \in EntrySet
    BY <1>4, <1>6, <2>1 DEF EntrySet
  <2>3. entry.valid => entry.actual <= entry.latency
    BY <1>6
  <2> QED
    BY <2>2, <2>3
<1>9. stage = "unit" => (entry.valid => ComesHome(entry))
  <2> SUFFICES ASSUME stage = "unit", entry.valid, Pair[1] \notin Copper PROVE ComesHome(entry)
    BY <1>8 DEF ComesHome
  <2>1. PICK w \in 225..256 : <<Pair[2], w>> \in Home(sw, tested, bench, Pair[1], vlan)
    <3>1. c \in Fates(Pair, vlan) /\ c.lat # Never
      BY <1>5, <1>6, <1>8
    <3> HIDE DEF c
    <3> QED
      BY <3>1, FatesAre
  <2>2. tested = "dtn" /\ bench = "unit"
    BY DEF WireInv, AskedInv
  <2>3. Pair[1] \in Port /\ Pair[2] = Paired(Pair[1])
    BY <1>2, TodoIs DEF MeasureInv, PairsInv
  <2>4. lane \in 0..3 /\ vlan = DtnTx[Pair[1] + 1] + lane
    BY <1>2, <1>3, VlanIs DEF vlan
  <2>5. <<Paired(Pair[1]), w>> \in Home(sw, "dtn", "unit", Pair[1], vlan)
    BY <2>1, <2>2, <2>3, <2>4
  <2>6. sw.loaded \in File
    BY DEF MeasureInv, TestOK
  <2>7. HomeAlone(sw, Pair[1], vlan)
    BY <2>3, <2>4, <2>5, <2>6, ComesAlone
  <2> HIDE DEF entry
  <2> QED
    BY <1>8, <2>7 DEF ComesHome
<1> HIDE DEF entry, odd, loopback, unit_
<1>10. /\ test'.pairs = test.pairs /\ test'.lanes = test.lanes \ {lane} /\ test'.ch = r.ch
       /\ test'.loopback = loopback /\ test'.unit = unit_ /\ test'.passed = test.passed
  BY <1>7
<1>11. TestOK'
  <2>1. loopback \in SUBSET EntrySet /\ IsFiniteSet(loopback) /\ unit_ \in SUBSET EntrySet
    BY <1>8, FS_AddElement DEF MeasureInv, TestOK, loopback, unit_
  <2>2. sw'.file \in File /\ sw'.loaded \in File
    BY <1>1 DEF MeasureInv, TestOK
  <2>3. test' = [pairs |-> test'.pairs, lanes |-> test'.lanes, ch |-> test'.ch,
                 odd |-> test'.odd, loopback |-> test'.loopback, unit |-> test'.unit,
                 passed |-> test'.passed]
    BY <1>7
  <2> QED
    BY <1>10, <2>1, <2>2, <2>3 DEF TestOK
<1>12. PairsInv'
  <2>1. Pair' = Pair
    BY <1>10 DEF Pair
  <2>2. Measured' = Measured \cup {vlan}
    <3>1. LanesOf(Pair) \ (test.lanes \ {lane}) = (LanesOf(Pair) \ test.lanes) \cup {lane}
      BY <1>3
    <3>2. Measured' = {VlanOn(Pair, l) : l \in LanesOf(Pair) \ (test.lanes \ {lane})}
      BY <1>10, <2>1 DEF Measured
    <3> QED
      BY <3>1, <3>2 DEF Measured, vlan
  <2>3. test'.lanes \subseteq LanesOf(Pair') /\ ChannelInv(test'.ch, Measured')
    BY <1>1, <1>6, <1>10, <2>1, <2>2 DEF MeasureInv, PairsInv
  <2> QED
    BY <1>1, <1>10, <2>3 DEF MeasureInv, PairsInv, Measuring
<1>13. ResultInv'
  <2>1. CASE stage = "loopback"
    <3>1. loopback = test.loopback \cup {entry} /\ unit_ = test.unit
      BY <2>1 DEF loopback, unit_
    <3> QED
      BY <1>1, <1>8, <1>10, <2>1, <3>1 DEF MeasureInv, ResultInv
  <2>2. CASE stage = "unit"
    <3>1. loopback = test.loopback /\ unit_ = test.unit \cup {entry}
      BY <2>2 DEF loopback, unit_
    <3>2. \A e \in loopback \cup unit_ : e.valid => e.actual <= e.latency
      BY <1>8, <3>1 DEF MeasureInv, ResultInv
    <3>3. \A e \in unit_ : e.valid => ComesHome(e)'
      BY <1>1, <1>9, <2>2, <3>1 DEF MeasureInv, ResultInv, ComesHome
    <3> QED
      BY <1>1, <1>10, <2>2, <3>2, <3>3 DEF MeasureInv, ResultInv
  <2> QED
    BY <1>1, <2>1, <2>2 DEF Measuring
<1> QED
  BY <1>11, <1>12, <1>13 DEF MeasureInv

\* The verdict is of all results, and ends the measuring.
LEMMA VerdictKeeps ==
    ASSUME MeasureInv, test.pairs = {}, stage' = "traffic", UNCHANGED sw,
           test' = [test EXCEPT !.passed = Verdict(test.loopback, test.unit)],
           stage \in {"unit", "ateCables"}
    PROVE  MeasureInv'
<1> DEFINE passed == Verdict(test.loopback, test.unit)
<1>1. /\ test' = [pairs |-> test.pairs, lanes |-> test.lanes, ch |-> test.ch,
                  odd |-> test.odd, loopback |-> test.loopback, unit |-> test.unit,
                  passed |-> passed]
  <2> HIDE DEF passed
  <2> QED
    BY DEF MeasureInv, TestOK, passed
<1>2. passed = "passed" => AllPassed
  BY DEF Verdict, AllPassed
<1> HIDE DEF passed
<1>3. /\ test'.pairs = test.pairs /\ test'.ch = test.ch /\ test'.loopback = test.loopback
      /\ test'.unit = test.unit /\ test'.passed = passed
  BY <1>1
<1>4. TestOK'
  BY <1>1 DEF MeasureInv, TestOK
<1>5. PairsInv'
  BY <1>3 DEF MeasureInv, PairsInv, Measuring
<1>6. ResultInv'
  <2>1. \A e \in test.unit : e.valid => ComesHome(e)
    BY DEF MeasureInv, ResultInv
  <2>2. \A e \in test.unit : e.valid => ComesHome(e)'
    BY <2>1 DEF ComesHome
  <2>3. passed = "passed" => AllPassed'
    BY <1>2, <1>3 DEF AllPassed
  <2> QED
    BY <1>3, <2>2, <2>3 DEF MeasureInv, ResultInv
<1> QED
  BY <1>4, <1>5, <1>6 DEF MeasureInv

\* What the files in force may be.
FilesOK == sw.file \in File /\ sw.loaded \in File

\* The steps at the switch put a file of a unit in force, or that of the ATE mode.
LEMMA FilesStay ==
    ASSUME FilesOK, WireTypeOK, CommissionNext
    PROVE  FilesOK'
<1>1. CASE UNCHANGED sw
  BY <1>1 DEF FilesOK
<1>2. ASSUME NEW f \in File, NEW next, Deploy(f, next) PROVE FilesOK'
  <2> DEFINE copied == [sw EXCEPT !.file = f]
  <2>1. copied = [file |-> f, loaded |-> sw.loaded, added |-> sw.added]
    BY DEF WireTypeOK
  <2>2. Reloaded(copied) = [file |-> f, loaded |-> f, added |-> {}]
    BY <2>1 DEF Reloaded, NewSwitch
  <2>3. sw' = copied \/ sw' = Reloaded(copied)
    BY <1>2 DEF Deploy
  <2> HIDE DEF copied
  <2> QED
    BY <2>1, <2>2, <2>3 DEF FilesOK
<1>3. CASE SwitchRestarts
  BY <1>3 DEF SwitchRestarts, Reloaded, NewSwitch, FilesOK
<1>4. ASSUME NEW batch, NEW n, sw' = Prefix(sw, batch, n) PROVE FilesOK'
  <2> DEFINE added == sw.added \cup {batch[i] : i \in 1..n}
  <2>1. sw' = [sw EXCEPT !.added = added]
    BY <1>4 DEF Prefix
  <2> HIDE DEF added
  <2>2. sw'.file = sw.file /\ sw'.loaded = sw.loaded
    BY <2>1 DEF WireTypeOK
  <2> QED
    BY <2>2 DEF FilesOK
<1>5. CASE DeployNetworkInterfaces
  BY <1>2, <1>5 DEF DeployNetworkInterfaces, WireTypeOK, File
<1>6. CASE AteDeployInterfaces
  BY <1>2, <1>6 DEF AteDeployInterfaces, File
<1>7. CASE ConfigureApplies
  <2>1. sw' = sw \/ \E batch, n : sw' = Prefix(sw, batch, n)
    BY <1>7 DEF ConfigureApplies
  <2> QED
    BY <1>1, <1>4, <2>1
<1>8. CASE AteConfigureSequence
  <2>1. sw' = sw \/ \E batch, n : sw' = Prefix(sw, batch, n)
    BY <1>8 DEF AteConfigureSequence
  <2> QED
    BY <1>1, <1>4, <2>1
<1>9. ASSUME NEW u \in Unit, StartTest(u) PROVE UNCHANGED sw
  BY <1>9 DEF StartTest
<1>10. CASE DeployFails \/ ConfigureFails \/ ConfigureSkips \/ VmcModeSelection
            \/ CmcModeSelection \/ StartLoopback \/ SkipLoopback \/ StartUnitTest
            \/ AteConfigureFails \/ EnterAteMode \/ EndLoopback \/ EndUnitTest \/ EndTest
  BY <1>1, <1>10
     DEF DeployFails, ConfigureFails, ConfigureSkips, VmcModeSelection, CmcModeSelection,
         StartLoopback, SkipLoopback, StartUnitTest, AteConfigureFails, EnterAteMode,
         EndLoopback, EndUnitTest, EndTest, ModeChosen
<1>11. CASE SkipPair \/ RunSingleTest \/ ClosePair
  BY <1>1, <1>11 DEF SkipPair, RunSingleTest, ClosePair
<1> QED
  BY <1>1, <1>3, <1>5, <1>6, <1>7, <1>8, <1>9, <1>10, <1>11 DEF CommissionNext

\* A test begins with nothing measured ...
LEMMA StartKeeps ==
    ASSUME FilesOK', test' = NoTest, stage' = "deploy"
    PROVE  MeasureInv'
<1>1. TestOK'
  BY FS_EmptySet DEF TestOK, FilesOK, NoTest
<1>2. PairsInv'
  BY DEF PairsInv, NoTest, Measuring
<1>3. ResultInv'
  BY DEF ResultInv, NoTest
<1> QED
  BY <1>1, <1>2, <1>3 DEF MeasureInv

\* ... and so does each of the two measurements.
Begins(todo) == test' = [test EXCEPT !.pairs = todo, !.lanes = FirstLanes(todo)]
LEMMA TodoKeeps ==
    ASSUME MeasureInv, NEW todo, stage \in {"app", "mode"}, UNCHANGED sw, Begins(todo),
           \/ stage' = "loopback" /\ todo = LoopbackTodo
           \/ stage' = "unit" /\ todo = UnitTodo
    PROVE  MeasureInv'
<1> DEFINE lanes == FirstLanes(todo)
<1>1. test' = [pairs |-> todo, lanes |-> lanes, ch |-> test.ch, odd |-> test.odd,
               loopback |-> test.loopback, unit |-> test.unit, passed |-> test.passed]
  <2> HIDE DEF lanes
  <2>1. test' = [test EXCEPT !.pairs = todo, !.lanes = lanes]
    BY DEF lanes, Begins
  <2>2. DOMAIN test' = {"pairs", "lanes", "ch", "odd", "loopback", "unit", "passed"}
    BY <2>1 DEF MeasureInv, TestOK
  <2>3. /\ test'.pairs = todo /\ test'.lanes = lanes /\ test'.ch = test.ch
        /\ test'.odd = test.odd /\ test'.loopback = test.loopback /\ test'.unit = test.unit
        /\ test'.passed = test.passed
    BY <2>1 DEF MeasureInv, TestOK
  <2>4. test' = [i \in DOMAIN test' |-> test'[i]]
    BY <2>1
  <2> QED
    BY <2>2, <2>3, <2>4
<1>2. /\ test'.pairs = todo /\ test'.lanes = lanes /\ test'.ch = FreshChannel
      /\ test'.loopback = test.loopback /\ test'.unit = {} /\ test'.passed = "none"
      /\ test.unit = {}
  <2>1. test.ch = FreshChannel /\ test.unit = {} /\ test.passed = "none"
    BY DEF MeasureInv, PairsInv, ResultInv, Measuring
  <2> HIDE DEF lanes
  <2>2. /\ test'.pairs = todo /\ test'.lanes = lanes /\ test'.ch = test.ch
        /\ test'.loopback = test.loopback /\ test'.unit = test.unit
        /\ test'.passed = test.passed
    BY <1>1
  <2> QED
    BY <2>1, <2>2
<1>3. TestOK'
  BY <1>1 DEF MeasureInv, TestOK
<1>4. PairsInv'
  <2>1. todo # {} => test'.lanes = LanesOf(Pair')
    BY <1>2 DEF FirstLanes, Pair
  <2>2. ChannelInv(FreshChannel, Measured')
    BY FreshIs
  <2> QED
    BY <1>2, <2>1, <2>2 DEF PairsInv, Measuring
<1>5. ResultInv'
  BY <1>2 DEF MeasureInv, ResultInv
<1> QED
  BY <1>3, <1>4, <1>5 DEF MeasureInv

\* Before the first test there are no results ...
LEMMA MeasureInvInit == CommissionInit => MeasureInv
<1> SUFFICES ASSUME CommissionInit PROVE MeasureInv
  OBVIOUS
<1>1. sw.file \in File /\ sw.loaded \in File
  BY DEF CommissionInit, NewSwitch
<1>2. TestOK
  BY <1>1, FS_EmptySet DEF CommissionInit, TestOK, NoTest
<1>3. PairsInv
  BY DEF CommissionInit, PairsInv, NoTest, Measuring
<1>4. ResultInv
  BY DEF CommissionInit, ResultInv, NoTest
<1> QED
  BY <1>2, <1>3, <1>4 DEF MeasureInv

\* ... and every step keeps what is said of them.
LEMMA MeasureInvKept == MeasureInv /\ WireInv /\ [CommissionNext]_commissionVars => MeasureInv'
<1> SUFFICES ASSUME MeasureInv, WireInv, [CommissionNext]_commissionVars PROVE MeasureInv'
  OBVIOUS
<1>1. CASE UNCHANGED commissionVars
  BY <1>1 DEF commissionVars, MeasureInv, TestOK, PairsInv, ResultInv, Measuring, Measured, Pair,
              AllPassed, ComesHome
<1>2. CASE CommissionNext
  <2>1. FilesOK'
    BY <1>2, FilesStay DEF MeasureInv, TestOK, FilesOK, WireInv
  <2>2. ASSUME test' = test, stage \notin {"loopback", "unit"} \/ test.pairs = {},
               stage' \notin {"loopback", "unit"},
               stage' = "idle" \/ stage \notin {"unit", "traffic", "idle"}
        PROVE  MeasureInv'
    BY <2>1, <2>2, ResultsStay DEF MeasureInv, PairsInv, Measuring, FilesOK
  <2>3. ASSUME NEW u \in Unit, StartTest(u) PROVE MeasureInv'
    BY <2>1, <2>3, StartKeeps DEF StartTest
  <2>4. CASE DeployFails \/ ConfigureFails \/ ConfigureSkips \/ SwitchRestarts \/ EndTest
    BY <2>2, <2>4 DEF DeployFails, ConfigureFails, ConfigureSkips, SwitchRestarts, EndTest
  <2>5. CASE DeployNetworkInterfaces \/ AteDeployInterfaces
    BY <2>2, <2>5 DEF DeployNetworkInterfaces, AteDeployInterfaces, Deploy
  <2>6. CASE ConfigureApplies
    BY <2>2, <2>6 DEF ConfigureApplies
  <2>7. CASE VmcModeSelection \/ CmcModeSelection
    BY <2>2, <2>7 DEF VmcModeSelection, CmcModeSelection, ModeChosen
  <2>8. CASE SkipLoopback \/ AteConfigureFails \/ AteConfigureSequence
    BY <2>2, <2>8 DEF SkipLoopback, AteConfigureFails, AteConfigureSequence
  <2>9. CASE EndLoopback
    BY <2>2, <2>9 DEF EndLoopback
  <2>10. CASE StartLoopback
    <3>1. Begins(LoopbackTodo) /\ stage = "app" /\ stage' = "loopback" /\ UNCHANGED sw
      BY <2>10 DEF StartLoopback, Begins
    <3> QED
      BY <3>1, TodoKeeps
  <2>11. CASE StartUnitTest
    <3>1. Begins(UnitTodo) /\ stage = "mode" /\ stage' = "unit" /\ UNCHANGED sw
      BY <2>11 DEF StartUnitTest, Begins
    <3> QED
      BY <3>1, TodoKeeps
  <2>12. CASE EnterAteMode
    <3>1. test.unit = {} /\ test.pairs = {}
      BY <2>12 DEF EnterAteMode, MeasureInv, ResultInv, PairsInv, Measuring
    <3> QED
      BY <2>12, <3>1, VerdictKeeps DEF EnterAteMode
  <2>13. CASE EndUnitTest
    BY <2>13, VerdictKeeps DEF EndUnitTest
  <2>14. CASE SkipPair \/ ClosePair
    BY <2>14, NextPairKeeps DEF SkipPair, ClosePair
  <2>15. CASE RunSingleTest
    BY <2>15, SingleTestKeeps
  <2> QED
    BY <1>2, <2>3, <2>4, <2>5, <2>6, <2>7, <2>8, <2>9, <2>10, <2>11, <2>12, <2>13, <2>14,
       <2>15 DEF CommissionNext
<1> QED
  BY <1>1, <1>2

\* A latency test that passed has seen every VLAN that it measured come home at the port, and
\* with a VLAN, the traffic will expect it at.
LEMMA PassProves == MeasureInv => PassProvesWiring
<1> SUFFICES ASSUME MeasureInv, stage = "traffic", test.passed = "passed",
                    NEW r \in test.unit, r.tx \notin Copper
             PROVE  \E w \in RxVlans("dtn", FALSE, Paired(r.tx)) :
                       Home(sw, "dtn", "unit", r.tx, r.vlan) = {<<Paired(r.tx), w>>}
  BY DEF PassProvesWiring
<1>1. r.valid
  BY DEF MeasureInv, ResultInv, AllPassed, UnitPassed
<1> QED
  BY <1>1 DEF MeasureInv, ResultInv, ComesHome, HomeAlone

\* What is subtracted for the switch is bounded, as all of the loop-back test passed, and no
\* measurement is shorter than the packet took.
LEMMA PassBounds == MeasureInv => PassBoundsLatency
<1> SUFFICES ASSUME MeasureInv, stage = "traffic", test.passed = "passed",
                    NEW r \in test.unit
             PROVE  r.actual <= UnitThreshold + StoreForward(r)
                                  + (IF r.tx \in Copper THEN 0
                                     ELSE Later(LoopbackMax, DefaultSwitch))
  BY DEF PassBoundsLatency
<1> DEFINE share == LoopbackLatency(test.loopback, r.tx)
           most == IF r.tx \in Copper THEN 0 ELSE Later(LoopbackMax, DefaultSwitch)
<1>1. AllPassed
  BY DEF MeasureInv, ResultInv
<1>2. r \in EntrySet /\ r.tx \in Nat /\ r.latency \in Int /\ r.actual \in Int
  BY DEF MeasureInv, TestOK, EntrySet
<1>3. r.valid /\ r.latency - share - StoreForward(r) <= UnitThreshold
  BY <1>1 DEF AllPassed, UnitPassed
<1>4. r.actual <= r.latency
  BY <1>3 DEF MeasureInv, ResultInv
<1>5. share \in Int /\ share <= most
  <2>1. IsFiniteSet(test.loopback)
    BY DEF MeasureInv, TestOK
  <2>2. \A e \in test.loopback : e.latency \in Int /\ LoopbackPassed(e)
    BY <1>1 DEF AllPassed, MeasureInv, TestOK, EntrySet
  <2> QED
    BY <1>2, <2>1, <2>2, LoopbackLatencyBounded
<1>6. StoreForward(r) \in Int /\ UnitThreshold \in Int /\ most \in Int
  BY DEF StoreForward, StoreForward100M, StoreForward1G, UnitThreshold, Later, LoopbackMax,
         DefaultSwitch
<1> HIDE DEF share, most
<1>7. r.actual <= UnitThreshold + StoreForward(r) + most
  BY <1>2, <1>3, <1>4, <1>5, <1>6
<1> QED
  BY <1>7 DEF most

\* It holds of every behaviour.
LEMMA MeasureInvHolds == CommissionSpec => []MeasureInv
BY WireInvInit, WireInvKept, MeasureInvInit, MeasureInvKept, PTL DEF CommissionSpec

\* Whatever the switch was wired for before, and whichever stamps and packets come late or not
\* at all: a latency test that passed proves the wiring of the VLANs it measured ...
THEOREM PassProvesWiringHolds == CommissionSpec => []PassProvesWiring
BY MeasureInvHolds, PassProves, PTL

\* ... and bounds what the unit really took.
THEOREM PassBoundsLatencyHolds == CommissionSpec => []PassBoundsLatency
BY MeasureInvHolds, PassBounds, PTL

-----------------------------------------------------------------------------
(* Both parts.                                                             *)

\* The process of the orchestrator behaves as its two parts do by themselves.
THEOREM OrchestratorIsItsParts == OrchestratorSpec => Spec /\ CommissionSpec
<1>1. OrchestratorInit => Init /\ CommissionInit
  BY DEF OrchestratorInit
<1>2. [OrchestratorNext]_orchestratorVars => [Next]_vars /\ [CommissionNext]_commissionVars
  BY DEF OrchestratorNext, orchestratorVars
<1> QED
  BY <1>1, <1>2, PTL DEF OrchestratorSpec, Spec, CommissionSpec

\* So what holds of the parts holds of the process the run checks.
THEOREM OrchestratorHolds ==
    OrchestratorSpec =>
        [](/\ FilesKept /\ CleanRunLeavesNothing /\ BootSurvives
           /\ NoSilentMisrouting /\ PassProvesWiring /\ PassBoundsLatency)
BY OrchestratorIsItsParts, FilesKeptHolds, CleanRunHolds, BootHolds, NoSilentMisroutingHolds,
   PassProvesWiringHolds, PassBoundsLatencyHolds, PTL
=============================================================================

--------------------------- MODULE DtnTestProofs ---------------------------
(***************************************************************************)
(* Theorems about the parts of a DTN test that DtnTest composes: the       *)
(* sequence of the orchestrator, for any number of signals and failing     *)
(* links; the sequence tracker, for any number of RX queues and packets;   *)
(* the cycles and the checks of the health monitor, for any cycle the      *)
(* checks are due in and any number of packets lost; and the time          *)
(* forwarder, for any number of lines.                                     *)
(***************************************************************************)
EXTENDS DtnTest, SequenceTheorems, NumberLemmas, TLAPS

-----------------------------------------------------------------------------
(* The sequence of the orchestrator and its shutdown, for any number of    *)
(* signals, with and without failing links: the types, OutputRegistered    *)
(* and OutputOffAtExit.                                                    *)
(*                                                                         *)
(* Neither property is inductive.  The invariant adds what the code relies *)
(* on without saying it: that the output is on only in a known stretch of  *)
(* the sequence and then over a connected link (otherwise enableOutput(    *)
(* false) would do nothing), that the main thread is frozen while a        *)
(* handler shuts down, and which of the two knows of the output at each    *)
(* step of the shutdown.                                                   *)

\* where the sequence may be while the output is on
Powered ==
    {"reg_output", "publish", "deploy", "launch", "reg_dpdk", "watch", "monitor",
     "unwatch", "unpublish", "stop_dpdk", "unreg_dpdk", "disable", "shutdown"}

\* the output is on and the link has never failed
Live == psu.output /\ ~psu.fault

\* before a shutdown: nothing has been interrupted, and a live output is
\* connected, and registered but for one step
BeforeShutdown ==
    executor = "none" =>
        /\ step = "none" /\ handling = "none" /\ hit = "none"
        /\ Live => /\ IsConnected(psu) /\ pc \in Powered
                   /\ "output" \in reg \/ pc = "reg_output"

\* the main thread during a shutdown: frozen under a handler, or in it, and gone
\* when a signal has interrupted the shutdown
MainFrozen ==
    /\ hit \in {"shutdown", "late"} => pc = "exited"
    /\ executor = "handler" => handling # "none"
    /\ executor = "main" =>
          /\ pc \in {"shutdown", "return", "exited"}
          /\ pc = "return" => step = "done"
    /\ executor # "none" => step # "none"

\* until the outputs have been disabled, the shutdown knows of a live output
\* and can reach it; a process that ended here says so
OutputsToDisable ==
    step \in {"lock", "outputs"} /\ Live =>
        /\ IsConnected(psu)
        /\ "output" \in reg \/ hit = "unregistered"
        /\ pc = "exited" => hit \in {"unregistered", "shutdown"}

\* afterwards no live output is left that was known
OutputsDisabled ==
    step \in {"disconnect", "dpdk", "end", "done"} /\ Live =>
        hit = "unregistered"

RoundsLeft == pc = "verify" => retry < 3

IInv == /\ TypeOK /\ RoundsLeft /\ BeforeShutdown /\ MainFrozen
        /\ OutputsToDisable /\ OutputsDisabled

-----------------------------------------------------------------------------
(* The power supply.                                                       *)

\* enableOutput without a new fault does what it says on a connected link and
\* nothing at all on any other; a fault is never forgotten.
LEMMA EnableOutputEffect ==
    ASSUME NEW p \in Psu, NEW on \in BOOLEAN, NEW r \in EnableOutput(p, on)
    PROVE  /\ r.psu \in Psu /\ r.ok \in BOOLEAN
           /\ ~r.psu.fault =>
                /\ ~p.fault
                /\ IF IsConnected(p)
                   THEN r.ok /\ IsConnected(r.psu) /\ r.psu.output = on
                   ELSE ~r.ok /\ r.psu = p
  <1>1. CASE ~IsConnected(p)
    <2>1. r = [ok |-> FALSE, psu |-> p]
      BY <1>1 DEF EnableOutput
    <2>. QED
      BY <1>1, <2>1
  <1>2. CASE IsConnected(p)
    <2>. DEFINE done == [p EXCEPT !.output = on]
                repaired == Repaired(p)
                broken == Faulty(p, TRUE, FALSE)
    <2>1. /\ done \in Psu /\ done.output = on /\ done.connected = p.connected
          /\ done.open = p.open /\ done.fault = p.fault
      BY DEF Psu
    <2>2. /\ repaired \in Psu /\ repaired.fault = TRUE
          /\ broken \in Psu /\ broken.fault = TRUE
      BY DEF Repaired, Faulty, Psu
    <2>3. EnableOutput(p, on) =
            {[ok |-> TRUE, psu |-> done]} \cup
            (IF MayFail THEN {[ok |-> TRUE, psu |-> repaired],
                              [ok |-> FALSE, psu |-> broken]} ELSE {})
      BY <1>2 DEF EnableOutput
    <2>. HIDE DEF done, repaired, broken
    <2>4. \/ r = [ok |-> TRUE, psu |-> done]
          \/ r = [ok |-> TRUE, psu |-> repaired]
          \/ r = [ok |-> FALSE, psu |-> broken]
      BY <2>3
    <2>5. CASE r = [ok |-> TRUE, psu |-> done]
      <3>1. r.psu = done /\ r.ok = TRUE
        BY <2>5
      <3>. QED
        BY <1>2, <2>1, <3>1 DEF IsConnected
    <2>6. CASE r = [ok |-> TRUE, psu |-> repaired]
      <3>1. r.psu = repaired /\ r.ok = TRUE
        BY <2>6
      <3>. QED
        BY <2>2, <3>1
    <2>7. CASE r = [ok |-> FALSE, psu |-> broken]
      <3>1. r.psu = broken /\ r.ok = FALSE
        BY <2>7
      <3>. QED
        BY <2>2, <3>1
    <2>. QED
      BY <2>4, <2>5, <2>6, <2>7
  <1>. QED
    BY <1>1, <1>2

\* A query leaves the output and, without a new fault, everything else alone.
LEMMA IsOutputEnabledEffect ==
    ASSUME NEW p \in Psu, NEW q \in IsOutputEnabled(p)
    PROVE  /\ q.psu \in Psu /\ q.on \in BOOLEAN
           /\ q.psu.output = p.output
           /\ ~q.psu.fault => q.psu = p
  <1>1. CASE ~IsConnected(p)
    <2>1. q = [on |-> FALSE, psu |-> p]
      BY <1>1 DEF IsOutputEnabled
    <2>. QED
      BY <2>1
  <1>2. CASE IsConnected(p)
    <2>. DEFINE brokenOnes == Broken(p)
                repaired == Repaired(p)
    <2>1. p.output \in BOOLEAN
      BY DEF Psu
    <2>2. \A x \in brokenOnes \cup {repaired} :
             x \in Psu /\ x.fault = TRUE /\ x.output = p.output
      BY DEF Broken, ReconnectFails, Repaired, Faulty, Psu
    <2>3. IsOutputEnabled(p) =
            {[on |-> p.output, psu |-> p]} \cup
            (IF MayFail THEN [on : {FALSE}, psu : brokenOnes] \cup [on : BOOLEAN, psu : {repaired}]
                        ELSE {})
      BY <1>2 DEF IsOutputEnabled
    <2>. HIDE DEF brokenOnes, repaired
    <2>4. \/ q = [on |-> p.output, psu |-> p]
          \/ q \in [on : {FALSE}, psu : brokenOnes]
          \/ q \in [on : BOOLEAN, psu : {repaired}]
      BY <2>3
    <2>5. CASE q = [on |-> p.output, psu |-> p]
      BY <2>1, <2>5
    <2>6. CASE q \in [on : {FALSE}, psu : brokenOnes] \/ q \in [on : BOOLEAN, psu : {repaired}]
      <3>1. q.on \in BOOLEAN /\ q.psu \in brokenOnes \cup {repaired}
        BY <2>6
      <3>. QED
        BY <2>2, <3>1
    <2>. QED
      BY <2>4, <2>5, <2>6
  <1>. QED
    BY <1>1, <1>2

\* A link that broke or came back has the fault on record, and the output as it was.
LEMMA BrokenEffect ==
    ASSUME NEW p \in Psu, NEW q \in Broken(p) \cup {Repaired(p)}
    PROVE  q \in Psu /\ q.fault
  BY DEF Broken, ReconnectFails, Repaired, Faulty, Psu

-----------------------------------------------------------------------------
(* The steps of the sequence.                                              *)

\* A registration is a step of the sequence with a successor.
LEMMA RegistrationType ==
    ASSUME NEW p \in DOMAIN Registration
    PROVE  /\ Registration[p].next \in Pc \ {"verify"}
           /\ Registration[p].add \subseteq Resource
           /\ p # "unreg_output" => "output" \notin Registration[p].del
           /\ p = "reg_output" => "output" \in Registration[p].add
           /\ p \in Powered => Registration[p].next \in Powered
           /\ Registration[p].next # "reg_output"
           /\ p \notin {"shutdown", "return", "exited"}
  BY DEF Registration, Pc, Resource, Powered

\* A step of the main thread outside a shutdown keeps the invariant if it keeps
\* a live output connected, registered and within Powered.
LEMMA SequenceStep ==
    ASSUME IInv, handling = "none", pc \notin {"shutdown", "return", "exited"},
           UNCHANGED <<shutVars, handling, hit>>, TypeOK', RoundsLeft',
           Live' => /\ IsConnected(psu') /\ pc' \in Powered
                    /\ "output" \in reg' \/ pc' = "reg_output"
    PROVE  IInv'
  <1>1. executor = "none"
    BY DEF IInv, TypeOK, MainFrozen
  <1>2. BeforeShutdown'
    BY <1>1 DEF IInv, BeforeShutdown, shutVars, IsConnected
  <1>3. MainFrozen'
    BY <1>1 DEF IInv, BeforeShutdown, MainFrozen, shutVars
  <1>4. OutputsToDisable' /\ OutputsDisabled'
    BY <1>1 DEF IInv, BeforeShutdown, OutputsToDisable, OutputsDisabled, shutVars
  <1>. QED
    BY <1>2, <1>3, <1>4 DEF IInv

\* The same for a step that leaves the power supply and the registry alone.
LEMMA QuietStep ==
    ASSUME IInv, handling = "none", pc \notin {"shutdown", "return", "exited"},
           UNCHANGED <<shutVars, handling, hit, psu, reg>>, TypeOK', RoundsLeft',
           pc \in Powered => pc' \in Powered,
           pc # "reg_output" \/ pc' = "reg_output"
    PROVE  IInv'
  <1>1. executor = "none"
    BY DEF IInv, TypeOK, MainFrozen
  <1>2. Live' => /\ IsConnected(psu') /\ pc' \in Powered
                 /\ "output" \in reg' \/ pc' = "reg_output"
    BY <1>1 DEF IInv, BeforeShutdown, Live
  <1>. QED
    BY <1>2, SequenceStep

\* The places of the sequence that are not registrations, which Pc lists last.
LEMMA PcType ==
    /\ {"server", "connect", "configure", "enable", "publish", "deploy", "launch",
        "watch", "monitor", "unwatch", "unpublish", "stop_dpdk", "disable",
        "verify", "disconnect", "shutdown", "return", "exited"} \subseteq Pc
    /\ {"reg_server", "reg_connected", "reg_output", "reg_dpdk", "unreg_dpdk",
        "unreg_output", "unreg_connected"} \subseteq Pc
    /\ \A p \in DOMAIN Registration :
          p \notin {"server", "connect", "configure", "enable", "publish",
                    "deploy", "launch", "watch", "monitor", "unwatch",
                    "unpublish", "stop_dpdk", "disable", "verify", "disconnect",
                    "shutdown", "return", "exited"}
  BY DEF Pc, Registration

\* Every step of the main thread keeps the types.
LEMMA SequenceType ==
    ASSUME TypeOK, RoundsLeft, Sequence
    PROVE  TypeOK' /\ RoundsLeft'
  <1>1. CASE ServerOn
    <2>1. pc' \in Pc /\ pc' # "verify"
      BY <1>1, PcType DEF ServerOn, Fails
    <2>. QED
      BY <1>1, <2>1 DEF ServerOn, TypeOK, RoundsLeft, shutVars, sigVars, pubVars
  <1>2. CASE Lock
    <2>1. pc' = pc /\ retry' = retry /\ mutex' \in {"free", "main", "handler"}
      BY <1>2 DEF Lock
    <2>. QED
      BY <1>2, <2>1 DEF Lock, TypeOK, RoundsLeft, shutVars, sigVars, pubVars
  <1>3. CASE Register
    <2>1. pc' \in Pc /\ pc' # "verify" /\ reg' \subseteq Resource
      BY <1>3, RegistrationType DEF Register, TypeOK
    <2>. QED
      BY <1>3, <2>1 DEF Register, TypeOK, RoundsLeft, shutVars, sigVars, pubVars
  <1>4. CASE Connect
    <2>1. pc' \in Pc /\ pc' # "verify" /\ psu' \in Psu
      BY <1>4, PcType DEF Connect, Fails, Faulty, TypeOK, Psu
    <2>. QED
      BY <1>4, <2>1 DEF Connect, TypeOK, RoundsLeft, shutVars, sigVars, pubVars
  <1>5. CASE Configure
    <2>1. pc' \in Pc /\ pc' # "verify" /\ psu' \in Psu
      BY <1>5, PcType, BrokenEffect DEF Configure, Fails, TypeOK
    <2>. QED
      BY <1>5, <2>1 DEF Configure, TypeOK, RoundsLeft, shutVars, sigVars, pubVars
  <1>6. CASE Enable
    <2>1. pc' \in Pc /\ pc' # "verify" /\ psu' \in Psu
      <3>1. PICK r \in EnableOutput(psu, TRUE) :
               psu' = r.psu /\ pc' \in {"reg_output", "shutdown"}
        BY <1>6 DEF Enable
      <3>2. r.psu \in Psu
        BY EnableOutputEffect DEF TypeOK
      <3>. QED
        BY <3>1, <3>2, PcType
    <2>. QED
      BY <1>6, <2>1 DEF Enable, TypeOK, RoundsLeft, shutVars, sigVars, pubVars
  <1>7. CASE Publish
    <2>1. /\ pc' \in Pc /\ pc' # "verify"
          /\ pub' \in {"off", "idle", "reconnect"} /\ pub_run' \in BOOLEAN
      BY <1>7, PcType DEF Publish, TypeOK, pubVars
    <2>. QED
      BY <1>7, <2>1 DEF Publish, TypeOK, RoundsLeft, shutVars, sigVars
  <1>8. CASE Deploy
    <2>1. pc' \in Pc /\ pc' # "verify"
      BY <1>8, PcType DEF Deploy, Fails
    <2>. QED
      BY <1>8, <2>1 DEF Deploy, TypeOK, RoundsLeft, shutVars, sigVars, pubVars
  <1>9. CASE Launch
    <2>1. pc' \in Pc /\ pc' # "verify" /\ dpdk' \in BOOLEAN
      BY <1>9, PcType DEF Launch, Fails
    <2>. QED
      BY <1>9, <2>1 DEF Launch, TypeOK, RoundsLeft, shutVars, sigVars, pubVars
  <1>10. CASE Watch
    <2>1. /\ pc' \in Pc /\ pc' # "verify" /\ monitoring' \in BOOLEAN
          /\ sigint' \in {"safe", "monitor"}
      BY <1>10, PcType DEF Watch
    <2>. QED
      BY <1>10, <2>1 DEF Watch, TypeOK, RoundsLeft, shutVars, pubVars
  <1>11. CASE Monitor
    <2>1. pc' \in Pc /\ pc' # "verify" /\ monitoring' \in BOOLEAN
      BY <1>11, PcType DEF Monitor
    <2>. QED
      BY <1>11, <2>1 DEF Monitor, TypeOK, RoundsLeft, shutVars, pubVars
  <1>12. CASE Unwatch
    <2>1. pc' \in Pc /\ pc' # "verify" /\ sigint' \in {"safe", "monitor"}
      BY <1>12, PcType DEF Unwatch
    <2>. QED
      BY <1>12, <2>1 DEF Unwatch, TypeOK, RoundsLeft, shutVars, pubVars
  <1>13. CASE Unpublish
    <2>1. /\ pc' \in Pc /\ pc' # "verify"
          /\ pub' = pub /\ pub_run' \in BOOLEAN
      BY <1>13, PcType DEF Unpublish, JoinPublisher, At, TypeOK, pubVars
    <2>. QED
      BY <1>13, <2>1 DEF Unpublish, TypeOK, RoundsLeft, shutVars, sigVars
  <1>14. CASE StopDpdk
    <2>1. pc' \in Pc /\ pc' # "verify" /\ dpdk' \in BOOLEAN
      BY <1>14, PcType DEF StopDpdk, TypeOK
    <2>. QED
      BY <1>14, <2>1 DEF StopDpdk, TypeOK, RoundsLeft, shutVars, sigVars, pubVars
  <1>15. CASE Disable
    <2>1. pc' \in Pc /\ psu' \in Psu /\ retry' \in 0..3 /\ retry' < 3
      <3>1. PICK r \in EnableOutput(psu, FALSE) :
               psu' = r.psu /\ pc' \in {"verify", "shutdown"}
        BY <1>15 DEF Disable
      <3>2. r.psu \in Psu
        BY EnableOutputEffect DEF TypeOK
      <3>3. retry' \in 0..3 /\ retry' < 3
        BY <1>15 DEF Disable
      <3>. QED
        BY <3>1, <3>2, <3>3, PcType
    <2>. QED
      BY <1>15, <2>1 DEF Disable, TypeOK, RoundsLeft, shutVars, sigVars, pubVars
  <1>16. CASE Verify
    <2>1. PICK q \in IsOutputEnabled(psu) :
             \/ pc' = "unreg_output" /\ psu' = q.psu /\ retry' = retry
             \/ /\ \E r \in EnableOutput(q.psu, FALSE) : psu' = r.psu
                /\ retry' = retry + 1
                /\ pc' = IF retry' < 3 THEN "verify" ELSE "unreg_output"
      BY <1>16 DEF Verify
    <2>2. q.psu \in Psu
      BY IsOutputEnabledEffect DEF TypeOK
    <2>3. psu' \in Psu
      BY <2>1, <2>2, EnableOutputEffect
    <2>4. pc' \in Pc /\ retry' \in 0..3 /\ (pc' # "verify" \/ retry' < 3)
      <3>1. retry < 3 /\ retry \in 0..3
        BY <1>16 DEF Verify, At, RoundsLeft, TypeOK
      <3>2. retry' \in 0..3
        <4>1. retry' = retry \/ retry' = retry + 1
          BY <2>1
        <4>. QED
          BY <3>1, <4>1
      <3>3. pc' \in {"verify", "unreg_output"} /\ (pc' # "verify" \/ retry' < 3)
        <4>1. CASE pc' = "unreg_output"
          BY <4>1
        <4>2. CASE pc' = IF retry' < 3 THEN "verify" ELSE "unreg_output"
          BY <4>2
        <4>. QED
          BY <2>1, <4>1, <4>2
      <3>. QED
        BY <3>2, <3>3, PcType
    <2>. QED
      BY <1>16, <2>3, <2>4 DEF Verify, TypeOK, RoundsLeft, shutVars, sigVars, pubVars
  <1>17. CASE Disconnect
    <2>1. pc' \in Pc /\ pc' # "verify" /\ psu' \in Psu
      BY <1>17, PcType DEF Disconnect, TypeOK, Psu
    <2>. QED
      BY <1>17, <2>1 DEF Disconnect, TypeOK, RoundsLeft, shutVars, sigVars, pubVars
  <1>18. CASE CallShutdown
    <2>1. /\ executor' \in {"none", "main", "handler"}
          /\ step' \in {"none", "lock", "outputs", "disconnect", "dpdk", "end", "done"}
      BY <1>18 DEF CallShutdown
    <2>. QED
      BY <1>18, <2>1 DEF CallShutdown, TypeOK, RoundsLeft, seqVars, sigVars, pubVars
  <1>19. CASE Return
    <2>1. \A r \in EnableOutput(psu, FALSE) :
             [r.psu EXCEPT !.connected = FALSE, !.open = FALSE] \in Psu
      <3>1. SUFFICES ASSUME NEW r \in EnableOutput(psu, FALSE)
                     PROVE  [r.psu EXCEPT !.connected = FALSE, !.open = FALSE] \in Psu
        OBVIOUS
      <3>2. psu \in Psu
        BY DEF TypeOK
      <3>3. r.psu \in Psu
        BY <3>2, EnableOutputEffect
      <3>. QED
        BY <3>3 DEF Psu
    <2>2. psu' \in Psu
      BY <1>19, <2>1 DEF Return, TypeOK
    <2>3. /\ pc' \in Pc /\ pc' # "verify"
          /\ pub' = pub /\ pub_run' \in BOOLEAN
      BY <1>19, PcType DEF Return, JoinPublisher, At, TypeOK, pubVars
    <2>4. UNCHANGED <<retry, reg, mutex, shutVars, sigVars, dpdk>>
      BY <1>19 DEF Return
    <2>. QED
      BY <2>2, <2>3, <2>4 DEF TypeOK, RoundsLeft, shutVars, sigVars
  <1>. QED
    BY <1>1, <1>2, <1>3, <1>4, <1>5, <1>6, <1>7, <1>8, <1>9, <1>10, <1>11,
       <1>12, <1>13, <1>14, <1>15, <1>16, <1>17, <1>18, <1>19 DEF Sequence

\* The steps of a shutdown, of the telemetry thread and the signals do as well.
LEMMA OtherType ==
    ASSUME TypeOK, RoundsLeft, BeforeShutdown,
           Shutdown \/ Publisher \/ DpdkEnds
           \/ (\E sig \in {"INT", "TERM"} : Signal(sig))
    PROVE  TypeOK' /\ RoundsLeft'
  <1>1. CASE TakeMutex
    <2>1. /\ mutex' \in {"free", "main", "handler"}
          /\ step' \in {"none", "lock", "outputs", "disconnect", "dpdk", "end", "done"}
      BY <1>1 DEF TakeMutex, ShutdownRuns, BeforeShutdown, TypeOK
    <2>. QED
      BY <1>1, <2>1 DEF TakeMutex, TypeOK, RoundsLeft, sigVars, pubVars
  <1>2. CASE DisableOutputs
    <2>1. psu' \in Psu
      <3>1. psu' = psu \/ \E r \in EnableOutput(psu, FALSE) : psu' = r.psu
        BY <1>2 DEF DisableOutputs
      <3>2. \A r \in EnableOutput(psu, FALSE) : r.psu \in Psu
        BY EnableOutputEffect DEF TypeOK
      <3>. QED
        BY <3>1, <3>2 DEF TypeOK
    <2>2. step' \in {"none", "lock", "outputs", "disconnect", "dpdk", "end", "done"}
      BY <1>2 DEF DisableOutputs, TypeOK
    <2>3. UNCHANGED <<seqVars, executor, sigVars, pubVars, dpdk>>
      BY <1>2 DEF DisableOutputs
    <2>. QED
      BY <2>1, <2>2, <2>3 DEF TypeOK, RoundsLeft, seqVars, sigVars, pubVars
  <1>3. CASE DisconnectPsus
    <2>1. /\ psu' \in Psu
          /\ step' \in {"none", "lock", "outputs", "disconnect", "dpdk", "end", "done"}
      BY <1>3 DEF DisconnectPsus, TypeOK, Psu
    <2>. QED
      BY <1>3, <2>1 DEF DisconnectPsus, TypeOK, RoundsLeft, seqVars, sigVars, pubVars
  <1>4. CASE StopRemote
    <2>1. /\ dpdk' \in BOOLEAN
          /\ step' \in {"none", "lock", "outputs", "disconnect", "dpdk", "end", "done"}
      BY <1>4 DEF StopRemote, TypeOK
    <2>. QED
      BY <1>4, <2>1 DEF StopRemote, TypeOK, RoundsLeft, seqVars, sigVars, pubVars
  <1>5. CASE EndShutdown
    <2>1. /\ pc' \in Pc /\ pc' # "verify"
          /\ reg' \subseteq Resource /\ mutex' \in {"free", "main", "handler"}
          /\ step' \in {"none", "lock", "outputs", "disconnect", "dpdk", "end", "done"}
      BY <1>5, PcType DEF EndShutdown
    <2>. QED
      BY <1>5, <2>1 DEF EndShutdown, TypeOK, RoundsLeft, sigVars, pubVars
  <1>6. CASE Publisher
    <2>1. psu' \in Psu
      BY <1>6 DEF Publisher, PubBreaks, PubReconnects, PubEnds, ReconnectFails,
                  Repaired, Faulty, TypeOK, Psu
    <2>2. pub' \in {"off", "idle", "reconnect"}
      BY <1>6 DEF Publisher, PubBreaks, PubReconnects, PubEnds, TypeOK
    <2>3. UNCHANGED <<seqVars, shutVars, sigVars, pub_run, dpdk>>
      BY <1>6 DEF Publisher, PubBreaks, PubReconnects, PubEnds
    <2>. QED
      BY <2>1, <2>2, <2>3 DEF TypeOK, RoundsLeft, seqVars, shutVars, sigVars
  <1>7. CASE DpdkEnds
    <2>1. dpdk' \in BOOLEAN /\ UNCHANGED <<seqVars, shutVars, sigVars, psu, pubVars>>
      BY <1>7 DEF DpdkEnds
    <2>. QED
      BY <2>1 DEF TypeOK, RoundsLeft, seqVars, shutVars, sigVars, pubVars
  <1>8. ASSUME NEW sig \in {"INT", "TERM"}, Signal(sig)
        PROVE  TypeOK' /\ RoundsLeft'
    <2>1. signals' \in 0..MaxSignals
      BY <1>8, DtnAssumption DEF Signal, TypeOK
    <2>2. /\ pc' \in Pc /\ (pc' = pc \/ pc' # "verify")
          /\ monitoring' \in BOOLEAN
          /\ executor' \in {"none", "main", "handler"}
          /\ step' \in {"none", "lock", "outputs", "disconnect", "dpdk", "end", "done"}
          /\ handling' \in {"none", "INT", "TERM"}
          /\ hit' \in {"none", "sequence", "unregistered", "shutdown", "late"}
      <3>1. CASE HandleSafe(sig)
        <4>1. hit' \in {"none", "sequence", "unregistered", "shutdown", "late"}
          BY <3>1 DEF HandleSafe, Interrupted, TypeOK
        <4>. QED
          BY <3>1, <4>1, <1>8, PcType DEF HandleSafe, TypeOK
      <3>2. CASE /\ monitoring' = FALSE
                 /\ UNCHANGED <<pc, executor, step, handling, hit>>
        BY <3>2 DEF TypeOK
      <3>. QED
        BY <1>8, <3>1, <3>2 DEF Signal
    <2>3. UNCHANGED <<retry, reg, mutex, sigint, psu, pubVars, dpdk>>
      BY <1>8 DEF Signal
    <2>. QED
      BY <2>1, <2>2, <2>3 DEF TypeOK, RoundsLeft, pubVars
  <1>. QED
    BY <1>1, <1>2, <1>3, <1>4, <1>5, <1>6, <1>7, <1>8 DEF Shutdown

-----------------------------------------------------------------------------
(* The invariant.                                                          *)

\* A step of the sequence outside a shutdown keeps the invariant.
LEMMA SequenceKeeps ==
    ASSUME IInv, Sequence, pc \notin {"shutdown", "return"}
    PROVE  IInv'
  <1>1. TypeOK' /\ RoundsLeft'
    BY SequenceType DEF IInv
  <1>2. handling = "none" /\ pc # "exited"
    BY DEF Sequence, ServerOn, Lock, Register, Connect, Configure, Enable, Publish,
           Deploy, Launch, Watch, Monitor, Unwatch, Unpublish, StopDpdk, Disable,
           Verify, Disconnect, CallShutdown, Return, At, Registration
  <1>3. executor = "none" /\ (Live => /\ IsConnected(psu) /\ pc \in Powered
                                      /\ "output" \in reg \/ pc = "reg_output")
    BY <1>2 DEF IInv, TypeOK, MainFrozen, BeforeShutdown
  <1>4. CASE \/ ServerOn \/ Lock \/ Publish \/ Deploy \/ Launch \/ Watch \/ Monitor
             \/ Unwatch \/ Unpublish \/ StopDpdk
    <2>1. UNCHANGED <<shutVars, handling, hit, psu, reg>>
      BY <1>4 DEF ServerOn, Lock, Publish, Deploy, Launch, Watch, Monitor, Unwatch,
                  Unpublish, StopDpdk, sigVars
    <2>2. pc' = pc \/ (pc \in Powered => pc' \in Powered)
      BY <1>4 DEF ServerOn, Lock, Publish, Deploy, Launch, Watch, Monitor, Unwatch,
                  Unpublish, StopDpdk, JoinPublisher, At, Fails, Powered
    <2>3. pc # "reg_output" \/ pc' = "reg_output"
      BY <1>4 DEF ServerOn, Lock, Publish, Deploy, Launch, Watch, Monitor, Unwatch,
                  Unpublish, StopDpdk, At
    <2>. QED
      BY <1>1, <1>2, <2>1, <2>2, <2>3, QuietStep
  <1>5. CASE Register
    <2>1. UNCHANGED <<shutVars, handling, hit, psu>>
      BY <1>5 DEF Register, sigVars
    <2>2. /\ reg' = (reg \cup Registration[pc].add) \ Registration[pc].del
          /\ pc' = Registration[pc].next /\ pc \in DOMAIN Registration
      BY <1>5 DEF Register
    <2>3. pc \in Powered => pc # "unreg_output"
      BY DEF Powered
    <2>4. Live' => /\ IsConnected(psu') /\ pc' \in Powered
                   /\ "output" \in reg' \/ pc' = "reg_output"
      BY <1>3, <2>1, <2>2, <2>3, RegistrationType DEF Live
    <2>. QED
      BY <1>1, <1>2, <2>1, <2>4, SequenceStep
  <1>6. CASE Connect \/ Configure
    <2>1. UNCHANGED <<shutVars, handling, hit>>
      BY <1>6 DEF Connect, Configure, sigVars
    <2>2. ~Live
      BY <1>3, <1>6 DEF Connect, Configure, At, Powered
    <2>3. \/ psu' = psu
          \/ psu' \in Psu /\ (psu'.fault = TRUE \/ psu'.output = FALSE)
      <3>1. CASE Connect
        BY <3>1 DEF Connect, Faulty, IInv, TypeOK, Psu
      <3>2. CASE Configure
        BY <3>2, BrokenEffect DEF Configure, IInv, TypeOK
      <3>. QED
        BY <1>6, <3>1, <3>2
    <2>4. ~Live'
      BY <2>2, <2>3 DEF Live
    <2>. QED
      BY <1>1, <1>2, <2>1, <2>4, SequenceStep
  <1>7. CASE Enable \/ Disable
    <2>1. UNCHANGED <<shutVars, handling, hit, reg>>
      BY <1>7 DEF Enable, Disable, sigVars
    <2>2. CASE Enable
      <3>1. PICK r \in EnableOutput(psu, TRUE) :
               psu' = r.psu /\ pc' = IF r.ok THEN "reg_output" ELSE "shutdown"
        BY <2>2 DEF Enable
      <3>2. ~Live
        BY <1>3, <2>2 DEF Enable, At, Powered
      <3>3. ~r.psu.fault =>
              /\ ~psu.fault
              /\ IF IsConnected(psu) THEN r.ok /\ IsConnected(r.psu)
                                     ELSE ~r.ok /\ r.psu = psu
        BY EnableOutputEffect DEF IInv, TypeOK
      <3>4. Live' => IsConnected(psu') /\ pc' = "reg_output"
        BY <3>1, <3>2, <3>3 DEF Live
      <3>. QED
        BY <1>1, <1>2, <2>1, <3>4, SequenceStep DEF Powered
    <2>3. CASE Disable
      <3>1. PICK r \in EnableOutput(psu, FALSE) : psu' = r.psu
        BY <2>3 DEF Disable
      <3>2. ~r.psu.fault =>
              /\ ~psu.fault
              /\ IF IsConnected(psu) THEN r.psu.output = FALSE ELSE r.psu = psu
        BY EnableOutputEffect DEF IInv, TypeOK
      <3>3. ~Live'
        BY <1>3, <3>1, <3>2 DEF Live
      <3>. QED
        BY <1>1, <1>2, <2>1, <3>3, SequenceStep
    <2>. QED
      BY <1>7, <2>2, <2>3
  <1>8. CASE Verify
    <2>1. UNCHANGED <<shutVars, handling, hit>>
      BY <1>8 DEF Verify, sigVars
    <2>2. ~Live
      BY <1>3, <1>8 DEF Verify, At, Powered
    <2>3. PICK q \in IsOutputEnabled(psu) :
             psu' = q.psu \/ \E r \in EnableOutput(q.psu, FALSE) : psu' = r.psu
      BY <1>8 DEF Verify
    <2>4. q.psu \in Psu /\ (~q.psu.fault => q.psu = psu)
      BY IsOutputEnabledEffect DEF IInv, TypeOK
    <2>5. ASSUME NEW r \in EnableOutput(q.psu, FALSE), psu' = r.psu
          PROVE  ~Live'
      <3>1. ~r.psu.fault =>
              /\ ~q.psu.fault
              /\ IF IsConnected(q.psu) THEN r.psu.output = FALSE
                                       ELSE r.psu = q.psu
        BY <2>4, EnableOutputEffect
      <3>. QED
        BY <2>2, <2>4, <2>5, <3>1 DEF Live
    <2>6. ~Live'
      BY <2>2, <2>3, <2>4, <2>5 DEF Live
    <2>. QED
      BY <1>1, <1>2, <2>1, <2>6, SequenceStep
  <1>9. CASE Disconnect
    <2>1. UNCHANGED <<shutVars, handling, hit>>
      BY <1>9 DEF Disconnect, sigVars
    <2>2. ~Live
      BY <1>3, <1>9 DEF Disconnect, At, Powered
    <2>3. psu'.output = psu.output /\ psu'.fault = psu.fault
      BY <1>9 DEF Disconnect, IInv, TypeOK, Psu
    <2>4. ~Live'
      BY <2>2, <2>3 DEF Live
    <2>. QED
      BY <1>1, <1>2, <2>1, <2>4, SequenceStep
  <1>. QED
    BY <1>4, <1>5, <1>6, <1>7, <1>8, <1>9
       DEF Sequence, CallShutdown, Return, At

\* The call of a shutdown takes over what was known of a live output.
LEMMA CallShutdownKeeps ==
    ASSUME IInv, CallShutdown
    PROVE  IInv'
  <1>1. TypeOK' /\ RoundsLeft'
    BY SequenceType DEF IInv, Sequence
  <1>2. /\ pc = "shutdown" /\ executor = "none" /\ executor' = "main"
        /\ step' = "lock"
        /\ UNCHANGED <<pc, reg, hit, psu>>
    BY DEF CallShutdown, At, seqVars, sigVars
  <1>3. hit = "none" /\ (Live => IsConnected(psu) /\ "output" \in reg)
    BY <1>2 DEF IInv, BeforeShutdown
  <1>4. BeforeShutdown' /\ MainFrozen' /\ OutputsDisabled'
    BY <1>2, <1>3 DEF BeforeShutdown, MainFrozen, OutputsDisabled
  <1>5. OutputsToDisable'
    BY <1>2, <1>3 DEF OutputsToDisable, Live, IsConnected
  <1>. QED
    BY <1>1, <1>4, <1>5 DEF IInv

\* The end of the process, and the destructor of the power supply.
LEMMA ReturnKeeps ==
    ASSUME IInv, Return
    PROVE  IInv'
  <1>1. TypeOK' /\ RoundsLeft'
    BY SequenceType DEF IInv, Sequence
  <1>2. /\ pc = "return" /\ handling = "none" /\ pc' \in {"return", "exited"}
        /\ UNCHANGED <<reg, shutVars, handling, hit>>
    BY DEF Return, At, JoinPublisher, sigVars
  <1>3. \/ executor = "none" /\ step = "none" /\ hit = "none" /\ ~Live
        \/ executor = "main" /\ step = "done" /\ (Live => hit = "unregistered")
    BY <1>2 DEF IInv, TypeOK, BeforeShutdown, MainFrozen, OutputsDisabled, Powered
  <1>4. Live' => Live
    <2>1. CASE psu' = psu
      BY <2>1 DEF Live
    <2>2. ASSUME NEW r \in EnableOutput(psu, FALSE),
                 psu' = [r.psu EXCEPT !.connected = FALSE, !.open = FALSE]
          PROVE  Live' => Live
      <3>1. /\ r.psu \in Psu
            /\ ~r.psu.fault =>
                 /\ ~psu.fault
                 /\ IF IsConnected(psu) THEN r.psu.output = FALSE
                                        ELSE r.psu = psu
        BY EnableOutputEffect DEF IInv, TypeOK
      <3>2. psu'.output = r.psu.output /\ psu'.fault = r.psu.fault
        BY <2>2, <3>1 DEF Psu
      <3>. QED
        BY <3>1, <3>2 DEF Live
    <2>3. \/ psu' = psu
          \/ \E r \in EnableOutput(psu, FALSE) :
                psu' = [r.psu EXCEPT !.connected = FALSE, !.open = FALSE]
      BY DEF Return
    <2>. QED
      BY <2>1, <2>2, <2>3
  <1>5. BeforeShutdown' /\ MainFrozen'
    BY <1>2, <1>3, <1>4 DEF IInv, BeforeShutdown, MainFrozen, shutVars
  <1>6. OutputsToDisable' /\ OutputsDisabled'
    BY <1>2, <1>3, <1>4 DEF OutputsToDisable, OutputsDisabled, shutVars
  <1>. QED
    BY <1>1, <1>5, <1>6 DEF IInv

\* The steps of a shutdown.
LEMMA ShutdownKeeps ==
    ASSUME IInv, Shutdown
    PROVE  IInv'
  <1>1. TypeOK' /\ RoundsLeft'
    BY OtherType DEF IInv
  <1>2. /\ executor # "none" /\ executor' = executor /\ pc # "exited"
        /\ UNCHANGED <<handling, hit>>
        /\ executor = "main" => handling = "none"
    BY DEF Shutdown, TakeMutex, DisableOutputs, DisconnectPsus, StopRemote,
           EndShutdown, ShutdownRuns, IInv, BeforeShutdown, sigVars
  <1>3. BeforeShutdown'
    BY <1>2 DEF BeforeShutdown
  <1>4. MainFrozen'
    <2>1. step' # "none"
      BY DEF Shutdown, TakeMutex, DisableOutputs, DisconnectPsus, StopRemote,
             EndShutdown
    <2>2. \/ pc' = pc /\ step # "done"
          \/ step' = "done" /\ pc' \in {"return", "exited"}
      BY DEF Shutdown, TakeMutex, DisableOutputs, DisconnectPsus, StopRemote,
             EndShutdown, ShutdownRuns, seqVars
    <2>. QED
      BY <1>2, <2>1, <2>2 DEF IInv, MainFrozen
  <1>5. CASE TakeMutex
    <2>1. /\ step = "lock" /\ step' = "outputs"
          /\ UNCHANGED <<pc, reg, hit, psu>>
      BY <1>5 DEF TakeMutex, ShutdownRuns, sigVars
    <2>2. OutputsToDisable' /\ OutputsDisabled'
      BY <2>1 DEF IInv, OutputsToDisable, OutputsDisabled, Live, IsConnected
    <2>. QED
      BY <1>1, <1>3, <1>4, <2>2 DEF IInv
  <1>6. CASE DisableOutputs
    <2>1. step = "outputs" /\ step' = "disconnect" /\ hit' = hit
      BY <1>6 DEF DisableOutputs, ShutdownRuns, sigVars
    <2>2. Live' => hit = "unregistered"
      <3>1. CASE "output" \in reg
        <4>1. PICK r \in EnableOutput(psu, FALSE) : psu' = r.psu
          BY <1>6, <3>1 DEF DisableOutputs
        <4>2. ~r.psu.fault =>
                /\ ~psu.fault
                /\ IF IsConnected(psu) THEN r.psu.output = FALSE
                                       ELSE r.psu = psu
          BY EnableOutputEffect DEF IInv, TypeOK
        <4>3. Live => IsConnected(psu)
          BY <2>1 DEF IInv, OutputsToDisable
        <4>. QED
          BY <4>1, <4>2, <4>3 DEF Live
      <3>2. CASE "output" \notin reg
        BY <1>6, <2>1, <3>2 DEF DisableOutputs, IInv, OutputsToDisable, Live
      <3>. QED
        BY <3>1, <3>2
    <2>3. OutputsToDisable' /\ OutputsDisabled'
      BY <2>1, <2>2 DEF OutputsToDisable, OutputsDisabled
    <2>. QED
      BY <1>1, <1>3, <1>4, <2>3 DEF IInv
  <1>7. CASE DisconnectPsus \/ StopRemote \/ EndShutdown
    <2>1. /\ step \in {"disconnect", "dpdk", "end"}
          /\ step' \in {"dpdk", "end", "done"} /\ hit' = hit
      BY <1>7 DEF DisconnectPsus, StopRemote, EndShutdown, ShutdownRuns, sigVars
    <2>2. psu'.output = psu.output /\ psu'.fault = psu.fault
      BY <1>7 DEF DisconnectPsus, StopRemote, EndShutdown, IInv, TypeOK, Psu
    <2>3. OutputsToDisable' /\ OutputsDisabled'
      BY <2>1, <2>2 DEF IInv, OutputsToDisable, OutputsDisabled, Live
    <2>. QED
      BY <1>1, <1>3, <1>4, <2>3 DEF IInv
  <1>. QED
    BY <1>5, <1>6, <1>7 DEF Shutdown

\* The telemetry thread changes the power supply only by a failing link.
LEMMA PublisherKeeps ==
    ASSUME IInv, Publisher
    PROVE  IInv'
  <1>1. TypeOK' /\ RoundsLeft'
    BY OtherType DEF IInv
  <1>2. UNCHANGED <<seqVars, shutVars, sigVars>>
    BY DEF Publisher, PubBreaks, PubReconnects, PubEnds
  <1>3. psu' = psu \/ psu'.fault = TRUE
    BY DEF Publisher, PubBreaks, PubReconnects, PubEnds, ReconnectFails, Repaired,
           Faulty, IInv, TypeOK, Psu
  <1>4. Live' => Live /\ psu' = psu
    BY <1>3 DEF Live
  <1>. QED
    BY <1>1, <1>2, <1>4
       DEF IInv, BeforeShutdown, MainFrozen, OutputsToDisable, OutputsDisabled,
           IsConnected, seqVars, shutVars, sigVars

\* A signal starts a shutdown with what is known of a live output, or ends the
\* process and says where.
LEMMA SignalKeeps ==
    ASSUME IInv, NEW sig \in {"INT", "TERM"}, Signal(sig)
    PROVE  IInv'
  <1>1. TypeOK' /\ RoundsLeft'
    BY OtherType DEF IInv
  <1>2. UNCHANGED <<reg, psu>> /\ (Live' <=> Live)
    BY DEF Signal, Live
  <1>3. CASE UNCHANGED <<pc, executor, step, handling, hit>>
    BY <1>1, <1>2, <1>3
       DEF IInv, BeforeShutdown, MainFrozen, OutputsToDisable, OutputsDisabled,
           IsConnected
  <1>4. CASE HandleSafe(sig) /\ executor = "none"
    <2>1. /\ executor' = "handler" /\ step' = "lock" /\ handling' # "none"
          /\ pc' = pc
      BY <1>4 DEF HandleSafe
    <2>2. step = "none" /\ hit = "none" /\ (Live => IsConnected(psu) /\ pc # "exited")
      BY <1>4 DEF IInv, BeforeShutdown, Powered
    <2>3. hit' = IF pc = "reg_output" THEN "unregistered" ELSE "sequence"
      BY <1>4, <2>2 DEF HandleSafe, Interrupted
    <2>4. Live => "output" \in reg \/ hit' = "unregistered"
      BY <1>4, <2>3 DEF IInv, BeforeShutdown
    <2>5. OutputsToDisable'
      BY <1>2, <2>1, <2>2, <2>4 DEF OutputsToDisable, IsConnected
    <2>6. BeforeShutdown' /\ MainFrozen' /\ OutputsDisabled'
      BY <2>1, <2>3 DEF BeforeShutdown, MainFrozen, OutputsDisabled
    <2>. QED
      BY <1>1, <2>5, <2>6 DEF IInv
  <1>5. CASE HandleSafe(sig) /\ executor # "none"
    <2>1. pc' = "exited" /\ UNCHANGED <<executor, step, handling>>
      BY <1>5 DEF HandleSafe
    <2>2. /\ hit = "unregistered" => hit' = "unregistered"
          /\ step \in {"lock", "outputs"} /\ hit \in {"none", "sequence"} =>
                hit' = "shutdown"
          /\ hit \in {"shutdown", "late"} => hit' = hit
      <3>1. step \in {"lock", "outputs"} => Interrupted = "shutdown"
        BY <1>5 DEF Interrupted
      <3>2. hit' = IF hit \in {"none", "sequence"} THEN Interrupted ELSE hit
        BY <1>5 DEF HandleSafe
      <3>. QED
        BY <3>1, <3>2
    <2>3. hit \notin {"shutdown", "late"}
      BY DEF Signal, IInv, MainFrozen
    <2>4. BeforeShutdown' /\ MainFrozen'
      BY <1>5, <2>1 DEF IInv, BeforeShutdown, MainFrozen
    <2>5. OutputsToDisable'
      BY <1>2, <2>1, <2>2, <2>3
         DEF IInv, TypeOK, OutputsToDisable, IsConnected
    <2>6. OutputsDisabled'
      BY <1>2, <2>1, <2>2 DEF IInv, OutputsDisabled
    <2>. QED
      BY <1>1, <2>4, <2>5, <2>6 DEF IInv
  <1>. QED
    BY <1>3, <1>4, <1>5 DEF Signal

\* The invariant holds when the sequence starts.
LEMMA InvariantInit == Init => IInv
  <1>. SUFFICES ASSUME Init PROVE IInv
    OBVIOUS
  <1>1. TypeOK
    <2>1. signals \in 0..MaxSignals /\ retry \in 0..3
      BY DtnAssumption DEF Init
    <2>2. psu \in Psu
      BY DEF Init, Psu
    <2>. QED
      BY <2>1, <2>2, PcType DEF Init, TypeOK
  <1>. QED
    BY <1>1 DEF Init, IInv, RoundsLeft, BeforeShutdown, MainFrozen,
                OutputsToDisable, OutputsDisabled, Live

\* The invariant is inductive: no step of the sequence, of a shutdown, of the
\* telemetry thread and no signal breaks it.
LEMMA InvariantNext == IInv /\ [Next]_vars => IInv'
  <1>. SUFFICES ASSUME IInv, [Next]_vars PROVE IInv'
    OBVIOUS
  <1>1. CASE Sequence
    <2>1. CASE pc \notin {"shutdown", "return"}
      BY <1>1, <2>1, SequenceKeeps
    <2>2. CASE pc \in {"shutdown", "return"}
      <3>1. CallShutdown \/ Return
        BY <1>1, <2>2 DEF Sequence, ServerOn, Lock, Register, Connect, Configure,
             Enable, Publish, Deploy, Launch, Watch, Monitor, Unwatch, Unpublish,
             StopDpdk, Disable, Verify, Disconnect, At, Registration
      <3>. QED
        BY <3>1, CallShutdownKeeps, ReturnKeeps
    <2>. QED
      BY <2>1, <2>2
  <1>2. CASE Shutdown
    BY <1>2, ShutdownKeeps
  <1>3. CASE Publisher
    BY <1>3, PublisherKeeps
  <1>4. CASE DpdkEnds
    <2>1. TypeOK' /\ RoundsLeft'
      BY <1>4, OtherType DEF IInv
    <2>. QED
      BY <1>4, <2>1
         DEF DpdkEnds, IInv, BeforeShutdown, MainFrozen, OutputsToDisable,
             OutputsDisabled, Live, IsConnected, seqVars, shutVars, sigVars
  <1>5. ASSUME NEW sig \in {"INT", "TERM"}, Signal(sig) PROVE IInv'
    BY <1>5, SignalKeeps
  <1>6. CASE UNCHANGED vars
    BY <1>6 DEF IInv, TypeOK, RoundsLeft, BeforeShutdown, MainFrozen,
                OutputsToDisable, OutputsDisabled, Live, IsConnected, vars
  <1>. QED
    BY <1>1, <1>2, <1>3, <1>4, <1>5, <1>6 DEF Next

-----------------------------------------------------------------------------
(* The theorems.                                                           *)

\* Every variable has its type.
THEOREM TypeCorrect == Spec => []TypeOK
  <1>1. IInv => TypeOK
    BY DEF IInv
  <1>. QED
    BY <1>1, InvariantInit, InvariantNext, PTL DEF Spec

\* While nobody has asked for a shutdown, SafeShutdown knows of a live output,
\* but for the step between enableOutput(true) and its registration.
THEOREM OutputIsRegistered == Spec => []OutputRegistered
  <1>1. IInv => OutputRegistered
    BY DEF IInv, BeforeShutdown, OutputRegistered, Live
  <1>. QED
    BY <1>1, InvariantInit, InvariantNext, PTL DEF Spec

\* However many signals arrive and whatever fails, the process does not end with
\* a live output, unless a signal came in that step or cut a shutdown short
\* before it had disabled the outputs.
THEOREM OutputIsOffAtExit == Spec => []OutputOffAtExit
  <1>1. IInv => OutputOffAtExit
    <2>1. ASSUME IInv, pc = "exited", Live
          PROVE  hit \in {"unregistered", "shutdown"}
      <3>1. executor # "none"
        BY <2>1 DEF IInv, BeforeShutdown, Powered
      <3>2. step \in {"lock", "outputs", "disconnect", "dpdk", "end", "done"}
        BY <2>1, <3>1 DEF IInv, TypeOK, MainFrozen
      <3>. QED
        BY <2>1, <3>2 DEF IInv, OutputsToDisable, OutputsDisabled
    <2>. QED
      BY <2>1 DEF OutputOffAtExit, Live
  <1>. QED
    BY <1>1, InvariantInit, InvariantNext, PTL DEF Spec

\* So both hold of the process that the run checks, whatever the other parts do.
THEOREM OutputHolds == TestSpec => [](OutputRegistered /\ OutputOffAtExit)
<1>1. TestInit => Init
  BY DEF TestInit
<1>2. [TestNext]_testVars => [Next]_vars
  BY DEF TestNext, testVars
<1> QED
  BY <1>1, <1>2, OutputIsRegistered, OutputIsOffAtExit, PTL DEF TestSpec, Spec

-----------------------------------------------------------------------------
(* Sequence tracking.                                                      *)

TrackerState == [initialized : BOOLEAN, expected_seq : Nat, max_seq : Nat, pkt_count : Nat]
StatsState == [rx : Nat, lost : Nat]
WorkerState == [pc : {"poll", "cas", "first", "gap", "advance", "max", "swap", "count",
                      "watermark", "watermark_max", "watermark_count", "exited"},
                seq : Nat, seen : Nat, local_rx : Nat, local_lost : Nat]

TrackerTypes ==
    /\ queues \in SUBSET Worker /\ next_seq \in Nat
    /\ ring \in [Worker -> SUBSET Nat]
    /\ dropped \in SUBSET Nat /\ truncated \in SUBSET Nat
    /\ tracker \in TrackerState /\ stats \in StatsState
    /\ worker \in [Worker -> WorkerState]

\* The worker is about to add the watermark.
Marking(w) == worker[w].pc \in {"watermark", "watermark_max", "watermark_count"}

\* Every packet sent is in one place, and only the queues it can reach are at work.
OnePlace ==
    /\ dropped \subseteq Sent /\ truncated \subseteq Sent
    /\ \A w \in Worker :
          /\ ring[w] \subseteq Sent \ (dropped \cup truncated)
          /\ Busy(w) => worker[w].seq \in Sent \ (dropped \cup truncated)
          /\ w \notin queues => ring[w] = {} /\ ~Busy(w) /\ worker[w].local_lost = 0
          /\ Marking(w) => w \in Owner
    /\ \A v, w \in Worker :
          /\ Busy(w) => worker[w].seq \notin ring[v]
          /\ v # w => ring[v] \cap ring[w] = {}
          /\ v # w /\ Busy(v) /\ Busy(w) => worker[v].seq # worker[w].seq

\* The count is that of the packets tracked, and max_seq their greatest number or that of
\* a packet about to be counted.
MaxIsHighest ==
    /\ tracker.pkt_count = Cardinality(Tracked)
    /\ \A q \in Tracked : q <= tracker.max_seq
    /\ \A w \in Worker : worker[w].pc = "count" => worker[w].seq <= tracker.max_seq
    /\ \A w \in Worker : worker[w].pc = "swap" => worker[w].seen < worker[w].seq
    /\ \/ tracker.max_seq = 0 \/ tracker.max_seq \in Tracked
       \/ \E w \in Worker : worker[w].pc = "count" /\ worker[w].seq = tracker.max_seq

\* On one queue packets are tracked in the order of their numbers.
InOrder(w) ==
    /\ \A q \in Tracked : \A r \in ring[w] : q < r
    /\ Busy(w) => /\ \A q \in Tracked : q < worker[w].seq
                  /\ \A r \in ring[w] : worker[w].seq < r

Missing(m, n) == {q \in dropped \cup truncated : m < q /\ q < n}
NoneExited == \A o \in Owner : worker[o].pc # "exited"

\* What the detection has seen, up to where, and what it has counted.
Seen(w) == Tracked \cup (IF worker[w].pc \in {"advance", "max", "swap", "count"}
                         THEN {worker[w].seq} ELSE {})
UpTo(w) == IF worker[w].pc = "advance" THEN worker[w].seq + 1 ELSE tracker.expected_seq
Lost(w) == stats.lost + worker[w].local_lost

Measured(w) ==
    IF ~tracker.initialized \/ worker[w].pc = "first"
    THEN /\ Tracked = {}
         /\ NoneExited => Lost(w) = 0
         /\ worker[w].pc \in {"poll", "cas", "watermark", "exited", "first"}
         /\ worker[w].pc = "first" => tracker.initialized
    ELSE /\ worker[w].pc # "cas"
         /\ UpTo(w) - 1 \in Seen(w) /\ \A q \in Seen(w) : q < UpTo(w)
         /\ NoneExited =>
              \E m \in Seen(w) : /\ \A q \in Seen(w) : m <= q
                                 /\ Lost(w) = Cardinality(Missing(m, UpTo(w)))

\* The watermark is added when no packet is left, and holds all that is missing below it.
Marked(w) ==
    /\ worker[w].pc = "watermark_count" => worker[w].seen = tracker.max_seq + 1
    /\ worker[w].pc = "exited" /\ Tracked # {} =>
          stats.lost + tracker.pkt_count >= tracker.max_seq + 1

TrackerInv ==
    /\ TrackerTypes /\ OnePlace
    /\ BeforeReset =>
          /\ MaxIsHighest
          /\ \A w \in Worker : queues = {w} =>
                /\ InOrder(w) /\ Measured(w)
                /\ w \in Owner => Marked(w)

-----------------------------------------------------------------------------
(* Where the packets are.                                                  *)

\* Tracked, read as what a number must not be.
LEMMA TrackedIs ==
    \A q : q \in Tracked <=>
        /\ q \in Sent /\ q \notin dropped /\ q \notin truncated
        /\ \A w \in Worker : q \notin ring[w] /\ (Busy(w) => worker[w].seq # q)
BY DEF Tracked, Queued, InHand

\* There are finitely many numbers below next_seq.
LEMMA TrackedIsFinite ==
    ASSUME TrackerTypes
    PROVE  IsFiniteSet(Tracked) /\ Cardinality(Tracked) \in Nat /\ Tracked \subseteq Sent
           /\ Sent \subseteq Nat
<1>1. Tracked \subseteq Sent
  BY DEF Tracked
<1>2. next_seq \in Nat /\ Sent = 0..(next_seq - 1)
  BY DEF TrackerTypes, Sent
<1> QED
  BY <1>1, <1>2, NumbersBelow

\* The types hold at the start.
LEMMA TypesInit == TrackerInit => TrackerTypes
  BY DEF TrackerInit, TrackerTypes, TrackerState, StatsState, WorkerState

\* Every step keeps the types.
LEMMA TypesStep == TrackerTypes /\ [TrackerNext]_trackerVars => TrackerTypes'
<1> SUFFICES ASSUME TrackerTypes, [TrackerNext]_trackerVars PROVE TrackerTypes'
  OBVIOUS
<1>1. CASE Send
  <2>1. next_seq \in Nat /\ next_seq + 1 \in Nat
    BY DEF TrackerTypes
  <2>2. ring' \in [Worker -> SUBSET Nat] /\ dropped' \in SUBSET Nat
    <3>1. CASE UNCHANGED ring /\ dropped' = dropped \cup {next_seq}
      BY <2>1, <3>1 DEF TrackerTypes
    <3>2. CASE UNCHANGED dropped /\ \E w \in queues :
                  ring' = [ring EXCEPT ![w] = @ \cup {next_seq}]
      <4>1. PICK w \in queues : ring' = [ring EXCEPT ![w] = ring[w] \cup {next_seq}]
        BY <3>2
      <4>2. ring[w] \cup {next_seq} \in SUBSET Nat /\ dropped' = dropped
        BY <2>1, <3>2 DEF TrackerTypes
      <4> QED
        BY <4>1, <4>2 DEF TrackerTypes
    <3> QED
      BY <1>1, <3>1, <3>2 DEF Send
  <2>3. next_seq' = next_seq + 1 /\ UNCHANGED <<queues, truncated, tracker, stats, worker>>
    BY <1>1 DEF Send
  <2>4. next_seq' \in Nat
    BY <2>1, <2>3
  <2>5. /\ queues \in SUBSET Worker /\ truncated \in SUBSET Nat
        /\ tracker \in TrackerState /\ stats \in StatsState
        /\ worker \in [Worker -> WorkerState]
    BY DEF TrackerTypes
  <2>6. (/\ queues \in SUBSET Worker /\ truncated \in SUBSET Nat
         /\ tracker \in TrackerState /\ stats \in StatsState
         /\ worker \in [Worker -> WorkerState])'
    BY <2>3, <2>5 DEF TrackerState, StatsState, WorkerState
  <2> QED
    BY <2>2, <2>4, <2>6 DEF TrackerTypes
<1>2. CASE ResetStats \/ ResetTracker
  <2>1. stats' \in StatsState
    BY <1>2 DEF ResetStats, ResetTracker, TrackerTypes, StatsState
  <2>2. tracker' \in TrackerState
    <3>1. tracker' \in {tracker, [tracker EXCEPT !.max_seq = 0],
                       [tracker EXCEPT !.pkt_count = 0],
                       [tracker EXCEPT !.initialized = FALSE]}
      BY <1>2 DEF ResetStats, ResetTracker
    <3>2. [tracker EXCEPT !.initialized = FALSE] \in TrackerState
      BY DEF TrackerTypes, TrackerState
    <3>3. [tracker EXCEPT !.max_seq = 0] \in TrackerState
      BY DEF TrackerTypes, TrackerState
    <3>4. [tracker EXCEPT !.pkt_count = 0] \in TrackerState
      BY DEF TrackerTypes, TrackerState
    <3> QED
      BY <3>1, <3>2, <3>3, <3>4 DEF TrackerTypes
  <2>3. UNCHANGED <<queues, next_seq, ring, dropped, truncated, worker>>
    BY <1>2 DEF ResetStats, ResetTracker
  <2> QED
    BY <2>1, <2>2, <2>3 DEF TrackerTypes
<1>3. CASE Stop \/ UNCHANGED trackerVars
  BY <1>3 DEF Stop, TrackerTypes, trackerVars
<1>4. ASSUME NEW w \in Worker, Rx(w) PROVE TrackerTypes'
  <2> DEFINE row == worker[w]
  <2>1. /\ row \in WorkerState /\ row.seq \in Nat /\ row.seen \in Nat /\ row.local_rx \in Nat
        /\ row.local_lost \in Nat /\ stats.rx \in Nat /\ stats.lost \in Nat
        /\ tracker.expected_seq \in Nat /\ tracker.max_seq \in Nat
        /\ tracker.pkt_count \in Nat
    BY DEF TrackerTypes, TrackerState, StatsState, WorkerState
  <2>2. ASSUME NEW new \in WorkerState, worker' = [worker EXCEPT ![w] = new],
               tracker' \in TrackerState, stats' \in StatsState,
               ring' \in [Worker -> SUBSET Nat], truncated' \in SUBSET Nat,
               UNCHANGED <<queues, next_seq, dropped>>
        PROVE  TrackerTypes'
    BY <2>2 DEF TrackerTypes
  <2>3. CASE Poll(w)
    <3>1. PICK q \in ring[w] :
             /\ ring' = [ring EXCEPT ![w] = @ \ {q}]
             /\ \/ /\ worker' = [worker EXCEPT
                        ![w].pc = IF tracker.initialized THEN "gap" ELSE "cas",
                        ![w].seq = q, ![w].local_rx = @ + 1]
                   /\ UNCHANGED truncated
                \/ /\ truncated' = truncated \cup {q}
                   /\ worker' = [worker EXCEPT ![w].local_rx = @ + 1]
      BY <2>3 DEF Poll
    <3>2. q \in Nat /\ ring' \in [Worker -> SUBSET Nat] /\ truncated' \in SUBSET Nat
      BY <3>1 DEF TrackerTypes
    <3>3. worker' \in [Worker -> WorkerState]
      <4>1. ASSUME NEW p \in {"gap", "cas"}
            PROVE  [row EXCEPT !.pc = p, !.seq = q, !.local_rx = row.local_rx + 1]
                     \in WorkerState
        <5>1. row.local_rx + 1 \in Nat
          BY <2>1
        <5> QED
          BY <2>1, <3>2, <5>1 DEF WorkerState
      <4>2. [row EXCEPT !.local_rx = row.local_rx + 1] \in WorkerState
        BY <2>1 DEF WorkerState
      <4> QED
        BY <3>1, <4>1, <4>2 DEF TrackerTypes
    <3> QED
      BY <2>3, <3>2, <3>3 DEF Poll, TrackerTypes
  <2>4. CASE Flush(w) \/ Leave(w)
    <3>1. PICK p \in {"poll", "watermark", "exited"} : FlushTo(w, p)
      BY <2>4 DEF Flush, Leave
    <3>2. /\ worker' = [worker EXCEPT ![w] = [row EXCEPT !.pc = p, !.local_rx = 0,
                                                          !.local_lost = 0]]
          /\ [row EXCEPT !.pc = p, !.local_rx = 0, !.local_lost = 0] \in WorkerState
      BY <2>1, <3>1 DEF FlushTo, TrackerTypes, WorkerState
    <3>3. stats' \in StatsState
      BY <2>1, <3>1 DEF FlushTo, StatsState
    <3>4. UNCHANGED <<queues, next_seq, ring, dropped, truncated, tracker>>
      BY <2>4 DEF Flush, Leave
    <3> QED
      BY <2>2, <3>2, <3>3, <3>4 DEF TrackerTypes
  <2>5. CASE Cas(w)
    <3>1. [tracker EXCEPT !.initialized = TRUE] \in TrackerState
      BY DEF TrackerTypes, TrackerState
    <3>2. PICK p \in {"max", "first"} : worker' = [worker EXCEPT ![w].pc = p]
      BY <2>5 DEF Cas
    <3>3. [row EXCEPT !.pc = p] \in WorkerState
      BY <2>1 DEF WorkerState
    <3> QED
      BY <2>5, <3>1, <3>2, <3>3 DEF Cas, TrackerTypes
  <2>6. CASE First(w) \/ Advance(w)
    <3>1. tracker' = [tracker EXCEPT !.expected_seq = worker[w].seq + 1]
      BY <2>6 DEF First, Advance
    <3>2. tracker' \in TrackerState
      BY <2>1, <3>1 DEF TrackerTypes, TrackerState
    <3>3. [row EXCEPT !.pc = "max"] \in WorkerState
      BY <2>1 DEF WorkerState
    <3> QED
      BY <2>6, <3>2, <3>3 DEF First, Advance, TrackerTypes
  <2>7. CASE Gap(w)
    <3> DEFINE n == IF row.seq > tracker.expected_seq
                    THEN row.local_lost + (row.seq - tracker.expected_seq)
                    ELSE row.local_lost
    <3> DEFINE p == IF row.seq >= tracker.expected_seq THEN "advance" ELSE "max"
    <3>1. n \in Nat
      BY <2>1
    <3>2. /\ worker' = [worker EXCEPT ![w] = [row EXCEPT !.local_lost = n, !.pc = p]]
          /\ UNCHANGED <<queues, next_seq, ring, dropped, truncated, tracker, stats>>
      BY <2>7 DEF Gap, TrackerTypes
    <3>3. p \in {"advance", "max"}
      OBVIOUS
    <3> HIDE DEF n, p
    <3>4. [row EXCEPT !.local_lost = n, !.pc = p] \in WorkerState
      BY <2>1, <3>1, <3>3 DEF WorkerState
    <3> QED
      BY <2>2, <3>2, <3>4 DEF TrackerTypes
  <2>8. CASE LoadMax(w) \/ SwapMax(w)
    BY <2>8 DEF LoadMax, SwapMax, TrackerTypes, TrackerState, WorkerState
  <2>9. CASE Count(w)
    <3>1. tracker.pkt_count + 1 \in Nat
      BY <2>1
    <3>2. tracker' \in TrackerState
      BY <2>9, <3>1 DEF Count, TrackerTypes, TrackerState
    <3>3. [row EXCEPT !.pc = "poll", !.seq = 0, !.seen = 0] \in WorkerState
      BY <2>1 DEF WorkerState
    <3> QED
      BY <2>9, <3>2, <3>3 DEF Count, TrackerTypes
  <2>10. CASE Watermark(w)
    <3>1. PICK p \in {"watermark_max", "exited"} : worker' = [worker EXCEPT ![w].pc = p]
      BY <2>10 DEF Watermark
    <3>2. [row EXCEPT !.pc = p] \in WorkerState
      BY <2>1 DEF WorkerState
    <3> QED
      BY <2>10, <3>1, <3>2 DEF Watermark, TrackerTypes
  <2>11. CASE WatermarkMax(w)
    <3>1. tracker.max_seq + 1 \in Nat
      BY <2>1
    <3>2. [row EXCEPT !.seen = tracker.max_seq + 1, !.pc = "watermark_count"] \in WorkerState
      BY <2>1, <3>1 DEF WorkerState
    <3> QED
      BY <2>11, <3>2 DEF WatermarkMax, TrackerTypes
  <2>12. CASE WatermarkCount(w)
    <3>1. stats' \in StatsState
      BY <2>1, <2>12 DEF WatermarkCount, TrackerTypes, StatsState
    <3>2. [row EXCEPT !.seen = 0, !.pc = "exited"] \in WorkerState
      BY <2>1 DEF WorkerState
    <3> QED
      BY <2>12, <3>1, <3>2 DEF WatermarkCount, TrackerTypes
  <2> QED
    BY <1>4, <2>3, <2>4, <2>5, <2>6, <2>7, <2>8, <2>9, <2>10, <2>11, <2>12 DEF Rx
<1> QED
  BY <1>1, <1>2, <1>3, <1>4 DEF TrackerNext

\* A step that moves no packet.
Still ==
    /\ UNCHANGED <<queues, next_seq, ring, dropped, truncated>>
    /\ \A v \in Worker : (Busy(v)' <=> Busy(v)) /\ worker'[v].seq = worker[v].seq

\* A step that moves no packet to or from a worker tracks what was tracked.
LEMMA StillKeepsTracked ==
    ASSUME Still
    PROVE  Tracked' = Tracked
<1>1. Sent' = Sent
  BY DEF Still, Sent
<1>2. Queued' = Queued
  BY DEF Still, Queued
<1>3. InHand' = InHand
  BY DEF Still, InHand
<1> QED
  BY <1>1, <1>2, <1>3 DEF Still, Tracked

\* A step that leaves the queues to the workers that poll them, and the watermark to those
\* that own the VL-ID.
InTurn ==
    \A v \in Worker : /\ v \notin queues => worker'[v].local_lost = 0
                      /\ Marking(v)' => v \in Owner

\* A step that raises no number.
Level ==
    /\ tracker'.max_seq = tracker.max_seq /\ tracker'.pkt_count = tracker.pkt_count
    /\ \A v \in Worker :
          /\ worker'[v].pc = "count" <=> worker[v].pc = "count"
          /\ worker'[v].pc = "swap" => worker[v].pc = "swap" /\ worker'[v].seen = worker[v].seen

\* Such a step leaves every packet in its place.
LEMMA StillInPlace ==
    ASSUME OnePlace, Still, InTurn
    PROVE  OnePlace'
<1>1. UNCHANGED <<queues, next_seq, ring, dropped, truncated>> /\ Sent' = Sent
  BY DEF Still, Sent
<1>2. \A v \in Worker : (Busy(v)' <=> Busy(v)) /\ worker'[v].seq = worker[v].seq
  BY DEF Still
<1> HIDE DEF Still
<1>3. (\A w \in Worker :
          /\ ring[w] \subseteq Sent \ (dropped \cup truncated)
          /\ Busy(w) => worker[w].seq \in Sent \ (dropped \cup truncated)
          /\ w \notin queues => ring[w] = {} /\ ~Busy(w) /\ worker[w].local_lost = 0
          /\ Marking(w) => w \in Owner)'
  BY <1>1, <1>2 DEF OnePlace, InTurn
<1>4. (\A v, w \in Worker :
          /\ Busy(w) => worker[w].seq \notin ring[v]
          /\ v # w => ring[v] \cap ring[w] = {}
          /\ v # w /\ Busy(v) /\ Busy(w) => worker[v].seq # worker[w].seq)'
  BY <1>1, <1>2 DEF OnePlace
<1>5. (dropped \subseteq Sent /\ truncated \subseteq Sent)'
  BY <1>1 DEF OnePlace
<1> QED
  BY <1>3, <1>4, <1>5 DEF OnePlace

\* Such a step keeps the watermark the highest tracked number.
LEMMA LevelKeepsMax ==
    ASSUME MaxIsHighest, Still, Level
    PROVE  MaxIsHighest'
<1>1. Tracked' = Tracked
  BY StillKeepsTracked
<1>2. \A v \in Worker : worker'[v].seq = worker[v].seq
  BY DEF Still
<1> QED
  BY <1>1, <1>2 DEF MaxIsHighest, Level

\* Most of what a worker does moves no packet.
LEMMA StillSteps ==
    ASSUME TrackerTypes, OnePlace, NEW w \in Worker,
           \/ Flush(w) \/ Cas(w) \/ First(w) \/ Gap(w) \/ Advance(w) \/ LoadMax(w)
           \/ SwapMax(w) \/ Leave(w) \/ Watermark(w) \/ WatermarkMax(w)
           \/ WatermarkCount(w)
    PROVE  Still /\ InTurn /\ UNCHANGED resetting
<1> DEFINE row == worker[w]
<1>1. SUFFICES ASSUME NEW new \in WorkerState, worker' = [worker EXCEPT ![w] = new],
                      new.seq = row.seq,
                      new.pc \in {"cas", "first", "gap", "advance", "max", "swap", "count"}
                        <=> Busy(w),
                      w \notin queues => new.local_lost = 0,
                      new.pc \in {"watermark", "watermark_max", "watermark_count"}
                        => w \in Owner,
                      UNCHANGED <<queues, next_seq, ring, dropped, truncated, resetting>>
               PROVE  Still /\ InTurn /\ UNCHANGED resetting
  <2>1. row \in WorkerState /\ worker \in [Worker -> WorkerState]
    BY DEF TrackerTypes
  <2>2. UNCHANGED <<queues, next_seq, ring, dropped, truncated, resetting>>
    BY DEF Flush, Cas, First, Gap, Advance, LoadMax, SwapMax, Leave, Watermark, WatermarkMax,
           WatermarkCount
  <2>3. (w \notin queues => row.local_lost = 0 /\ ~Busy(w)) /\ (Marking(w) => w \in Owner)
    BY DEF OnePlace
  <2>4. worker' = [worker EXCEPT ![w] = worker'[w]] /\ worker'[w] \in WorkerState
    <3>1. worker' \in [Worker -> WorkerState]
      <4>1. Rx(w)
        BY DEF Rx
      <4>2. TrackerTypes'
        BY <4>1, TypesStep DEF TrackerNext
      <4> QED
        BY <4>2 DEF TrackerTypes
    <3>2. \A v \in Worker : v # w => worker'[v] = worker[v]
      BY <2>1 DEF Flush, FlushTo, Cas, First, Gap, Advance, LoadMax, SwapMax, Leave,
                  Watermark, WatermarkMax, WatermarkCount
    <3> QED
      BY <2>1, <3>1, <3>2
  <2>5. worker'[w].seq = row.seq
    BY <2>1 DEF Flush, FlushTo, Cas, First, Gap, Advance, LoadMax, SwapMax, Leave,
                Watermark, WatermarkMax, WatermarkCount, WorkerState
  <2>6. CASE Flush(w) \/ Leave(w)
    <3>1. /\ row.pc = "poll" /\ worker'[w].local_lost = 0
          /\ worker'[w].pc \in {"poll", "exited"} \/ (worker'[w].pc = "watermark" /\ w \in Owner)
      BY <2>1, <2>6 DEF Flush, FlushTo, Leave, WorkerState
    <3> QED
      BY <1>1, <2>2, <2>4, <2>5, <3>1 DEF Busy
  <2>7. CASE Cas(w) \/ First(w) \/ Gap(w) \/ Advance(w) \/ LoadMax(w) \/ SwapMax(w)
    <3>1. Busy(w) /\ worker'[w].pc \in {"cas", "first", "gap", "advance", "max", "swap",
                                         "count"}
      BY <2>1, <2>7 DEF Cas, First, Gap, Advance, LoadMax, SwapMax, Busy, WorkerState
    <3> QED
      BY <1>1, <2>2, <2>3, <2>4, <2>5, <3>1
  <2>8. CASE Watermark(w) \/ WatermarkMax(w) \/ WatermarkCount(w)
    <3>1. /\ Marking(w) /\ ~Busy(w) /\ worker'[w].local_lost = row.local_lost
          /\ worker'[w].pc \in {"watermark_max", "watermark_count", "exited"}
      BY <2>1, <2>8 DEF Watermark, WatermarkMax, WatermarkCount, Marking, Busy, WorkerState
    <3> QED
      BY <1>1, <2>2, <2>3, <2>4, <2>5, <3>1
  <2> QED
    BY <2>6, <2>7, <2>8
<1>2. \A v \in Worker : worker'[v] = IF v = w THEN new ELSE worker[v]
  BY <1>1 DEF TrackerTypes
<1>3. \A v \in Worker : (Busy(v)' <=> Busy(v)) /\ worker'[v].seq = worker[v].seq
  BY <1>1, <1>2 DEF Busy
<1>4. InTurn
  BY <1>1, <1>2 DEF InTurn, OnePlace, Marking
<1> QED
  BY <1>1, <1>3, <1>4 DEF Still

-----------------------------------------------------------------------------
(* The tracker of all queues: WatermarkExact.                              *)

\* The loop around the compare-and-swap.
LEMMA MaxLoopKeeps ==
    ASSUME TrackerTypes, OnePlace, MaxIsHighest, NEW w \in Worker, LoadMax(w) \/ SwapMax(w)
    PROVE  MaxIsHighest'
<1>1. Tracked' = Tracked
  BY StillSteps, StillKeepsTracked
<1>2. /\ worker[w] \in WorkerState /\ worker[w].seq \in Nat /\ worker[w].seen \in Nat
      /\ tracker \in TrackerState /\ tracker.max_seq \in Nat /\ Tracked \subseteq Nat
      /\ worker \in [Worker -> WorkerState]
  BY TrackedIsFinite DEF TrackerTypes, WorkerState, TrackerState
<1>3. \A v \in Worker : v # w => worker'[v] = worker[v]
  BY <1>2 DEF LoadMax, SwapMax
<1>4. worker'[w].seq = worker[w].seq
  BY <1>2 DEF LoadMax, SwapMax, WorkerState
<1>5. CASE LoadMax(w)
  <2>1. tracker' = tracker
    BY <1>5 DEF LoadMax
  <2>2. CASE worker[w].seq <= tracker.max_seq
    <3>1. worker'[w].pc = "count" /\ worker[w].pc = "max"
      BY <1>2, <1>5, <2>2 DEF LoadMax, WorkerState
    <3> QED
      BY <1>1, <1>2, <1>3, <1>4, <2>1, <2>2, <3>1 DEF MaxIsHighest
  <2>3. CASE ~(worker[w].seq <= tracker.max_seq)
    <3>1. /\ worker'[w].pc = "swap" /\ worker[w].pc = "max"
          /\ worker'[w].seen = tracker.max_seq
      BY <1>2, <1>5, <2>3 DEF LoadMax, WorkerState
    <3> QED
      BY <1>1, <1>2, <1>3, <1>4, <2>1, <2>3, <3>1 DEF MaxIsHighest
  <2> QED
    BY <2>2, <2>3
<1>6. CASE SwapMax(w)
  <2>1. CASE tracker.max_seq = worker[w].seen
    <3>1. /\ worker'[w].pc = "count" /\ worker[w].pc = "swap"
          /\ tracker'.max_seq = worker[w].seq /\ tracker'.pkt_count = tracker.pkt_count
      BY <1>2, <1>6, <2>1 DEF SwapMax, WorkerState, TrackerState
    <3>2. tracker.max_seq < tracker'.max_seq
      BY <2>1, <3>1 DEF MaxIsHighest
    <3>3. \A q \in Tracked : q <= tracker'.max_seq
      BY <1>2, <3>1, <3>2 DEF MaxIsHighest
    <3>4. \A v \in Worker : worker'[v].pc = "count" => worker'[v].seq <= tracker'.max_seq
      <4>1. \A v \in Worker : worker[v].seq \in Nat
        BY <1>2 DEF WorkerState
      <4> QED
        BY <1>2, <1>3, <1>4, <3>1, <3>2, <4>1 DEF MaxIsHighest
    <3>5. \A v \in Worker : worker'[v].pc = "swap" => worker'[v].seen < worker'[v].seq
      BY <1>3, <3>1 DEF MaxIsHighest
    <3> QED
      BY <1>1, <1>4, <3>1, <3>3, <3>4, <3>5 DEF MaxIsHighest
  <2>2. CASE tracker.max_seq # worker[w].seen
    <3>1. worker'[w].pc = "max" /\ worker[w].pc = "swap" /\ tracker' = tracker
      BY <1>2, <1>6, <2>2 DEF SwapMax, WorkerState
    <3> QED
      BY <1>1, <1>3, <1>4, <3>1 DEF MaxIsHighest
  <2> QED
    BY <2>1, <2>2
<1> QED
  BY <1>5, <1>6

\* The other steps that move no packet.
LEMMA LevelSteps ==
    ASSUME TrackerTypes, NEW w \in Worker,
           \/ Flush(w) \/ Cas(w) \/ First(w) \/ Gap(w) \/ Advance(w) \/ Leave(w)
           \/ Watermark(w) \/ WatermarkMax(w) \/ WatermarkCount(w)
    PROVE  Level
<1>1. worker \in [Worker -> WorkerState] /\ tracker \in TrackerState
  BY DEF TrackerTypes
<1>2. \A v \in Worker : v # w => worker'[v] = worker[v]
  BY <1>1 DEF Flush, FlushTo, Cas, First, Gap, Advance, Leave, Watermark, WatermarkMax,
              WatermarkCount
<1>3. tracker'.max_seq = tracker.max_seq /\ tracker'.pkt_count = tracker.pkt_count
  BY <1>1 DEF Flush, FlushTo, Cas, First, Gap, Advance, Leave, Watermark, WatermarkMax,
              WatermarkCount, TrackerState
<1>4. worker[w].pc \notin {"count", "swap"}
  BY DEF Flush, Cas, First, Gap, Advance, Leave, Watermark, WatermarkMax, WatermarkCount
<1>5. worker'[w].pc \notin {"count", "swap"}
  BY <1>1 DEF Flush, FlushTo, Cas, First, Gap, Advance, Leave, Watermark, WatermarkMax,
              WatermarkCount, WorkerState
<1> QED
  BY <1>2, <1>3, <1>4, <1>5 DEF Level

\* A packet sent is in a ring or lost.
LEMMA SendInPlace ==
    ASSUME TrackerTypes, OnePlace, Send
    PROVE  OnePlace' /\ Tracked' = Tracked /\ Level
           /\ (\A v \in Worker : Busy(v)' <=> Busy(v)) /\ next_seq \notin Sent
           /\ Sent \subseteq Sent'
<1>1. /\ next_seq \in Nat /\ next_seq' = next_seq + 1
      /\ UNCHANGED <<queues, truncated, tracker, stats, worker, resetting, stop>>
  BY DEF TrackerTypes, Send
<1>2. Sent' = Sent \cup {next_seq} /\ next_seq \notin Sent
  BY <1>1 DEF Sent
<1>3. \A v \in Worker : (Busy(v)' <=> Busy(v)) /\ (Marking(v)' <=> Marking(v))
  BY <1>1 DEF Busy, Marking
<1>4. InHand' = InHand
  BY <1>1, <1>3 DEF InHand
<1>5. CASE UNCHANGED ring /\ dropped' = dropped \cup {next_seq}
  <2>1. OnePlace'
    BY <1>1, <1>2, <1>3, <1>5 DEF OnePlace
  <2>2. Queued' = Queued
    BY <1>5 DEF Queued
  <2>3. Tracked' = Tracked
    BY <1>1, <1>2, <1>4, <1>5, <2>2 DEF Tracked
  <2> QED
    BY <1>1, <1>2, <1>3, <2>1, <2>3 DEF Level
<1>6. ASSUME NEW w \in queues, ring' = [ring EXCEPT ![w] = @ \cup {next_seq}],
             UNCHANGED dropped
      PROVE  OnePlace' /\ Tracked' = Tracked
  <2>1. /\ w \in Worker
        /\ \A v \in Worker : ring'[v] = IF v = w THEN ring[v] \cup {next_seq} ELSE ring[v]
    BY <1>6 DEF TrackerTypes
  <2>2. OnePlace'
    BY <1>1, <1>2, <1>3, <1>6, <2>1 DEF OnePlace
  <2>3. Queued' = Queued \cup {next_seq}
    BY <2>1 DEF Queued
  <2>4. Tracked' = Tracked
    BY <1>1, <1>2, <1>4, <1>6, <2>3 DEF Tracked
  <2> QED
    BY <2>2, <2>4
<1>7. Level
  BY <1>1 DEF Level
<1> QED
  BY <1>2, <1>3, <1>5, <1>6, <1>7 DEF Send

\* A packet polled is in the worker's hand or too short.
LEMMA PollInPlace ==
    ASSUME TrackerTypes, OnePlace, NEW w \in Worker, Poll(w)
    PROVE  OnePlace' /\ Tracked' = Tracked /\ Level /\ Sent' = Sent
<1>1. PICK q \in ring[w] :
         /\ ring' = [ring EXCEPT ![w] = @ \ {q}]
         /\ \/ /\ worker' = [worker EXCEPT
                    ![w].pc = IF tracker.initialized THEN "gap" ELSE "cas",
                    ![w].seq = q, ![w].local_rx = @ + 1]
               /\ UNCHANGED truncated
            \/ /\ truncated' = truncated \cup {q}
               /\ worker' = [worker EXCEPT ![w].local_rx = @ + 1]
  BY DEF Poll
<1>2. /\ worker[w].pc = "poll" /\ ~Busy(w) /\ w \in queues
      /\ UNCHANGED <<queues, next_seq, dropped, tracker, stats, resetting, stop>>
  BY <1>1 DEF Poll, Busy, OnePlace
<1>3. Sent' = Sent
  BY <1>2 DEF Sent
<1>4. \A v \in Worker : ring'[v] = IF v = w THEN ring[v] \ {q} ELSE ring[v]
  BY <1>1 DEF TrackerTypes
<1>5. Queued' = Queued \ {q}
  <2>1. \A v \in Worker : v # w => q \notin ring[v]
    BY <1>1 DEF OnePlace
  <2>2. \A x : x \in Queued' <=> \E v \in Worker : x \in ring'[v]
    BY DEF Queued
  <2>3. \A x : x \in Queued <=> \E v \in Worker : x \in ring[v]
    BY DEF Queued
  <2> QED
    BY <1>4, <2>1, <2>2, <2>3
<1>6. q \notin dropped /\ q \notin truncated /\ q \in Sent /\ q \in Queued
      /\ \A v \in Worker : Busy(v) => worker[v].seq # q
  BY <1>1 DEF OnePlace, Queued
<1>7. CASE UNCHANGED truncated /\
           worker' = [worker EXCEPT ![w].pc = IF tracker.initialized THEN "gap" ELSE "cas",
                                    ![w].seq = q, ![w].local_rx = @ + 1]
  <2>1. /\ \A v \in Worker : v # w => worker'[v] = worker[v]
        /\ worker'[w].seq = q /\ worker'[w].pc \in {"gap", "cas"}
        /\ worker'[w].local_lost = worker[w].local_lost
    BY <1>7 DEF TrackerTypes, WorkerState
  <2>2. /\ \A v \in Worker : Busy(v)' <=> Busy(v) \/ v = w
        /\ \A v \in Worker : v # w => worker'[v].seq = worker[v].seq
        /\ \A v \in Worker : Marking(v)' => Marking(v)
    BY <2>1 DEF Busy, Marking
  <2>3. OnePlace'
    <3>1. (dropped \subseteq Sent /\ truncated \subseteq Sent)'
      BY <1>2, <1>3, <1>7 DEF OnePlace
    <3>2. (\A v \in Worker :
              /\ ring[v] \subseteq Sent \ (dropped \cup truncated)
              /\ Busy(v) => worker[v].seq \in Sent \ (dropped \cup truncated)
              /\ v \notin queues => ring[v] = {} /\ ~Busy(v) /\ worker[v].local_lost = 0
              /\ Marking(v) => v \in Owner)'
      <4>1. ASSUME NEW v \in Worker
            PROVE  /\ ring'[v] \subseteq Sent' \ (dropped' \cup truncated')
                   /\ v \notin queues' => ring'[v] = {} /\ worker'[v].local_lost = 0
                                          /\ ~Busy(v)'
        <5>1. ring[v] \subseteq Sent \ (dropped \cup truncated)
          BY DEF OnePlace
        <5>2. ring'[v] \subseteq Sent' \ (dropped' \cup truncated')
          BY <1>2, <1>3, <1>4, <1>7, <5>1
        <5>3. v \notin queues' => ring'[v] = {} /\ worker'[v].local_lost = 0
          BY <1>2, <1>4, <2>1 DEF OnePlace
        <5>4. v \notin queues' => ~Busy(v)'
          BY <1>2, <1>3, <1>4, <2>1, <2>2 DEF OnePlace
        <5> QED
          BY <5>2, <5>3, <5>4
      <4>2. ASSUME NEW v \in Worker, Busy(v)'
            PROVE  worker'[v].seq \in Sent' \ (dropped' \cup truncated')
        BY <1>2, <1>3, <1>6, <1>7, <2>1, <2>2, <4>2 DEF OnePlace
      <4>3. \A v \in Worker : Marking(v)' => v \in Owner
        BY <2>2 DEF OnePlace
      <4> QED
        BY <4>1, <4>2, <4>3
    <3>3. (\A v, u \in Worker :
              /\ Busy(u) => worker[u].seq \notin ring[v]
              /\ v # u => ring[v] \cap ring[u] = {}
              /\ v # u /\ Busy(v) /\ Busy(u) => worker[v].seq # worker[u].seq)'
      BY <1>1, <1>4, <1>6, <2>1, <2>2 DEF OnePlace
    <3> QED
      BY <3>1, <3>2, <3>3 DEF OnePlace
  <2>4. InHand' = InHand \cup {q}
    BY <1>2, <2>1, <2>2 DEF InHand
  <2>5. Tracked' = Tracked
    BY <1>2, <1>3, <1>5, <1>6, <1>7, <2>4 DEF Tracked
  <2>6. Level
    BY <1>2, <2>1 DEF Level
  <2> QED
    BY <1>3, <2>3, <2>5, <2>6
<1>8. CASE truncated' = truncated \cup {q} /\ worker' = [worker EXCEPT ![w].local_rx = @ + 1]
  <2>1. \A v \in Worker : /\ worker'[v].seq = worker[v].seq /\ worker'[v].pc = worker[v].pc
                          /\ worker'[v].local_lost = worker[v].local_lost
                          /\ worker'[v].seen = worker[v].seen
    BY <1>8 DEF TrackerTypes, WorkerState
  <2>2. \A v \in Worker : (Busy(v)' <=> Busy(v)) /\ (Marking(v)' <=> Marking(v))
    BY <2>1 DEF Busy, Marking
  <2>3. OnePlace'
    <3>1. (dropped \subseteq Sent /\ truncated \subseteq Sent)'
      BY <1>2, <1>3, <1>6, <1>8 DEF OnePlace
    <3>2. ASSUME NEW v \in Worker
          PROVE  (/\ ring[v] \subseteq Sent \ (dropped \cup truncated)
                  /\ Busy(v) => worker[v].seq \in Sent \ (dropped \cup truncated)
                  /\ v \notin queues => ring[v] = {} /\ ~Busy(v) /\ worker[v].local_lost = 0
                  /\ Marking(v) => v \in Owner)'
      <4>1. v # w => q \notin ring[v]
        BY <1>1 DEF OnePlace
      <4>2. ring'[v] \subseteq Sent' \ (dropped' \cup truncated')
        <5>1. ring[v] \subseteq Sent \ (dropped \cup truncated)
          BY DEF OnePlace
        <5>2. ring'[v] = ring[v] \ {q}
          BY <1>4, <4>1
        <5> QED
          BY <1>2, <1>3, <1>8, <5>1, <5>2
      <4>3. Busy(v)' => worker'[v].seq \in Sent' \ (dropped' \cup truncated')
        BY <1>2, <1>3, <1>6, <1>8, <2>1, <2>2 DEF OnePlace
      <4> QED
        BY <1>2, <1>4, <2>1, <2>2, <4>2, <4>3 DEF OnePlace
    <3>3. (\A v, u \in Worker :
              /\ Busy(u) => worker[u].seq \notin ring[v]
              /\ v # u => ring[v] \cap ring[u] = {}
              /\ v # u /\ Busy(v) /\ Busy(u) => worker[v].seq # worker[u].seq)'
      BY <1>1, <1>4, <1>6, <2>1, <2>2 DEF OnePlace
    <3> QED
      BY <3>1, <3>2, <3>3 DEF OnePlace
  <2>4. InHand' = InHand
    BY <2>1, <2>2 DEF InHand
  <2>5. Tracked' = Tracked
    BY <1>2, <1>3, <1>5, <1>6, <1>8, <2>4 DEF Tracked
  <2>6. Level
    BY <1>2, <2>1 DEF Level
  <2> QED
    BY <1>3, <2>3, <2>5, <2>6
<1> QED
  BY <1>1, <1>7, <1>8

\* A packet counted is tracked.
LEMMA CountInPlace ==
    ASSUME TrackerTypes, OnePlace, NEW w \in Worker, Count(w)
    PROVE  /\ OnePlace' /\ Tracked' = Tracked \cup {worker[w].seq} /\ Sent' = Sent
           /\ worker[w].seq \notin Tracked
<1>1. /\ \A v \in Worker : v # w => worker'[v] = worker[v]
      /\ worker'[w].pc = "poll" /\ worker'[w].local_lost = worker[w].local_lost
  BY DEF Count, TrackerTypes, WorkerState
<1>2. /\ worker[w].pc = "count" /\ Busy(w)
      /\ UNCHANGED <<queues, next_seq, ring, dropped, truncated, stats, resetting, stop>>
  BY DEF Count, Busy
<1>3. Sent' = Sent /\ Queued' = Queued
  BY <1>2 DEF Sent, Queued
<1>4. /\ \A v \in Worker : Busy(v)' <=> Busy(v) /\ v # w
      /\ \A v \in Worker : Marking(v)' => Marking(v)
  BY <1>1 DEF Busy, Marking
<1>5. OnePlace'
  BY <1>1, <1>2, <1>3, <1>4 DEF OnePlace
<1>6. InHand' = InHand \ {worker[w].seq} /\ worker[w].seq \in InHand
  BY <1>1, <1>2, <1>4 DEF InHand, OnePlace
<1>7. /\ worker[w].seq \in Sent /\ worker[w].seq \notin dropped \cup truncated
      /\ worker[w].seq \notin Queued
  BY <1>2 DEF OnePlace, Queued
<1> QED
  BY <1>2, <1>3, <1>5, <1>6, <1>7 DEF Tracked

\* The worker that counts a packet raises the watermark to it, if it is higher.
LEMMA CountKeepsMax ==
    ASSUME TrackerTypes, OnePlace, MaxIsHighest, NEW w \in Worker, Count(w)
    PROVE  MaxIsHighest'
<1>1. Tracked' = Tracked \cup {worker[w].seq} /\ worker[w].seq \notin Tracked
  BY CountInPlace
<1>2. /\ worker[w].pc = "count" /\ \A v \in Worker : v # w => worker'[v] = worker[v]
      /\ worker'[w].pc = "poll" /\ tracker.pkt_count \in Nat
      /\ tracker'.max_seq = tracker.max_seq /\ tracker'.pkt_count = tracker.pkt_count + 1
  BY DEF Count, TrackerTypes, WorkerState, TrackerState
<1>3. Cardinality(Tracked') = Cardinality(Tracked) + 1
  BY <1>1, TrackedIsFinite, FS_AddElement
<1> QED
  BY <1>1, <1>2, <1>3 DEF MaxIsHighest

-----------------------------------------------------------------------------
(* One queue: RealTimeExact and LossNotHidden.                             *)

\* Workers that have ended stay ended.
LEMMA ExitedStays ==
    ASSUME TrackerTypes, [TrackerNext]_trackerVars, NEW v \in Worker,
           worker[v].pc = "exited"
    PROVE  worker'[v].pc = "exited"
<1>1. CASE worker' = worker
  BY <1>1
<1>2. ASSUME NEW w \in Worker, Rx(w) PROVE worker'[v].pc = "exited"
  BY <1>2 DEF TrackerTypes, Rx, Poll, Flush, FlushTo, Cas, First, Gap, Advance, LoadMax,
              SwapMax, Count, Leave, Watermark, WatermarkMax, WatermarkCount
<1> QED
  BY <1>1, <1>2 DEF TrackerNext, Send, ResetStats, ResetTracker, Stop, trackerVars

\* Packets found missing between the last one seen and one that comes are added.
LEMMA GapIsMissing ==
    ASSUME TrackerTypes, NEW m \in Nat, NEW e \in Nat, NEW n \in Nat, m < e, e <= n,
           n \notin dropped \cup truncated, \A q \in e..(n - 1) : q \in dropped \cup truncated,
           dropped \subseteq Sent, truncated \subseteq Sent
    PROVE  Cardinality(Missing(m, n + 1)) = Cardinality(Missing(m, e)) + (n - e)
<1> DEFINE A == Missing(m, e)
<1> DEFINE B == e..(n - 1)
<1>1. A \in SUBSET Sent /\ Sent = 0..(next_seq - 1) /\ next_seq \in Nat
  BY DEF Missing, Sent, TrackerTypes
<1>2. IsFiniteSet(A) /\ Cardinality(A) \in Nat
  BY <1>1, NumbersBelow
<1>3. IsFiniteSet(B) /\ Cardinality(B) = n - e
  <2>1. e \in Int /\ n - 1 \in Int
    OBVIOUS
  <2>2. IsFiniteSet(B) /\ Cardinality(B) = IF e > n - 1 THEN 0 ELSE (n - 1) - e + 1
    BY <2>1, FS_Interval
  <2> QED
    BY <2>2
<1>4. A \cap B = {}
  BY DEF Missing
<1>5. dropped \subseteq Nat /\ truncated \subseteq Nat
  BY DEF TrackerTypes
<1>6. Missing(m, n + 1) = A \cup B
  <2>1. \A q \in Nat : q < n + 1 <=> q < e \/ q \in B \/ q = n
    OBVIOUS
  <2>2. \A q \in B : q \in Nat /\ m < q
    OBVIOUS
  <2>3. \A q \in Nat : q < e => q < n + 1
    OBVIOUS
  <2>4. B \subseteq dropped \cup truncated
    OBVIOUS
  <2> HIDE DEF B
  <2>5. ASSUME NEW q PROVE q \in Missing(m, n + 1) <=> q \in A \cup B
    <3>1. CASE q \in dropped \cup truncated
      <4>1. q \in Nat /\ q # n
        BY <1>5, <3>1
      <4> QED
        BY <2>1, <2>2, <2>3, <3>1, <4>1 DEF Missing
    <3>2. CASE q \notin dropped \cup truncated
      BY <2>4, <3>2 DEF Missing
    <3> QED
      BY <3>1, <3>2
  <2> QED
    BY <2>5, Zenon
<1>7. Cardinality(A \cup B) = Cardinality(A) + Cardinality(B)
        - Cardinality(A \cap B)
  BY <1>2, <1>3, FS_Union
<1>8. Cardinality(A \cap B) = 0
  BY <1>4, FS_EmptySet
<1> HIDE DEF A, B
<1>9. Cardinality(A \cup B) = Cardinality(A) + (n - e)
  BY <1>2, <1>3, <1>7, <1>8
<1> QED
  BY <1>6, <1>9 DEF A

\* Nothing is missing in front of the first packet.
LEMMA NothingMissing ==
    ASSUME NEW m \in Nat, dropped \subseteq Nat, truncated \subseteq Nat
    PROVE  Cardinality(Missing(m, m + 1)) = 0
<1>1. Missing(m, m + 1) = {}
  <2>1. \A q \in Nat : ~(m < q /\ q < m + 1)
    OBVIOUS
  <2> QED
    BY <2>1 DEF Missing
<1> QED
  BY <1>1, FS_EmptySet

\* Only one worker touches packets.
LEMMA OnlyOne ==
    ASSUME OnePlace, NEW w \in Worker, queues = {w}, NEW v \in Worker,
           Poll(v) \/ Cas(v) \/ First(v) \/ Gap(v) \/ Advance(v) \/ LoadMax(v) \/ SwapMax(v)
             \/ Count(v)
    PROVE  v = w
BY DEF OnePlace, Busy, Poll, Cas, First, Gap, Advance, LoadMax, SwapMax, Count

\* On a single queue the packets stay in the order in which they were sent.
LEMMA OrderKeeps ==
    ASSUME TrackerTypes, OnePlace, NEW w \in Worker, queues = {w}, InOrder(w)
    PROVE  /\ Still => InOrder(w)'
           /\ Send => InOrder(w)'
           /\ Poll(w) => InOrder(w)'
           /\ Count(w) => InOrder(w)'
<1>1. /\ Tracked \subseteq Sent /\ Sent \subseteq Nat /\ next_seq \in Nat
      /\ \A q \in Sent : q < next_seq
      /\ (Busy(w) => worker[w].seq \in Sent) /\ ring[w] \subseteq Sent
  BY TrackedIsFinite DEF OnePlace, Sent, TrackerTypes
<1>2. ASSUME Still PROVE InOrder(w)'
  <2>1. Tracked' = Tracked /\ ring' = ring /\ (Busy(w)' <=> Busy(w))
        /\ worker'[w].seq = worker[w].seq
    BY <1>2, StillKeepsTracked DEF Still
  <2> QED
    BY <2>1 DEF InOrder
<1>3. ASSUME Send PROVE InOrder(w)'
  <2>1. Tracked' = Tracked /\ (Busy(w)' <=> Busy(w)) /\ worker' = worker
    BY <1>3, SendInPlace DEF Send
  <2>2. ring'[w] \subseteq ring[w] \cup {next_seq}
    BY <1>3 DEF Send, TrackerTypes
  <2>3. \A r \in ring'[w] : r \in ring[w] \/ r = next_seq
    BY <2>2
  <2> QED
    BY <1>1, <2>1, <2>3 DEF InOrder
<1>4. ASSUME Poll(w) PROVE InOrder(w)'
  <2>1. Tracked' = Tracked
    BY <1>4, PollInPlace
  <2>2. PICK q \in ring[w] :
           /\ \A r \in ring[w] : q <= r
           /\ ring' = [ring EXCEPT ![w] = @ \ {q}]
           /\ \/ worker' = [worker EXCEPT
                      ![w].pc = IF tracker.initialized THEN "gap" ELSE "cas",
                      ![w].seq = q, ![w].local_rx = @ + 1]
              \/ worker' = [worker EXCEPT ![w].local_rx = @ + 1]
    BY <1>4 DEF Poll, Oldest
  <2>3. ring'[w] = ring[w] \ {q}
    BY <2>2 DEF TrackerTypes
  <2>4. worker'[w].seq = q \/ ~Busy(w)'
    BY <1>4, <2>2 DEF Poll, Busy, TrackerTypes, WorkerState
  <2>5. \A r \in ring'[w] : q < r
    BY <1>1, <2>2, <2>3
  <2> QED
    BY <2>1, <2>2, <2>3, <2>4, <2>5 DEF InOrder
<1>5. ASSUME Count(w) PROVE InOrder(w)'
  <2>1. Tracked' = Tracked \cup {worker[w].seq} /\ ring' = ring /\ Busy(w)
    BY <1>5, CountInPlace DEF Count, Busy
  <2>2. ~Busy(w)'
    BY <1>5 DEF Count, Busy, TrackerTypes, WorkerState
  <2> QED
    BY <2>1, <2>2 DEF InOrder
<1> QED
  BY <1>2, <1>3, <1>4, <1>5

\* What is measured stays so when the detection has not moved.
LEMMA MeasureStays ==
    ASSUME NEW w \in Worker, Measured(w), Seen(w)' = Seen(w), UpTo(w)' = UpTo(w),
           NoneExited' => NoneExited /\ Lost(w)' = Lost(w),
           \A m \in Seen(w) : Missing(m, UpTo(w))' = Missing(m, UpTo(w)),
           tracker'.initialized = tracker.initialized,
           ~tracker.initialized \/ worker[w].pc = "first" =>
              Tracked' = Tracked
              /\ worker'[w].pc \in {"poll", "cas", "watermark", "exited", "first"},
           worker'[w].pc = "first" <=> worker[w].pc = "first",
           tracker.initialized => worker'[w].pc # "cas"
    PROVE  Measured(w)'
<1>1. CASE ~tracker.initialized \/ worker[w].pc = "first"
  BY <1>1 DEF Measured
<1>2. CASE tracker.initialized /\ worker[w].pc # "first"
  <2>1. /\ UpTo(w) - 1 \in Seen(w) /\ \A q \in Seen(w) : q < UpTo(w)
        /\ NoneExited =>
             \E m \in Seen(w) : /\ \A q \in Seen(w) : m <= q
                                /\ Lost(w) = Cardinality(Missing(m, UpTo(w)))
    BY <1>2, Zenon DEF Measured
  <2>2. tracker'.initialized /\ worker'[w].pc # "first" /\ worker'[w].pc # "cas"
    BY <1>2
  <2>3. NoneExited' =>
          \E m \in Seen(w)' : /\ \A q \in Seen(w)' : m <= q
                              /\ Lost(w)' = Cardinality(Missing(m, UpTo(w))')
    BY <2>1
  <2> QED
    BY <2>1, <2>2, <2>3 DEF Measured
<1> QED
  BY <1>1, <1>2

\* A worker that has left does not come back.
LEMMA NoneExitedBefore ==
    ASSUME TrackerTypes, [TrackerNext]_trackerVars, NoneExited'
    PROVE  NoneExited
BY ExitedStays, SeqAssumption DEF NoneExited

\* A step of another worker may only add a watermark.
LEMMA OtherMeasures ==
    ASSUME TrackerTypes, OnePlace, NEW w \in Worker, queues = {w}, Measured(w),
           NEW v \in Worker, v # w, Rx(v)
    PROVE  Measured(w)'
<1>1. Flush(v) \/ Leave(v) \/ Watermark(v) \/ WatermarkMax(v) \/ WatermarkCount(v)
  BY OnlyOne DEF Rx
<1>2. Still /\ Tracked' = Tracked
  BY <1>1, StillSteps, StillKeepsTracked
<1>3. worker'[w] = worker[w] /\ tracker' = tracker
  BY <1>1 DEF TrackerTypes, Flush, FlushTo, Leave, Watermark, WatermarkMax, WatermarkCount
<1>4. NoneExited' => NoneExited
  BY NoneExitedBefore DEF TrackerNext
<1>5. NoneExited' => stats'.lost = stats.lost
  <2>1. CASE Flush(v) \/ Leave(v)
    <3>1. worker[v].local_lost = 0 /\ stats.lost \in Nat
      BY DEF OnePlace, TrackerTypes, StatsState
    <3>2. stats'.lost = stats.lost + worker[v].local_lost
      BY <2>1 DEF Flush, Leave, FlushTo
    <3> QED
      BY <3>1, <3>2
  <2>2. CASE Watermark(v) \/ WatermarkMax(v)
    BY <2>2 DEF Watermark, WatermarkMax
  <2>3. CASE WatermarkCount(v)
    <3>1. v \in Owner /\ worker'[v].pc = "exited"
      BY <2>3 DEF WatermarkCount, OnePlace, Marking, TrackerTypes, WorkerState
    <3> QED
      BY <3>1 DEF NoneExited
  <2> QED
    BY <1>1, <2>1, <2>2, <2>3
<1>6. NoneExited' => NoneExited /\ Lost(w)' = Lost(w)
  BY <1>3, <1>4, <1>5 DEF Lost
<1>7. Seen(w)' = Seen(w) /\ UpTo(w)' = UpTo(w)
  BY <1>2, <1>3 DEF Seen, UpTo
<1>8. \A m \in Seen(w) : Missing(m, UpTo(w))' = Missing(m, UpTo(w))
  BY <1>2, <1>7 DEF Missing, Still
<1>9. Measured(w)
  OBVIOUS
<1>10. /\ ~tracker.initialized \/ worker[w].pc = "first" =>
            worker[w].pc \in {"poll", "cas", "watermark", "exited", "first"}
       /\ tracker.initialized => worker[w].pc # "cas"
  BY DEF Measured
<1> QED
  BY <1>2, <1>3, <1>6, <1>7, <1>8, <1>10, MeasureStays

\* The steps of the worker itself by which the detection does not move.
LEMMA OwnMeasures ==
    ASSUME TrackerTypes, OnePlace, NEW w \in Worker, queues = {w}, Measured(w),
           \/ Flush(w) \/ Leave(w) \/ Advance(w) \/ LoadMax(w) \/ SwapMax(w)
           \/ Watermark(w) \/ WatermarkMax(w) \/ WatermarkCount(w)
    PROVE  Measured(w)'
<1>1. Still /\ Tracked' = Tracked
  BY StillSteps, StillKeepsTracked
<1>2. NoneExited' => NoneExited
  BY NoneExitedBefore DEF TrackerNext, Rx
<1>3. /\ worker \in [Worker -> WorkerState] /\ worker[w].local_lost \in Nat
      /\ stats.lost \in Nat /\ tracker \in TrackerState
  BY DEF TrackerTypes, WorkerState, StatsState
<1>4. NoneExited' => Lost(w)' = Lost(w)
  <2>1. CASE Flush(w) \/ Leave(w)
    <3>1. stats'.lost = stats.lost + worker[w].local_lost /\ worker'[w].local_lost = 0
      BY <1>3, <2>1 DEF Flush, Leave, FlushTo, WorkerState
    <3> QED
      BY <1>3, <3>1 DEF Lost
  <2>2. CASE Advance(w) \/ LoadMax(w) \/ SwapMax(w) \/ Watermark(w) \/ WatermarkMax(w)
    <3>1. stats' = stats /\ worker'[w].local_lost = worker[w].local_lost
      BY <1>3, <2>2 DEF Advance, LoadMax, SwapMax, Watermark, WatermarkMax, WorkerState
    <3> QED
      BY <3>1 DEF Lost
  <2>3. CASE WatermarkCount(w)
    <3>1. w \in Owner /\ worker'[w].pc = "exited"
      BY <1>3, <2>3 DEF WatermarkCount, OnePlace, Marking, WorkerState
    <3> QED
      BY <3>1 DEF NoneExited
  <2> QED
    BY <2>1, <2>2, <2>3
<1>5. worker'[w].seq = worker[w].seq
  BY <1>1 DEF Still
<1>6. Seen(w)' = Seen(w) /\ UpTo(w)' = UpTo(w) /\ tracker'.initialized = tracker.initialized
  <2>1. CASE Advance(w)
    <3>1. /\ worker[w].pc = "advance" /\ worker'[w].pc = "max"
          /\ tracker'.expected_seq = worker[w].seq + 1
          /\ tracker'.initialized = tracker.initialized
      BY <1>3, <2>1 DEF Advance, WorkerState, TrackerState
    <3> QED
      BY <1>1, <1>5, <3>1 DEF Seen, UpTo
  <2>2. CASE LoadMax(w) \/ SwapMax(w)
    <3>1. /\ worker[w].pc \in {"max", "swap"} /\ worker'[w].pc \in {"max", "swap", "count"}
          /\ tracker'.expected_seq = tracker.expected_seq
          /\ tracker'.initialized = tracker.initialized
      BY <1>3, <2>2 DEF LoadMax, SwapMax, WorkerState, TrackerState
    <3> QED
      BY <1>1, <1>5, <3>1 DEF Seen, UpTo
  <2>3. CASE Flush(w) \/ Leave(w) \/ Watermark(w) \/ WatermarkMax(w) \/ WatermarkCount(w)
    <3>1. /\ worker[w].pc \in {"poll", "watermark", "watermark_max", "watermark_count"}
          /\ worker'[w].pc \in {"poll", "watermark", "watermark_max", "watermark_count",
                                "exited"}
          /\ tracker' = tracker
      BY <1>3, <2>3 DEF Flush, FlushTo, Leave, Watermark, WatermarkMax, WatermarkCount,
                        WorkerState
    <3> QED
      BY <1>1, <3>1 DEF Seen, UpTo
  <2> QED
    BY <2>1, <2>2, <2>3
<1>7. \A m \in Seen(w) : Missing(m, UpTo(w))' = Missing(m, UpTo(w))
  BY <1>1, <1>6 DEF Missing, Still
<1>8. worker[w].pc # "first" /\ worker'[w].pc \notin {"first", "cas"}
  BY <1>3 DEF Flush, FlushTo, Leave, Advance, LoadMax, SwapMax, Watermark, WatermarkMax,
              WatermarkCount, WorkerState
<1>9. ~tracker.initialized => worker'[w].pc \in {"poll", "cas", "watermark", "exited", "first"}
  <2>1. ~tracker.initialized => worker[w].pc \in {"poll", "watermark"}
    <3>1. ~tracker.initialized =>
             worker[w].pc \in {"poll", "cas", "watermark", "exited", "first"}
      BY DEF Measured
    <3> QED
      BY <3>1 DEF Flush, Leave, Advance, LoadMax, SwapMax, Watermark, WatermarkMax,
                  WatermarkCount
  <2> QED
    BY <1>3, <2>1 DEF Flush, FlushTo, Leave, Advance, LoadMax, SwapMax, Watermark,
                      WatermarkMax, WatermarkCount, WorkerState
<1> QED
  BY <1>1, <1>2, <1>4, <1>6, <1>7, <1>8, <1>9, MeasureStays

\* Before the first packet is taken there is nothing.
LEMMA BeforeFirst ==
    ASSUME NEW w \in Worker, Measured(w), ~tracker.initialized \/ worker[w].pc = "first"
    PROVE  /\ Tracked = {}
           /\ NoneExited => Lost(w) = 0
           /\ worker[w].pc \in {"poll", "cas", "watermark", "exited", "first"}
           /\ worker[w].pc = "first" => tracker.initialized
BY Zenon DEF Measured

\* Numbers that are sent, or too short, after the last packet seen are not missing yet.
LEMMA SendMeasures ==
    ASSUME TrackerTypes, OnePlace, NEW w \in Worker, Measured(w), Send
    PROVE  Measured(w)'
<1>1. /\ UNCHANGED <<tracker, stats, worker, truncated>> /\ Tracked' = Tracked
      /\ dropped' \in {dropped, dropped \cup {next_seq}} /\ next_seq \in Nat
      /\ \A q \in Sent : q < next_seq
  BY SendInPlace DEF Send, TrackerTypes, Sent
<1>2. Seen(w)' = Seen(w) /\ UpTo(w)' = UpTo(w) /\ Lost(w)' = Lost(w)
  BY <1>1 DEF Seen, UpTo, Lost
<1>3. NoneExited' => NoneExited
  BY <1>1 DEF NoneExited
<1>4. Seen(w) \subseteq Sent /\ Sent \subseteq Nat
  BY TrackedIsFinite DEF Seen, OnePlace, Busy
<1>5. tracker.initialized /\ worker[w].pc # "first" =>
         \A m \in Seen(w) : Missing(m, UpTo(w))' = Missing(m, UpTo(w))
  <2>1. SUFFICES ASSUME tracker.initialized, worker[w].pc # "first"
                 PROVE  \A m \in Seen(w) : Missing(m, UpTo(w))' = Missing(m, UpTo(w))
    OBVIOUS
  <2>2. UpTo(w) - 1 \in Sent /\ UpTo(w) \in Nat
    BY <1>4, <2>1 DEF Measured, UpTo, TrackerTypes, TrackerState, WorkerState
  <2>3. ~(next_seq < UpTo(w))
    BY <1>1, <2>2
  <2> QED
    BY <1>1, <1>2, <2>3 DEF Missing
<1>6. ~tracker.initialized \/ worker[w].pc = "first" => Seen(w) = {}
  <2>1. SUFFICES ASSUME ~tracker.initialized \/ worker[w].pc = "first" PROVE Seen(w) = {}
    OBVIOUS
  <2>2. Tracked = {} /\ worker[w].pc \in {"poll", "cas", "watermark", "exited", "first"}
    BY <2>1, BeforeFirst
  <2> QED
    BY <2>2 DEF Seen
<1>7. /\ ~tracker.initialized \/ worker[w].pc = "first" =>
            worker[w].pc \in {"poll", "cas", "watermark", "exited", "first"}
      /\ tracker.initialized => worker[w].pc # "cas"
  BY DEF Measured
<1> QED
  BY <1>1, <1>2, <1>3, <1>5, <1>6, <1>7, MeasureStays

\* A worker that takes a packet has still measured the gaps before it.
LEMMA PollMeasures ==
    ASSUME TrackerTypes, OnePlace, NEW w \in Worker, Measured(w), InOrder(w), Poll(w)
    PROVE  Measured(w)'
<1>1. PICK q \in ring[w] :
             \/ /\ worker' = [worker EXCEPT
                      ![w].pc = IF tracker.initialized THEN "gap" ELSE "cas",
                      ![w].seq = q, ![w].local_rx = @ + 1]
                /\ UNCHANGED truncated
             \/ /\ truncated' = truncated \cup {q}
                /\ worker' = [worker EXCEPT ![w].local_rx = @ + 1]
  BY DEF Poll
<1>2. UNCHANGED <<tracker, stats, dropped>> /\ Tracked' = Tracked /\ worker[w].pc = "poll"
  BY PollInPlace DEF Poll
<1>3. worker \in [Worker -> WorkerState] /\ q \in Nat /\ tracker.initialized \in BOOLEAN
  BY DEF TrackerTypes, TrackerState
<1>4. /\ worker'[w].local_lost = worker[w].local_lost
      /\ \/ worker'[w].pc = "gap" /\ tracker.initialized
         \/ worker'[w].pc = "cas" /\ ~tracker.initialized
         \/ worker'[w].pc = "poll"
  BY <1>1, <1>2, <1>3 DEF WorkerState
<1>5. Seen(w)' = Seen(w) /\ UpTo(w)' = UpTo(w) /\ Lost(w)' = Lost(w) /\ Seen(w) = Tracked
  BY <1>2, <1>4 DEF Seen, UpTo, Lost
<1>6. NoneExited' => NoneExited
  BY NoneExitedBefore DEF TrackerNext, Rx
<1>7. \A m \in Seen(w) : Missing(m, UpTo(w))' = Missing(m, UpTo(w))
  <2>1. CASE Tracked = {}
    BY <1>5, <2>1
  <2>2. CASE Tracked # {}
    <3>1. tracker.initialized
      BY <1>2, <2>2, BeforeFirst
    <3>2. UpTo(w) - 1 \in Tracked /\ UpTo(w) \in Nat
      BY <1>2, <1>5, <3>1 DEF Measured, UpTo, TrackerTypes, TrackerState
    <3>3. ~(q < UpTo(w))
      BY <1>3, <3>2 DEF InOrder
    <3> QED
      BY <1>1, <1>2, <1>5, <3>3 DEF Missing
  <2> QED
    BY <2>1, <2>2
<1>8. worker'[w].pc # "first" /\ worker[w].pc # "first"
      /\ (tracker.initialized => worker'[w].pc # "cas")
      /\ (~tracker.initialized =>
            worker'[w].pc \in {"poll", "cas", "watermark", "exited", "first"})
  BY <1>2, <1>4
<1> QED
  BY <1>2, <1>5, <1>6, <1>7, <1>8, MeasureStays

\* A worker that counts a packet adds the gap between it and the expected number.
LEMMA CountMeasures ==
    ASSUME TrackerTypes, OnePlace, NEW w \in Worker, Measured(w), Count(w)
    PROVE  Measured(w)'
<1>1. /\ Tracked' = Tracked \cup {worker[w].seq}
      /\ UNCHANGED <<stats, dropped, truncated>>
      /\ tracker'.initialized = tracker.initialized
      /\ tracker'.expected_seq = tracker.expected_seq
      /\ worker[w].pc = "count" /\ worker'[w].pc = "poll"
      /\ worker'[w].local_lost = worker[w].local_lost
  BY CountInPlace DEF Count, TrackerTypes, WorkerState, TrackerState
<1>2. Seen(w)' = Seen(w) /\ UpTo(w)' = UpTo(w) /\ Lost(w)' = Lost(w)
  BY <1>1 DEF Seen, UpTo, Lost
<1>3. NoneExited' => NoneExited
  BY NoneExitedBefore DEF TrackerNext, Rx
<1>4. \A m \in Seen(w) : Missing(m, UpTo(w))' = Missing(m, UpTo(w))
  BY <1>1, <1>2 DEF Missing
<1>5. tracker.initialized
  BY <1>1 DEF Measured
<1> QED
  BY <1>1, <1>2, <1>3, <1>4, <1>5, MeasureStays

\* The first packet of the VL-ID.
LEMMA FirstMeasures ==
    ASSUME TrackerTypes, OnePlace, NEW w \in Worker, Measured(w), Cas(w) \/ First(w)
    PROVE  Measured(w)'
<1>1. /\ worker \in [Worker -> WorkerState] /\ tracker \in TrackerState
      /\ dropped \subseteq Nat /\ truncated \subseteq Nat
      /\ worker[w].seq \in Nat /\ tracker.initialized \in BOOLEAN
  BY DEF TrackerTypes, WorkerState, TrackerState
<1>2. Still /\ Tracked' = Tracked
  BY StillSteps, StillKeepsTracked
<1>3. NoneExited' => NoneExited
  BY NoneExitedBefore DEF TrackerNext, Rx
<1>4. UNCHANGED stats /\ worker'[w].local_lost = worker[w].local_lost
      /\ worker'[w].seq = worker[w].seq
  BY <1>1 DEF Cas, First, WorkerState
<1>5. Lost(w)' = Lost(w)
  BY <1>4 DEF Lost
<1>6. CASE Cas(w)
  <2>1. worker[w].pc = "cas" /\ ~tracker.initialized
    BY <1>1, <1>6 DEF Cas, Measured
  <2>2. worker'[w].pc = "first" /\ tracker'.initialized
    BY <1>1, <1>6, <2>1 DEF Cas, WorkerState, TrackerState
  <2> QED
    BY <1>2, <1>3, <1>5, <2>1, <2>2 DEF Measured
<1>7. CASE First(w)
  <2>1. /\ worker[w].pc = "first" /\ worker'[w].pc = "max"
        /\ tracker'.initialized = tracker.initialized
        /\ tracker'.expected_seq = worker[w].seq + 1
    BY <1>1, <1>7 DEF First, WorkerState, TrackerState
  <2>2. tracker.initialized /\ Tracked = {} /\ (NoneExited => Lost(w) = 0)
    BY <2>1, BeforeFirst
  <2>3. Seen(w)' = {worker[w].seq} /\ UpTo(w)' = worker[w].seq + 1
    BY <1>2, <1>4, <2>1, <2>2 DEF Seen, UpTo
  <2>4. Cardinality(Missing(worker[w].seq, worker[w].seq + 1)) = 0
    BY <1>1, NothingMissing
  <2>5. Missing(worker[w].seq, UpTo(w))' = Missing(worker[w].seq, worker[w].seq + 1)
    BY <1>2, <1>4, <2>3 DEF Missing, Still
  <2>6. NoneExited' => Lost(w)' = Cardinality(Missing(worker[w].seq, UpTo(w))')
    BY <1>3, <1>5, <2>2, <2>4, <2>5
  <2>7. UpTo(w)' - 1 \in Seen(w)' /\ \A q \in Seen(w)' : q < UpTo(w)'
    BY <1>1, <2>3
  <2>8. NoneExited' =>
          \E m \in Seen(w)' : /\ \A q \in Seen(w)' : m <= q
                              /\ Lost(w)' = Cardinality(Missing(m, UpTo(w))')
    BY <1>1, <1>4, <2>3, <2>6
  <2> QED
    BY <2>1, <2>2, <2>7, <2>8 DEF Measured
<1> QED
  BY <1>6, <1>7

\* The next packet in line, with the gap before it.
LEMMA GapMeasures ==
    ASSUME TrackerTypes, OnePlace, NEW w \in Worker, queues = {w}, Measured(w), InOrder(w),
           Gap(w)
    PROVE  Measured(w)'
<1> DEFINE seq == worker[w].seq
<1> DEFINE e == tracker.expected_seq
<1>1. /\ worker \in [Worker -> WorkerState] /\ tracker \in TrackerState
      /\ dropped \subseteq Sent /\ truncated \subseteq Sent
      /\ seq \in Nat /\ e \in Nat /\ worker[w].local_lost \in Nat /\ stats.lost \in Nat
  BY DEF TrackerTypes, WorkerState, TrackerState, StatsState, OnePlace
<1>2. Still /\ Tracked' = Tracked
  BY StillSteps, StillKeepsTracked
<1>3. NoneExited' => NoneExited
  BY NoneExitedBefore DEF TrackerNext, Rx
<1>4. worker[w].pc = "gap" /\ Busy(w) /\ tracker' = tracker /\ stats' = stats
  BY DEF Gap, Busy
<1>5. tracker.initialized
  BY <1>4, BeforeFirst
<1>6. Seen(w) = Tracked /\ UpTo(w) = e
  BY <1>4 DEF Seen, UpTo
<1>7. /\ e - 1 \in Tracked /\ (\A q \in Tracked : q < e)
      /\ NoneExited =>
           \E m \in Tracked : /\ \A q \in Tracked : m <= q
                              /\ Lost(w) = Cardinality(Missing(m, e))
  <2>1. /\ UpTo(w) - 1 \in Seen(w) /\ \A q \in Seen(w) : q < UpTo(w)
        /\ NoneExited =>
             \E m \in Seen(w) : /\ \A q \in Seen(w) : m <= q
                                /\ Lost(w) = Cardinality(Missing(m, UpTo(w)))
    BY <1>4, <1>5, Zenon DEF Measured
  <2> QED
    BY <1>6, <2>1
<1>8. Tracked \subseteq Sent /\ Sent = 0..(next_seq - 1) /\ next_seq \in Nat
  BY TrackedIsFinite DEF Sent, TrackerTypes
<1>9. e - 1 < seq /\ seq \in Sent /\ seq \notin dropped \cup truncated
  BY <1>4, <1>7 DEF InOrder, OnePlace
<1>10. e <= seq
  BY <1>1, <1>9
<1>11. worker'[w].pc = "advance" /\ worker'[w].seq = seq
       /\ worker'[w].local_lost = worker[w].local_lost + (seq - e)
  BY <1>1, <1>10 DEF Gap, WorkerState
<1>12. Seen(w)' = Tracked \cup {seq} /\ UpTo(w)' = seq + 1
  BY <1>2, <1>11 DEF Seen, UpTo
<1>13. Lost(w)' = Lost(w) + (seq - e)
  BY <1>1, <1>4, <1>11 DEF Lost
<1>14. ASSUME NEW q \in e..(seq - 1) PROVE q \in dropped \cup truncated
  <2>1. q \in Nat /\ e <= q /\ q < seq
    BY <1>1
  <2>2. q \in Sent
    BY <1>8, <1>9, <2>1
  <2>3. q \notin Tracked
    BY <1>1, <1>7, <2>1
  <2>4. ASSUME NEW v \in Worker PROVE q \notin ring[v] /\ (Busy(v) => worker[v].seq # q)
    <3>1. CASE v = w
      <4>1. \A r \in ring[w] : seq < r /\ r \in Nat
        BY <1>4 DEF InOrder, TrackerTypes
      <4>2. q \notin ring[w]
        BY <1>1, <2>1, <4>1
      <4>3. seq # q
        BY <1>1, <2>1
      <4> QED
        BY <3>1, <4>2, <4>3
    <3>2. CASE v # w
      BY <3>2 DEF OnePlace
    <3> QED
      BY <3>1, <3>2
  <2> QED
    BY <2>2, <2>3, <2>4, TrackedIs
<1>15. ASSUME NEW m \in Tracked
       PROVE  Cardinality(Missing(m, seq + 1)) = Cardinality(Missing(m, e)) + (seq - e)
  <2>1. m \in Nat /\ m < e
    BY <1>7, <1>8
  <2> HIDE DEF seq, e
  <2> QED
    BY <1>1, <1>9, <1>10, <1>14, <2>1, GapIsMissing
<1>16. \A m : Missing(m, UpTo(w))' = Missing(m, seq + 1)
  BY <1>2, <1>12 DEF Missing, Still
<1>17. NoneExited' =>
         \E m \in Seen(w)' : /\ \A q \in Seen(w)' : m <= q
                             /\ Lost(w)' = Cardinality(Missing(m, UpTo(w))')
  <2>1. SUFFICES ASSUME NoneExited'
                 PROVE  \E m \in Seen(w)' : /\ \A q \in Seen(w)' : m <= q
                                            /\ Lost(w)' = Cardinality(Missing(m, UpTo(w))')
    OBVIOUS
  <2>2. PICK m \in Tracked : /\ \A q \in Tracked : m <= q
                             /\ Lost(w) = Cardinality(Missing(m, e))
    BY <1>3, <1>7, <2>1
  <2>3. m <= seq
    BY <1>4, <1>8, <1>1, <2>2 DEF InOrder
  <2>4. Lost(w)' = Cardinality(Missing(m, UpTo(w))')
    BY <1>13, <1>15, <1>16, <2>2
  <2> QED
    BY <1>12, <2>2, <2>3, <2>4
<1>18. UpTo(w)' - 1 \in Seen(w)' /\ \A q \in Seen(w)' : q < UpTo(w)'
  <2>1. \A q \in Tracked : q < seq + 1
    BY <1>1, <1>4, <1>8 DEF InOrder
  <2> QED
    BY <1>1, <1>12, <2>1
<1> QED
  BY <1>4, <1>5, <1>11, <1>17, <1>18 DEF Measured

\* A step that adds only losses keeps the final count covering.
LEMMA MarkStays ==
    ASSUME NEW w \in Worker, Marked(w), worker'[w] = worker[w],
           tracker'.max_seq = tracker.max_seq, tracker'.pkt_count = tracker.pkt_count,
           Tracked' = Tracked, TrackerTypes, stats'.lost \in Nat, stats'.lost >= stats.lost
    PROVE  Marked(w)'
<1>1. stats.lost \in Nat /\ tracker.max_seq \in Nat /\ tracker.pkt_count \in Nat
  BY DEF TrackerTypes, StatsState, TrackerState
<1> QED
  BY <1>1 DEF Marked

\* The watermark of the queue's own worker.
LEMMA MarkKeeps ==
    ASSUME TrackerTypes, OnePlace, NEW w \in Worker, queues = {w}, w \in Owner,
           Measured(w), Marked(w), NEW v \in Worker, Rx(v)
    PROVE  Marked(w)'
<1>1. /\ worker \in [Worker -> WorkerState] /\ stats.lost \in Nat
      /\ tracker.max_seq \in Nat /\ tracker.pkt_count \in Nat
      /\ \A u \in Worker : worker[u].local_lost \in Nat /\ worker[u].seen \in Nat
  BY DEF TrackerTypes, WorkerState, StatsState, TrackerState
<1>2. CASE v # w
  <2>1. Flush(v) \/ Leave(v) \/ Watermark(v) \/ WatermarkMax(v) \/ WatermarkCount(v)
    BY <1>2, OnlyOne DEF Rx
  <2>2. worker'[w] = worker[w] /\ tracker' = tracker /\ Tracked' = Tracked
    BY <1>1, <1>2, <2>1, StillSteps, StillKeepsTracked
       DEF Flush, FlushTo, Leave, Watermark, WatermarkMax, WatermarkCount
  <2>3. stats'.lost \in Nat /\ stats'.lost >= stats.lost
    <3>1. CASE Flush(v) \/ Leave(v)
      BY <1>1, <3>1 DEF Flush, Leave, FlushTo
    <3>2. CASE Watermark(v) \/ WatermarkMax(v)
      BY <1>1, <3>2 DEF Watermark, WatermarkMax
    <3>3. CASE WatermarkCount(v)
      BY <1>1, <3>3 DEF WatermarkCount, TrackerTypes, StatsState
    <3> QED
      BY <2>1, <3>1, <3>2, <3>3
  <2> QED
    BY <2>2, <2>3, MarkStays
<1>3. CASE v = w /\ Watermark(w)
  <2>1. CASE tracker.initialized
    <3>1. worker'[w].pc = "watermark_max"
      BY <1>1, <1>3, <2>1 DEF Watermark, WorkerState
    <3> QED
      BY <3>1 DEF Marked
  <2>2. CASE ~tracker.initialized
    <3>1. worker'[w].pc = "exited"
      BY <1>1, <1>3, <2>2 DEF Watermark, WorkerState
    <3>2. Tracked' = Tracked
      BY <1>3, StillSteps, StillKeepsTracked
    <3>3. Tracked = {}
      BY <2>2, BeforeFirst
    <3> QED
      BY <3>1, <3>2, <3>3 DEF Marked
  <2> QED
    BY <2>1, <2>2
<1>4. CASE v = w /\ WatermarkMax(w)
  <2>1. /\ worker'[w].pc = "watermark_count" /\ worker'[w].seen = tracker.max_seq + 1
        /\ tracker' = tracker
    BY <1>1, <1>4 DEF WatermarkMax, WorkerState
  <2> QED
    BY <2>1 DEF Marked
<1>5. CASE v = w /\ WatermarkCount(w)
  <2>1. /\ worker[w].pc = "watermark_count" /\ worker'[w].pc = "exited"
        /\ tracker' = tracker
        /\ stats'.lost = IF worker[w].seen > tracker.pkt_count
                         THEN stats.lost + worker[w].seen - tracker.pkt_count
                         ELSE stats.lost
    BY <1>1, <1>5 DEF WatermarkCount, WorkerState, TrackerTypes, StatsState
  <2>2. worker[w].seen = tracker.max_seq + 1
    BY <2>1 DEF Marked
  <2>3. stats'.lost + tracker.pkt_count >= tracker.max_seq + 1
    BY <1>1, <2>1, <2>2
  <2> QED
    BY <2>1, <2>3 DEF Marked
<1>6. CASE v = w /\ ~(Watermark(w) \/ WatermarkMax(w) \/ WatermarkCount(w))
  <2>1. worker'[w].pc \notin {"watermark_count", "exited"}
    <3>1. CASE Poll(w)
      BY <1>1, <3>1 DEF Poll, WorkerState
    <3>2. CASE Flush(w) \/ Leave(w)
      BY <1>1, <3>2 DEF Flush, FlushTo, Leave, WorkerState
    <3>3. CASE Cas(w) \/ First(w) \/ Gap(w) \/ Advance(w) \/ LoadMax(w) \/ SwapMax(w)
      BY <1>1, <3>3 DEF Cas, First, Gap, Advance, LoadMax, SwapMax, WorkerState
    <3>4. CASE Count(w)
      BY <1>1, <3>4 DEF Count, WorkerState
    <3> QED
      BY <1>6, <3>1, <3>2, <3>3, <3>4 DEF Rx
  <2> QED
    BY <2>1 DEF Marked
<1> QED
  BY <1>2, <1>3, <1>4, <1>5, <1>6

-----------------------------------------------------------------------------
(* The invariant of the tracker.                                           *)

\* The invariant of the tracker holds at the start.
LEMMA TrackerInvInit == TrackerInit => TrackerInv
<1> SUFFICES ASSUME TrackerInit PROVE TrackerInv
  OBVIOUS
<1>1. TrackerTypes
  BY TypesInit
<1>2. Sent = {} /\ Tracked = {}
  BY DEF TrackerInit, Sent, Tracked
<1>3. \A w \in Worker : /\ ring[w] = {} /\ worker[w].pc = "poll" /\ ~Busy(w) /\ ~Marking(w)
                        /\ worker[w].local_lost = 0
  BY DEF TrackerInit, Busy, Marking
<1>4. /\ dropped = {} /\ truncated = {} /\ stats.lost = 0 /\ tracker.pkt_count = 0
      /\ tracker.max_seq = 0 /\ tracker.initialized = FALSE
  BY DEF TrackerInit
<1>5. OnePlace
  BY <1>3, <1>4 DEF OnePlace
<1>6. MaxIsHighest
  BY <1>2, <1>3, <1>4, FS_EmptySet DEF MaxIsHighest
<1>7. ASSUME NEW w \in Worker PROVE InOrder(w) /\ Measured(w) /\ Marked(w)
  <2>1. Lost(w) = 0
    BY <1>3, <1>4 DEF Lost
  <2> QED
    BY <1>2, <1>3, <1>4, <2>1 DEF InOrder, Measured, Marked
<1> QED
  BY <1>1, <1>5, <1>6, <1>7 DEF TrackerInv

\* Every step keeps the invariant of the tracker.
LEMMA TrackerInvStep == TrackerInv /\ [TrackerNext]_trackerVars => TrackerInv'
<1> SUFFICES ASSUME TrackerInv, [TrackerNext]_trackerVars PROVE TrackerInv'
  OBVIOUS
<1>1. TrackerTypes /\ OnePlace /\ TrackerTypes'
  BY TypesStep DEF TrackerInv
<1>2. CASE ResetStats \/ ResetTracker
  <2>1. ~BeforeReset'
    BY <1>2 DEF ResetStats, ResetTracker, BeforeReset
  <2>2. UNCHANGED <<queues, next_seq, ring, dropped, truncated, worker>>
    BY <1>2 DEF ResetStats, ResetTracker
  <2>3. Still /\ InTurn
    BY <1>1, <2>2 DEF Still, InTurn, Busy, Marking, OnePlace
  <2>4. OnePlace'
    BY <1>1, <2>3, StillInPlace
  <2> QED
    BY <1>1, <2>1, <2>4 DEF TrackerInv
<1>3. CASE Stop \/ UNCHANGED trackerVars
  <2>1. UNCHANGED <<queues, next_seq, ring, dropped, truncated, tracker, stats, worker,
                    resetting>>
    BY <1>3 DEF Stop, trackerVars
  <2>2. Still /\ InTurn /\ Level
    BY <1>1, <2>1 DEF Still, InTurn, Level, Busy, Marking, OnePlace
  <2>3. OnePlace' /\ Tracked' = Tracked
    BY <1>1, <2>2, StillInPlace, StillKeepsTracked
  <2>4. BeforeReset' => BeforeReset
    BY <2>1 DEF BeforeReset
  <2>5. BeforeReset => MaxIsHighest'
    BY <2>2, LevelKeepsMax DEF TrackerInv
  <2>6. ASSUME BeforeReset, NEW w \in Worker, queues = {w}
        PROVE  InOrder(w)' /\ Measured(w)' /\ (w \in Owner => Marked(w)')
    <3>1. InOrder(w) /\ Measured(w) /\ (w \in Owner => Marked(w))
      BY <2>6 DEF TrackerInv
    <3>2. InOrder(w)'
      BY <1>1, <2>2, <2>6, <3>1, OrderKeeps
    <3>3. Seen(w)' = Seen(w) /\ UpTo(w)' = UpTo(w) /\ Lost(w)' = Lost(w)
          /\ (NoneExited' <=> NoneExited)
      BY <2>1, <2>3 DEF Seen, UpTo, Lost, NoneExited
    <3>4. \A m \in Seen(w) : Missing(m, UpTo(w))' = Missing(m, UpTo(w))
      BY <2>1, <3>3 DEF Missing
    <3>5. /\ ~tracker.initialized \/ worker[w].pc = "first" =>
                worker[w].pc \in {"poll", "cas", "watermark", "exited", "first"}
          /\ tracker.initialized => worker[w].pc # "cas"
      BY <3>1 DEF Measured
    <3>6. Measured(w)'
      BY <2>1, <2>3, <3>1, <3>3, <3>4, <3>5, MeasureStays
    <3>7. Marked(w) => Marked(w)'
      BY <2>1, <2>3 DEF Marked
    <3> QED
      BY <3>1, <3>2, <3>6, <3>7
  <2> QED
    BY <1>1, <2>1, <2>3, <2>4, <2>5, <2>6 DEF TrackerInv
<1>4. CASE Send
  <2>1. UNCHANGED <<queues, tracker, stats, worker, resetting>>
    BY <1>4 DEF Send
  <2>2. OnePlace' /\ Tracked' = Tracked /\ Level
    BY <1>1, <1>4, SendInPlace
  <2>3. BeforeReset' => BeforeReset
    BY <2>1 DEF BeforeReset
  <2>4. BeforeReset => MaxIsHighest'
    BY <2>1, <2>2 DEF MaxIsHighest, TrackerInv
  <2>5. ASSUME BeforeReset, NEW w \in Worker, queues = {w}
        PROVE  InOrder(w)' /\ Measured(w)' /\ (w \in Owner => Marked(w)')
    <3>1. InOrder(w) /\ Measured(w) /\ (w \in Owner => Marked(w))
      BY <2>5 DEF TrackerInv
    <3>2. Marked(w) => Marked(w)'
      BY <2>1, <2>2 DEF Marked
    <3> QED
      BY <1>1, <1>4, <2>5, <3>1, <3>2, OrderKeeps, SendMeasures
  <2> QED
    BY <1>1, <2>1, <2>2, <2>3, <2>4, <2>5 DEF TrackerInv
<1>5. ASSUME NEW v \in Worker, Rx(v) PROVE TrackerInv'
  <2>1. UNCHANGED <<queues, resetting>> /\ (BeforeReset' => BeforeReset)
    BY <1>5 DEF Rx, Poll, Flush, Cas, First, Gap, Advance, LoadMax, SwapMax, Count, Leave,
                Watermark, WatermarkMax, WatermarkCount, BeforeReset
  <2>2. OnePlace'
    BY <1>1, <1>5, StillSteps, StillInPlace, PollInPlace, CountInPlace DEF Rx
  <2>3. ASSUME BeforeReset PROVE MaxIsHighest'
    <3>1. MaxIsHighest
      BY <2>3 DEF TrackerInv
    <3>2. CASE Poll(v)
      <4>1. Tracked' = Tracked /\ Level
        BY <1>1, <3>2, PollInPlace
      <4>2. \A u \in Worker : worker'[u].pc = "count" \/ worker'[u].pc = "swap" =>
                                 worker'[u].seq = worker[u].seq
        BY <1>1, <3>2 DEF Poll, TrackerTypes, WorkerState
      <4>3. \A u \in Worker : worker[u].pc = "count" => worker'[u].seq = worker[u].seq
        BY <4>1, <4>2 DEF Level
      <4> QED
        BY <3>1, <4>1, <4>2, <4>3 DEF MaxIsHighest, Level
    <3>3. CASE LoadMax(v) \/ SwapMax(v)
      BY <1>1, <3>1, <3>3, MaxLoopKeeps
    <3>4. CASE Count(v)
      BY <1>1, <3>1, <3>4, CountKeepsMax
    <3>5. CASE \/ Flush(v) \/ Cas(v) \/ First(v) \/ Gap(v) \/ Advance(v) \/ Leave(v)
               \/ Watermark(v) \/ WatermarkMax(v) \/ WatermarkCount(v)
      BY <1>1, <3>1, <3>5, LevelSteps, StillSteps, LevelKeepsMax
    <3> QED
      BY <1>5, <3>2, <3>3, <3>4, <3>5 DEF Rx
  <2>4. ASSUME BeforeReset, NEW w \in Worker, queues = {w}
        PROVE  InOrder(w)' /\ Measured(w)' /\ (w \in Owner => Marked(w)')
    <3>1. InOrder(w) /\ Measured(w) /\ (w \in Owner => Marked(w))
      BY <2>4 DEF TrackerInv
    <3>2. w \in Owner => Marked(w)'
      BY <1>1, <1>5, <2>4, <3>1, MarkKeeps
    <3>3. CASE v # w
      <4>1. Still
        BY <1>1, <1>5, <2>4, <3>3, OnlyOne, StillSteps DEF Rx
      <4> QED
        BY <1>1, <1>5, <2>4, <3>1, <3>2, <3>3, <4>1, OrderKeeps, OtherMeasures
    <3>4. CASE v = w
      <4>1. InOrder(w)'
        BY <1>1, <1>5, <2>4, <3>1, <3>4, OrderKeeps, StillSteps DEF Rx
      <4>2. Measured(w)'
        BY <1>1, <1>5, <2>4, <3>1, <3>4, OwnMeasures, PollMeasures, CountMeasures,
           FirstMeasures, GapMeasures DEF Rx
      <4> QED
        BY <3>2, <4>1, <4>2
    <3> QED
      BY <3>3, <3>4
  <2> QED
    BY <1>1, <2>1, <2>2, <2>3, <2>4 DEF TrackerInv
<1> QED
  BY <1>2, <1>3, <1>4, <1>5 DEF TrackerNext

\* With several queues the watermark is exact.
LEMMA WatermarkIsExact == TrackerInv => WatermarkExact
<1> SUFFICES ASSUME TrackerInv, BeforeReset, InHand = {}
             PROVE  /\ tracker.pkt_count = Cardinality(Tracked)
                    /\ Tracked # {} => tracker.max_seq = Max(Tracked)
  BY DEF WatermarkExact
<1>1. MaxIsHighest /\ Tracked \in SUBSET Nat
  BY TrackedIsFinite DEF TrackerInv
<1>2. \A w \in Worker : ~Busy(w)
  BY DEF InHand
<1>3. \A w \in Worker : worker[w].pc # "count"
  BY <1>2 DEF Busy
<1>4. tracker.max_seq = 0 \/ tracker.max_seq \in Tracked
  BY <1>1, <1>3 DEF MaxIsHighest
<1>5. ASSUME Tracked # {} PROVE tracker.max_seq = Max(Tracked)
  <2>1. tracker.max_seq \in Tracked
    <3>1. CASE tracker.max_seq = 0
      <4>1. PICK q \in Tracked : TRUE
        BY <1>5
      <4>2. q \in Nat /\ q <= 0
        BY <1>1, <3>1, <4>1 DEF MaxIsHighest
      <4> QED
        BY <3>1, <4>1, <4>2
    <3> QED
      BY <1>4, <3>1
  <2>2. \A q \in Tracked : q <= tracker.max_seq
    BY <1>1 DEF MaxIsHighest
  <2> QED
    BY <1>1, <2>1, <2>2, MaxIs
<1> QED
  BY <1>1, <1>5 DEF MaxIsHighest

\* With a single queue the losses are exact while the worker runs.
LEMMA RealTimeIsExact == TrackerInv => RealTimeExact
<1> SUFFICES ASSUME TrackerInv, BeforeReset, NEW w \in Worker, queues = {w},
                    \A o \in Owner : worker[o].pc # "exited",
                    worker[w].pc = "poll", Tracked # {}
             PROVE  /\ tracker.expected_seq = Max(Tracked) + 1
                    /\ stats.lost + worker[w].local_lost
                         = Cardinality({q \in dropped \cup truncated :
                                          Min(Tracked) < q /\ q < Max(Tracked)})
  BY DEF RealTimeExact
<1> DEFINE e == tracker.expected_seq
<1>1. /\ Measured(w) /\ Tracked \in SUBSET Nat /\ e \in Nat /\ OnePlace
      /\ dropped \subseteq Nat /\ truncated \subseteq Nat
  BY TrackedIsFinite DEF TrackerInv, TrackerTypes, TrackerState
<1>2. tracker.initialized
  BY <1>1, BeforeFirst
<1>3. Seen(w) = Tracked /\ UpTo(w) = e
  BY DEF Seen, UpTo
<1>4. NoneExited
  BY DEF NoneExited
<1>5. /\ UpTo(w) - 1 \in Seen(w) /\ \A q \in Seen(w) : q < UpTo(w)
      /\ NoneExited =>
           \E m \in Seen(w) : /\ \A q \in Seen(w) : m <= q
                              /\ Lost(w) = Cardinality(Missing(m, UpTo(w)))
  <2>1. worker[w].pc # "first"
    OBVIOUS
  <2> QED
    BY <1>1, <1>2, <2>1, Zenon DEF Measured
<1>6. PICK m \in Tracked : /\ \A q \in Tracked : m <= q
                           /\ Lost(w) = Cardinality(Missing(m, e))
  BY <1>3, <1>4, <1>5
<1>7. Max(Tracked) = e - 1
  <2>1. e - 1 \in Tracked /\ \A q \in Tracked : q <= e - 1
    BY <1>1, <1>3, <1>5
  <2> HIDE DEF e
  <2> QED
    BY <1>1, <2>1, MaxIs
<1>8. Min(Tracked) = m
  BY <1>1, <1>6, MinIs
<1>9. Missing(m, e) = {q \in dropped \cup truncated :
                         Min(Tracked) < q /\ q < Max(Tracked)}
  <2>1. ASSUME NEW q \in dropped \cup truncated PROVE q < e <=> q < e - 1
    <3>1. q \notin Tracked /\ q \in Nat
      BY <1>1, TrackedIs
    <3>2. e - 1 \in Tracked
      BY <1>3, <1>5
    <3>3. q # e - 1
      BY <3>1, <3>2
    <3> QED
      BY <1>1, <3>1, <3>3
  <2> HIDE DEF e
  <2> QED
    BY <1>7, <1>8, <2>1 DEF Missing
<1> QED
  BY <1>1, <1>6, <1>7, <1>9 DEF Lost

\* With a single queue the final count covers what is missing.
LEMMA LossIsNotHidden == TrackerInv => LossNotHidden
<1> SUFFICES ASSUME TrackerInv, BeforeReset, Tracked # {},
                    \A w \in Worker : worker[w].pc = "exited",
                    NEW o \in Owner, queues = {o}
             PROVE  stats.lost >= Cardinality(0..Max(Tracked) \ Tracked)
  BY DEF LossNotHidden
<1>1. InHand = {}
  BY DEF InHand, Busy
<1>2. tracker.pkt_count = Cardinality(Tracked) /\ tracker.max_seq = Max(Tracked)
  BY <1>1, WatermarkIsExact DEF WatermarkExact
<1>3. /\ IsFiniteSet(Tracked) /\ Cardinality(Tracked) \in Nat /\ Tracked \subseteq Nat
      /\ tracker.max_seq \in Nat /\ stats.lost \in Nat /\ MaxIsHighest
  BY TrackedIsFinite DEF TrackerInv, TrackerTypes, TrackerState, StatsState
<1>4. o \in Worker
  BY SeqAssumption
<1>5. stats.lost + tracker.pkt_count >= tracker.max_seq + 1
  BY <1>4 DEF TrackerInv, Marked
<1>6. PICK top \in Nat : top = tracker.max_seq
  BY <1>3
<1>7. PICK B : B = 0..top
  OBVIOUS
<1>8. IsFiniteSet(B) /\ Cardinality(B) = top + 1
  <2>1. 0 \in Int /\ top \in Int
    OBVIOUS
  <2>2. IsFiniteSet(B) /\ Cardinality(B) = IF 0 > top THEN 0 ELSE top - 0 + 1
    BY <1>7, <2>1, FS_Interval
  <2> QED
    BY <2>2
<1>9. B \cap Tracked = Tracked
  <2>1. ASSUME NEW q \in Tracked PROVE q \in B
    BY <1>3, <1>6, <1>7 DEF MaxIsHighest
  <2> QED
    BY <2>1
<1>10. 0..Max(Tracked) \ Tracked = B \ Tracked
  BY <1>2, <1>6, <1>7
<1>11. Cardinality(B \ Tracked) = Cardinality(B) - Cardinality(B \cap Tracked)
  BY <1>8, FS_Difference
<1>12. Cardinality(B \ Tracked) = top + 1 - tracker.pkt_count
  <2>1. Cardinality(B \cap Tracked) = tracker.pkt_count
    BY <1>2, <1>9, Zenon
  <2>2. Cardinality(B \ Tracked) = Cardinality(B) - tracker.pkt_count
    BY <1>11, <2>1, Zenon
  <2>3. tracker.pkt_count \in Nat
    BY <1>2, <1>3
  <2>4. Cardinality(B) - tracker.pkt_count = (top + 1) - tracker.pkt_count
    BY <1>8, Zenon
  <2>5. (top + 1) - tracker.pkt_count = top + 1 - tracker.pkt_count
    BY <2>3
  <2> QED
    BY <2>2, <2>4, <2>5, Zenon
<1>13. stats.lost >= top + 1 - tracker.pkt_count
  BY <1>2, <1>3, <1>5, <1>6
<1> QED
  BY <1>10, <1>12, <1>13

\* The tracker keeps its invariant in a DTN test.
LEMMA TrackerInvAlways == TestSpec => []TrackerInv
<1>1. TestInit => TrackerInv
  BY TrackerInvInit DEF TestInit
<1>2. TrackerInv /\ [TestNext]_testVars => TrackerInv'
  <2>1. [TestNext]_testVars => [TrackerNext]_trackerVars
    BY DEF TestNext, testVars
  <2> QED
    BY <2>1, TrackerInvStep
<1> QED
  BY <1>1, <1>2, PTL DEF TestSpec

\* However the RX workers interleave, and whichever packets are lost or too short, the
\* tracker counts exactly wherever it can.
THEOREM TrackingIsExact == TestSpec => []TrackingExact
<1>1. TrackerInv => TrackingExact
  BY WatermarkIsExact, RealTimeIsExact DEF TrackingExact
<1> QED
  BY <1>1, TrackerInvAlways, PTL

\* On a VL-ID steered to one queue no missing packet is hidden in the final count.
THEOREM LossIsShown == TestSpec => []LossNotHidden
  BY LossIsNotHidden, TrackerInvAlways, PTL

-----------------------------------------------------------------------------
(* The checks of the health monitor.                                       *)

HealthTypes ==
    /\ thread \in {"head", "rx", "fw", "fw_add", "power", "stats", "exited"}
    /\ main \in {"warmup", "count", "fw", "power", "test", "join", "done"}
    /\ notice \in [warmup_complete : BOOLEAN, count : Nat, fw_done : BOOLEAN,
                   power_done : BOOLEAN]
    /\ local \in Nat /\ counted \in Nat /\ slow \in BOOLEAN

\* Before the notice nothing is counted.
BeforeNotice ==
    /\ notice.count = 0 /\ counted = 0 /\ ~notice.fw_done
    /\ thread # "fw_add"

\* During it at most two cycles are, one that was under way and one that begins.
InNotice ==
    /\ counted = 0 /\ ~notice.fw_done
    /\ thread = "fw_add" => local <= IF slow THEN 1 ELSE 0
    /\ notice.count <= (IF slow THEN 1 ELSE 0) +
                       (IF thread \in {"rx", "fw", "fw_add"} THEN 0 ELSE 1)

\* After it the thread counts as many cycles as there were, and those two.
AfterNotice ==
    /\ thread # "fw_add" =>
          /\ counted <= notice.count /\ notice.count <= counted + 2
          /\ notice.fw_done <=> notice.count >= CheckCycle
    /\ thread = "fw_add" =>
          /\ ~notice.fw_done
          /\ counted <= local + 1 /\ local <= counted + 1

CountInv ==
    /\ HealthTypes
    /\ Notifying \/ main = "test" => notice.warmup_complete
    /\ main = "warmup" => ~notice.warmup_complete
    /\ ~notice.warmup_complete => BeforeNotice
    /\ Notifying => InNotice
    /\ notice.warmup_complete /\ ~Notifying => AfterNotice

\* The monitor has not heard of the warm-up when it starts.
LEMMA CountInit == HealthInit => CountInv
<1> SUFFICES ASSUME HealthInit PROVE CountInv
  OBVIOUS
<1>1. /\ thread = "head" /\ local = 0 /\ main = "warmup" /\ counted = 0
      /\ slow \in BOOLEAN
      /\ notice = [warmup_complete |-> FALSE, count |-> 0, fw_done |-> FALSE,
                    power_done |-> FALSE]
  BY DEF HealthInit
<1>2. HealthTypes
  BY <1>1 DEF HealthTypes
<1> QED
  BY <1>1, <1>2 DEF CountInv, Notifying, BeforeNotice

\* The checks come in their cycle where nothing is under way.
LEMMA CountIsOnTime == CountInv => ChecksOnTime
<1> SUFFICES ASSUME CountInv, thread \in {"power", "stats", "head"}
             PROVE  /\ counted = CheckCycle => notice.fw_done
                    /\ notice.fw_done => counted >= CheckCycle - 2
  BY DEF ChecksOnTime
<1>1. /\ counted \in Nat /\ notice.count \in Nat /\ thread # "fw_add"
      /\ CheckCycle \in Nat /\ CheckCycle > 2
  BY HealthAssumption DEF CountInv, HealthTypes
<1>2. CASE BeforeNotice \/ InNotice
  BY <1>1, <1>2 DEF BeforeNotice, InNotice
<1>3. CASE AfterNotice
  BY <1>1, <1>3 DEF AfterNotice
<1> QED
  BY <1>2, <1>3 DEF CountInv

\* A step that leaves the counters alone and, of the thread's places, passes only
\* those that are alike for them.
LEMMA CountStays ==
    ASSUME CountInv,
           UNCHANGED <<local, notice, main, counted>>,
           \/ UNCHANGED <<thread, slow>>
           \/ /\ UNCHANGED slow
              /\ thread \in {"rx", "fw"} /\ thread' = "fw"
           \/ /\ UNCHANGED slow
              /\ thread \in {"power", "stats", "head"}
              /\ thread' \in {"stats", "head", "exited"}
    PROVE  CountInv'
<1> USE DEF CountInv, HealthTypes, Notifying
<1>1. HealthTypes'
  OBVIOUS
<1>2. /\ (Notifying \/ main = "test" => notice.warmup_complete)'
      /\ (main = "warmup" => ~notice.warmup_complete)'
  OBVIOUS
<1>3. thread' = "fw_add" <=> thread = "fw_add"
  OBVIOUS
<1>4. (~notice.warmup_complete => BeforeNotice)'
  BY <1>3 DEF BeforeNotice
<1>5. (Notifying => InNotice)'
  BY <1>3 DEF InNotice
<1>6. (notice.warmup_complete /\ ~Notifying => AfterNotice)'
  BY <1>3 DEF AfterNotice
<1> QED
  BY <1>1, <1>2, <1>4, <1>5, <1>6

\* A cycle that begins during the notice is the only one that does.
LEMMA QueryKeepsCount == CountInv /\ (Query \/ QueryFails) => CountInv'
<1> SUFFICES ASSUME CountInv, Query \/ QueryFails PROVE CountInv'
  OBVIOUS
<1> USE DEF CountInv, HealthTypes, Notifying
<1>1. /\ thread = "head" /\ Paced /\ thread' \in {"head", "rx"} /\ slow' = Notifying
      /\ UNCHANGED <<local, notice, main, counted>>
  BY DEF Query, QueryFails, mainVars
<1>2. HealthTypes'
  BY <1>1
<1>3. /\ (Notifying \/ main = "test" => notice.warmup_complete)'
      /\ (main = "warmup" => ~notice.warmup_complete)'
  BY <1>1
<1>4. (~notice.warmup_complete => BeforeNotice)'
  BY <1>1 DEF BeforeNotice
<1>5. (Notifying => InNotice)'
  BY <1>1 DEF InNotice, Paced
<1>6. (notice.warmup_complete /\ ~Notifying => AfterNotice)'
  BY <1>1 DEF AfterNotice
<1> QED
  BY <1>2, <1>3, <1>4, <1>5, <1>6

\* The load of the counter.
LEMMA LoadKeepsCount == CountInv /\ FwCheck => CountInv'
<1> SUFFICES ASSUME CountInv, FwCheck PROVE CountInv'
  OBVIOUS
<1> USE DEF CountInv, HealthTypes, Notifying
<1>1. /\ thread = "fw" /\ UNCHANGED <<notice, main, slow>>
      /\ CheckCycle \in Nat /\ CheckCycle > 2
  BY HealthAssumption DEF FwCheck, mainVars
<1>2. CASE notice.warmup_complete /\ ~notice.fw_done
  <2>1. /\ thread' = "fw_add" /\ local' = notice.count
        /\ counted' = IF Notifying \/ counted = CheckCycle THEN counted
                      ELSE counted + 1
    BY <1>2 DEF FwCheck
  <2>2. HealthTypes'
    BY <1>1, <2>1
  <2>3. /\ (Notifying \/ main = "test" => notice.warmup_complete)'
        /\ (main = "warmup" => ~notice.warmup_complete)'
        /\ (~notice.warmup_complete => BeforeNotice)'
    BY <1>1, <1>2
  <2>4. (Notifying => InNotice)'
    BY <1>1, <1>2, <2>1 DEF InNotice
  <2>5. (notice.warmup_complete /\ ~Notifying => AfterNotice)'
    BY <1>1, <1>2, <2>1 DEF AfterNotice
  <2> QED
    BY <2>2, <2>3, <2>4, <2>5
<1>3. CASE ~(notice.warmup_complete /\ ~notice.fw_done)
  <2>1. thread' = "power" /\ UNCHANGED <<local, counted>>
    BY <1>3 DEF FwCheck
  <2>2. HealthTypes'
    BY <1>1, <2>1
  <2>3. /\ (Notifying \/ main = "test" => notice.warmup_complete)'
        /\ (main = "warmup" => ~notice.warmup_complete)'
    BY <1>1
  <2>4. (~notice.warmup_complete => BeforeNotice)'
    BY <1>1, <2>1 DEF BeforeNotice
  <2>5. (Notifying => InNotice)'
    BY <1>1, <1>3, <2>1 DEF InNotice
  <2>6. (notice.warmup_complete /\ ~Notifying => AfterNotice)'
    BY <1>1, <2>1 DEF AfterNotice
  <2> QED
    BY <2>2, <2>3, <2>4, <2>5, <2>6
<1> QED
  BY <1>2, <1>3

\* The store of the counter, which may overwrite the reset of the main thread.
LEMMA StoreKeepsCount == CountInv /\ FwAdd => CountInv'
<1> SUFFICES ASSUME CountInv, FwAdd PROVE CountInv'
  OBVIOUS
<1> USE DEF CountInv, HealthTypes, Notifying
<1>1. /\ thread = "fw_add" /\ thread' = "power" /\ local' = 0
      /\ UNCHANGED <<main, slow, counted>>
      /\ CheckCycle \in Nat /\ CheckCycle > 2
  BY HealthAssumption DEF FwAdd, mainVars
<1>2. /\ notice'.count = local + 1
      /\ notice'.fw_done = (notice.fw_done \/ local + 1 >= CheckCycle)
      /\ notice'.warmup_complete = notice.warmup_complete
  BY DEF FwAdd
<1>3. notice' \in [warmup_complete : BOOLEAN, count : Nat, fw_done : BOOLEAN,
                   power_done : BOOLEAN]
  <2>1. PICK done \in BOOLEAN : done = (notice.fw_done \/ local + 1 >= CheckCycle)
    OBVIOUS
  <2>2. PICK n \in Nat : n = local + 1
    OBVIOUS
  <2>3. notice' = [notice EXCEPT !.count = n, !.fw_done = done]
    BY <2>1, <2>2, Zenon DEF FwAdd
  <2> QED
    BY <2>1, <2>2, <2>3
<1>4. HealthTypes'
  BY <1>1, <1>3
<1>5. /\ (Notifying \/ main = "test" => notice.warmup_complete)'
      /\ (main = "warmup" => ~notice.warmup_complete)'
      /\ (~notice.warmup_complete => BeforeNotice)'
  BY <1>1, <1>2 DEF BeforeNotice
<1>6. (Notifying => InNotice)'
  <2> SUFFICES ASSUME Notifying' PROVE InNotice'
    OBVIOUS
  <2>1. InNotice /\ Notifying
    BY <1>1
  <2>2. ~notice.fw_done /\ local <= IF slow THEN 1 ELSE 0
    BY <1>1, <2>1 DEF InNotice
  <2>3. ~notice'.fw_done
    BY <1>1, <1>2, <2>2
  <2>4. notice'.count <= (IF slow THEN 1 ELSE 0) + 1
    BY <1>2, <2>2
  <2> QED
    BY <1>1, <2>1, <2>3, <2>4 DEF InNotice
<1>7. (notice.warmup_complete /\ ~Notifying => AfterNotice)'
  <2> SUFFICES ASSUME (notice.warmup_complete /\ ~Notifying)' PROVE AfterNotice'
    OBVIOUS
  <2>1. AfterNotice
    BY <1>1, <1>2
  <2>2. ~notice.fw_done /\ counted <= local + 1 /\ local <= counted + 1
    BY <1>1, <2>1 DEF AfterNotice
  <2>3. notice'.fw_done <=> notice'.count >= CheckCycle
    BY <1>2, <2>2
  <2>4. counted' <= notice'.count /\ notice'.count <= counted' + 2
    BY <1>1, <1>2, <2>2
  <2> QED
    BY <1>1, <2>3, <2>4 DEF AfterNotice
<1> QED
  BY <1>4, <1>5, <1>6, <1>7

\* The 28 V check changes nothing of the count.
LEMMA PowerKeepsCount == CountInv /\ PowerCheck => CountInv'
<1> SUFFICES ASSUME CountInv, PowerCheck PROVE CountInv'
  OBVIOUS
<1> USE DEF CountInv, HealthTypes, Notifying
<1>1. /\ thread = "power" /\ thread' = "stats"
      /\ UNCHANGED <<local, main, slow, counted>>
  BY DEF PowerCheck, mainVars
<1>2. /\ notice'.count = notice.count /\ notice'.fw_done = notice.fw_done
      /\ notice'.warmup_complete = notice.warmup_complete
  BY DEF PowerCheck
<1>3. notice' \in [warmup_complete : BOOLEAN, count : Nat, fw_done : BOOLEAN,
                   power_done : BOOLEAN]
  <2>1. PICK due \in BOOLEAN : due = (notice.power_done \/ PowerDue)
    OBVIOUS
  <2>2. notice' = [notice EXCEPT !.power_done = due]
    BY <2>1, Zenon DEF PowerCheck
  <2>3. notice \in [warmup_complete : BOOLEAN, count : Nat, fw_done : BOOLEAN,
                     power_done : BOOLEAN]
    OBVIOUS
  <2> QED
    BY <2>1, <2>2, <2>3, Zenon
<1>4. HealthTypes'
  BY <1>1, <1>3
<1>5. /\ (Notifying \/ main = "test" => notice.warmup_complete)'
      /\ (main = "warmup" => ~notice.warmup_complete)'
      /\ (~notice.warmup_complete => BeforeNotice)'
  BY <1>1, <1>2 DEF BeforeNotice
<1>6. (Notifying => InNotice)'
  BY <1>1, <1>2 DEF InNotice
<1>7. (notice.warmup_complete /\ ~Notifying => AfterNotice)'
  BY <1>1, <1>2 DEF AfterNotice
<1> QED
  BY <1>4, <1>5, <1>6, <1>7

\* Each of the four stores of the notice, wherever the thread is.
LEMMA NotifyKeepsCount == CountInv /\ Notify => CountInv'
<1> SUFFICES ASSUME CountInv, Notify PROVE CountInv'
  OBVIOUS
<1> USE DEF CountInv, HealthTypes, Notifying
<1>1. UNCHANGED <<thread, local, counted>> /\ slow' = (slow /\ main' # "test")
  BY DEF Notify
<1>2. CheckCycle \in Nat /\ CheckCycle > 2 /\ slow' \in BOOLEAN
  BY <1>1, HealthAssumption
<1>3. CASE main = "warmup"
  <2>1. main' = "count" /\ notice' = [notice EXCEPT !.warmup_complete = TRUE]
    BY <1>3 DEF Notify
  <2>2. HealthTypes'
    BY <1>1, <1>2, <2>1
  <2>3. InNotice'
    BY <1>1, <1>3, <2>1 DEF BeforeNotice, InNotice
  <2> QED
    BY <2>1, <2>2, <2>3
<1>4. CASE main = "count"
  <2>1. main' = "fw" /\ notice' = [notice EXCEPT !.count = 0]
    BY <1>4 DEF Notify
  <2>2. HealthTypes'
    BY <1>1, <1>2, <2>1
  <2>3. InNotice'
    BY <1>1, <1>4, <2>1 DEF InNotice
  <2> QED
    BY <1>4, <2>1, <2>2, <2>3
<1>5. CASE main = "fw"
  <2>1. main' = "power" /\ notice' = [notice EXCEPT !.fw_done = FALSE]
    BY <1>5 DEF Notify
  <2>2. HealthTypes'
    BY <1>1, <1>2, <2>1
  <2>3. InNotice'
    BY <1>1, <1>5, <2>1 DEF InNotice
  <2> QED
    BY <1>5, <2>1, <2>2, <2>3
<1>6. CASE main = "power"
  <2>1. main' = "test" /\ notice' = [notice EXCEPT !.power_done = FALSE]
    BY <1>6 DEF Notify
  <2>2. HealthTypes'
    BY <1>1, <1>2, <2>1
  <2>3. /\ InNotice /\ notice'.count = notice.count
        /\ notice'.fw_done = notice.fw_done
    BY <1>6, <2>1
  <2>4. notice.count <= 2
    BY <2>3 DEF InNotice
  <2>5. AfterNotice'
    BY <1>1, <1>2, <2>3, <2>4 DEF InNotice, AfterNotice
  <2> QED
    BY <1>6, <2>1, <2>2, <2>5
<1> QED
  BY <1>3, <1>4, <1>5, <1>6 DEF Notify

\* Every step keeps the count.
LEMMA CountInvStep == CountInv /\ [HealthNext]_healthVars => CountInv'
<1> SUFFICES ASSUME CountInv, [HealthNext]_healthVars PROVE CountInv'
  OBVIOUS
<1>1. CASE Query \/ QueryFails
  BY <1>1, QueryKeepsCount
<1>2. CASE FwCheck \/ FwAdd \/ PowerCheck \/ Notify
  BY <1>2, LoadKeepsCount, StoreKeepsCount, PowerKeepsCount, NotifyKeepsCount
<1>3. CASE Receive \/ Quit \/ UNCHANGED healthVars
  BY <1>3, CountStays DEF Receive, Quit, healthVars, mainVars
<1>4. CASE ReceiveEnds
  BY <1>4, CountStays DEF ReceiveEnds, mainVars
<1>5. CASE Statistics \/ ThreadExit
  BY <1>5, CountStays DEF Statistics, ThreadExit, mainVars
<1>6. CASE StopMonitor \/ Join
  <2>1. /\ UNCHANGED <<thread, local, notice, slow, counted>>
        /\ main \in {"warmup", "test", "join"} /\ main' \in {"join", "done"}
    BY <1>6 DEF StopMonitor, Join
  <2>2. HealthTypes'
    BY <2>1 DEF CountInv, HealthTypes
  <2>3. /\ ~notice.warmup_complete => BeforeNotice
        /\ notice.warmup_complete => AfterNotice
    BY <2>1 DEF CountInv, Notifying
  <2>4. /\ (~notice.warmup_complete => BeforeNotice)'
        /\ (notice.warmup_complete => AfterNotice)'
    BY <2>1, <2>3 DEF BeforeNotice, AfterNotice
  <2> QED
    BY <2>1, <2>2, <2>4 DEF CountInv, Notifying
<1> QED
  BY <1>1, <1>2, <1>3, <1>4, <1>5, <1>6 DEF HealthNext, Thread, Main

\* However the monitor thread runs against the four stores of the notice, the checks
\* come in the tenth cycle after it and at most two cycles early.
THEOREM ChecksComeOnTime == TestSpec => []ChecksOnTime
<1>1. TestInit => CountInv
  BY CountInit DEF TestInit
<1>2. CountInv /\ [TestNext]_testVars => CountInv'
  <2>1. [TestNext]_testVars => [HealthNext]_healthVars
    BY DEF TestNext, testVars
  <2> QED
    BY <2>1, CountInvStep
<1> QED
  BY <1>1, <1>2, CountIsOnTime, PTL DEF TestSpec

-----------------------------------------------------------------------------
(* The cycles of the health monitor, for any sequence of losses and delays *)
(* and any cycle in which the checks are due: CyclesAreSound.              *)
(*                                                                         *)
(* Neither half is inductive.  OwnPackets speaks of what was read; the     *)
(* invariant says of every packet still on the wire that its header comes  *)
(* before it or was lost, and of the FPGA named last that it is the one    *)
(* that the packets in front need.  That six packets are six different     *)
(* ones holds because, with nothing lost, the wire and the cycle are a     *)
(* stretch of the answers laid end to end, from a place that the timeout   *)
(* chose; and the status is there because a monitor that was never late    *)
(* finds an empty wire when it sends a query.                              *)

CycleTypes ==
    /\ thread \in {"head", "rx", "fw", "fw_add", "power", "stats", "exited"}
    /\ wire \in Seq(Packet) /\ late \in Nat /\ lost \in Nat /\ delayed \in BOOLEAN
    /\ cycle \in [last_fpga_type : Fpga \cup {"none"}, assistant : Seq(Packet),
                  manager : Seq(Packet), mcu : BOOLEAN, total : Nat]
    /\ \A i \in 1..Len(wire) : wire[i].header => wire[i].of \in Fpga

\* The packet at i comes after the header of its FPGA, and no other header is between.
HeaderBefore(w, i) ==
    \E j \in 1..(i - 1) : /\ w[j].header /\ w[j].of = w[i].of
                          /\ \A k \in (j + 1)..(i - 1) : ~w[k].header

NoHeaderBefore(w, i) == \A j \in 1..(i - 1) : ~w[j].header

\* The packet at i was, or will be, given to its own FPGA, when fpga was named last.
Owned(w, i, fpga) ==
    w[i].header \/ w[i].orphan \/ w[i].of = "mcu"
      \/ HeaderBefore(w, i) \/ (NoHeaderBefore(w, i) /\ fpga \in {w[i].of, "none"})

\* Each packet that will be read, and each that was, goes to its FPGA.
OwnInv ==
    /\ \A i \in 1..Len(wire) : Owned(wire, i, cycle.last_fpga_type)
    /\ OwnPackets

\* The packet at place k of the answers one after the other, when none is lost.
AnswerAt(k) == [of |-> Answer[(k % 6) + 1].of, header |-> Answer[(k % 6) + 1].header,
                orphan |-> FALSE]

\* How far the place k of an answer comes after the place first.
From(first, k) == IF k >= first THEN k - first ELSE k - first + 6

\* The cycle holds the packet at place k.
Holds(first, k) == From(first, k) < cycle.total
Held(first, k) == IF Holds(first, k) THEN 1 ELSE 0

Headers(f) == {i \in 1..Len(cycle[f]) : cycle[f][i].header}

\* The wire goes on with the packet at place next, the cycle holds those from first on.
AnswersFrom(next, first) ==
    /\ \A i \in 1..Len(wire) : wire[i] = AnswerAt(next + i - 1)
    /\ (next + Len(wire)) % 6 = 0
    /\ cycle.total <= 6
    /\ cycle.total > 0 => next = (first + cycle.total) % 6
    /\ cycle.last_fpga_type = "none" => cycle.total = 0 \/ (first = 5 /\ cycle.total = 1)
    /\ cycle.last_fpga_type # "none" =>
          cycle.last_fpga_type = IF next \in {1, 2} THEN "assistant" ELSE "manager"
    /\ cycle.mcu <=> Holds(first, 5)
    /\ Len(cycle.assistant) = Held(first, 0) + Held(first, 1)
    /\ Len(cycle.manager) = Held(first, 2) + Held(first, 3) + Held(first, 4)
    /\ IF Holds(first, 0) THEN \E i \in Nat : Headers("assistant") = {i}
                          ELSE Headers("assistant") = {}
    /\ IF Holds(first, 2) THEN \E i \in Nat : Headers("manager") = {i}
                          ELSE Headers("manager") = {}

TurnInv == lost = 0 => \E next, first \in 0..5 : AnswersFrom(next, first)

\* A monitor that was in time with every answer has read the last one when it has read.
PromptInv ==
    lost = 0 /\ ~delayed =>
        /\ thread = "rx" => cycle.total + Len(wire) = 6
        /\ thread # "rx" => wire = <<>>
        /\ thread \in {"fw", "fw_add", "power", "stats"} => cycle.total = 6

CycleInv == CycleTypes /\ OwnInv /\ TurnInv /\ PromptInv /\ MismatchFound

-----------------------------------------------------------------------------
\* The mark of the i-th packet of an answer of which those at gone are lost.
Mark(gone, i) == [of |-> Answer[i].of, header |-> Answer[i].header,
                  orphan |-> \E j \in gone : Answer[j].header /\ Answer[j].of = Answer[i].of]

\* What is left of an answer, packet after packet.
Kept(gone, w, i) == IF i \in gone THEN w ELSE Append(w, Mark(gone, i))

\* What survives of an answer is its packets kept one after the other.
LEMMA SurvivingIs ==
    ASSUME NEW gone
    PROVE  Surviving(gone) =
             Kept(gone, Kept(gone, Kept(gone, Kept(gone, Kept(gone, Kept(gone, <<>>, 1), 2), 3), 4), 5), 6)
<1> DEFINE k1 == Kept(gone, <<>>, 1)
           k2 == Kept(gone, k1, 2)
           k3 == Kept(gone, k2, 3)
           k4 == Kept(gone, k3, 4)
           k5 == Kept(gone, k4, 5)
           k6 == Kept(gone, k5, 6)
           h == [i \in 0..6 |-> CASE i = 0 -> <<>> [] i = 1 -> k1 [] i = 2 -> k2 [] i = 3 -> k3
                                  [] i = 4 -> k4 [] i = 5 -> k5 [] i = 6 -> k6]
           Step(f) == [i \in 0..6 |-> IF i = 0 THEN <<>> ELSE IF i \in gone THEN f[i - 1]
                                      ELSE Append(f[i - 1], Mark(gone, i))]
           keep == CHOOSE f : f = Step(f)
<1>1. h = Step(h)
  <2> HIDE DEF k1, k2, k3, k4, k5, k6
  <2>1. ASSUME NEW i \in 0..6 PROVE h[i] = Step(h)[i]
    <3>1. /\ k1 = Kept(gone, <<>>, 1) /\ k2 = Kept(gone, k1, 2) /\ k3 = Kept(gone, k2, 3)
          /\ k4 = Kept(gone, k3, 4) /\ k5 = Kept(gone, k4, 5) /\ k6 = Kept(gone, k5, 6)
      BY DEF k1, k2, k3, k4, k5, k6
    <3>2. /\ h[0] = <<>> /\ h[1] = k1 /\ h[2] = k2 /\ h[3] = k3 /\ h[4] = k4 /\ h[5] = k5 /\ h[6] = k6
      OBVIOUS
    <3>3. Step(h)[i] = IF i = 0 THEN <<>> ELSE Kept(gone, h[i - 1], i)
      BY DEF Kept
    <3>4. i = 0 \/ i = 1 \/ i = 2 \/ i = 3 \/ i = 4 \/ i = 5 \/ i = 6
      OBVIOUS
    <3> HIDE DEF h, Step
    <3> QED
      BY <3>1, <3>2, <3>3, <3>4
  <2> QED
    BY <2>1
<1>2. keep = Step(keep)
  BY <1>1
<1>3. Expected = 6
  BY DEF Expected, Answer
<1>4. Surviving(gone) = keep[6]
  BY <1>3 DEF Surviving, Mark
<1> HIDE DEF keep
<1>5. /\ keep[0] = <<>> /\ keep[1] = Kept(gone, keep[0], 1) /\ keep[2] = Kept(gone, keep[1], 2)
      /\ keep[3] = Kept(gone, keep[2], 3) /\ keep[4] = Kept(gone, keep[3], 4)
      /\ keep[5] = Kept(gone, keep[4], 5) /\ keep[6] = Kept(gone, keep[5], 6)
  <2>1. \A i \in 0..6 : keep[i] = Step(keep)[i]
    BY <1>2
  <2>2. \A i \in 0..6 : keep[i] = IF i = 0 THEN <<>> ELSE Kept(gone, keep[i - 1], i)
    BY <2>1 DEF Kept
  <2> HIDE DEF Step
  <2> QED
    BY <2>2
<1> QED
  BY <1>4, <1>5

\* The answer, packet by packet.
LEMMA AnswerIs ==
    /\ Answer[1] = [of |-> "assistant", header |-> TRUE]
    /\ Answer[2] = [of |-> "assistant", header |-> FALSE]
    /\ Answer[3] = [of |-> "manager", header |-> TRUE]
    /\ Answer[4] = [of |-> "manager", header |-> FALSE]
    /\ Answer[5] = [of |-> "manager", header |-> FALSE]
    /\ Answer[6] = [of |-> "mcu", header |-> FALSE]
    /\ Len(Answer) = 6 /\ Expected = 6
BY DEF Answer, Expected

\* A part of an answer in which the header named last is that of fpga.
Part(w, fpga) ==
    /\ w \in Seq(Packet)
    /\ \A i \in 1..Len(w) : w[i].header => w[i].of \in Fpga
    /\ \A i \in 1..Len(w) : Owned(w, i, "nobody")
    /\ fpga # "none" => \E j \in 1..Len(w) : /\ w[j].header /\ w[j].of = fpga
                                             /\ \A k \in (j + 1)..Len(w) : ~w[k].header

\* One more packet.
LEMMA PartGrows ==
    ASSUME NEW w, NEW fpga, Part(w, fpga), NEW p \in Packet, NEW next,
           p.header => p.of \in Fpga,
           p.header \/ p.orphan \/ p.of = "mcu" \/ (fpga = p.of /\ fpga # "none"),
           next \in {"none", IF p.header THEN p.of ELSE fpga}
    PROVE  Part(Append(w, p), next)
<1> DEFINE v == Append(w, p)
           n == Len(w)
<1>1. /\ w \in Seq(Packet) /\ v \in Seq(Packet) /\ n \in Nat /\ Len(v) = n + 1 /\ v[n + 1] = p
      /\ \A i \in 1..n : v[i] = w[i]
  BY DEF Part
<1> HIDE DEF v, n
<1>2. \A i \in 1..Len(v) : v[i].header => v[i].of \in Fpga
  BY <1>1 DEF Part, n
<1>3. ASSUME NEW i \in 1..Len(v) PROVE Owned(v, i, "nobody")
  <2>1. CASE i \in 1..n
    <3>1. Owned(w, i, "nobody")
      BY <2>1 DEF Part, n
    <3>2. \A j \in 1..i : j \in 1..n /\ v[j] = w[j]
      BY <1>1, <2>1
    <3> QED
      BY <2>1, <3>1, <3>2 DEF Owned, HeaderBefore, NoHeaderBefore
  <2>2. CASE i = n + 1
    <3>1. CASE p.header \/ p.orphan \/ p.of = "mcu"
      BY <1>1, <2>2, <3>1 DEF Owned
    <3>2. CASE fpga = p.of /\ fpga # "none"
      <4>1. PICK j \in 1..n : w[j].header /\ w[j].of = fpga /\ \A k \in (j + 1)..n : ~w[k].header
        BY <3>2 DEF Part, n
      <4>2. j \in 1..(i - 1) /\ v[j] = w[j] /\ v[i] = p
        BY <1>1, <2>2, <4>1
      <4>3. \A k \in (j + 1)..(i - 1) : v[k] = w[k] /\ k \in (j + 1)..n
        BY <1>1, <2>2, <4>1
      <4>4. HeaderBefore(v, i)
        BY <3>2, <4>1, <4>2, <4>3 DEF HeaderBefore
      <4> QED
        BY <4>4 DEF Owned
    <3> QED
      BY <3>1, <3>2
  <2> QED
    BY <1>1, <2>1, <2>2
<1>4. next # "none" => \E j \in 1..Len(v) : /\ v[j].header /\ v[j].of = next
                                           /\ \A k \in (j + 1)..Len(v) : ~v[k].header
  <2>1. CASE p.header
    <3>1. n + 1 \in 1..Len(v) /\ v[n + 1] = p /\ (n + 1 + 1)..Len(v) = {}
      BY <1>1
    <3> QED
      BY <2>1, <3>1
  <2>2. CASE ~p.header /\ next # "none"
    <3>1. PICK j \in 1..n : w[j].header /\ w[j].of = fpga /\ \A k \in (j + 1)..n : ~w[k].header
      BY <2>2 DEF Part, n
    <3>2. j \in 1..Len(v) /\ v[j] = w[j]
      BY <1>1, <3>1
    <3>3. ASSUME NEW k \in (j + 1)..Len(v) PROVE ~v[k].header
      <4>1. k = n + 1 \/ (k \in (j + 1)..n /\ v[k] = w[k])
        BY <1>1, <3>1
      <4> QED
        BY <1>1, <2>2, <3>1, <4>1
    <3> QED
      BY <2>2, <3>1, <3>2, <3>3
  <2> QED
    BY <2>1, <2>2
<1> QED
  BY <1>1, <1>2, <1>3, <1>4 DEF Part, v

\* The marks are packets.
LEMMA MarkIs ==
    ASSUME NEW gone, NEW i \in 1..6
    PROVE  /\ Mark(gone, i) \in Packet
           /\ Mark(gone, i).of = Answer[i].of /\ Mark(gone, i).header = Answer[i].header
<1>1. i \in {1, 2, 3, 4, 5, 6}
  OBVIOUS
<1>2. Answer[i].of \in Fpga \cup {"mcu"}
  BY <1>1, AnswerIs DEF Fpga
<1>3. Answer[i].header \in BOOLEAN
  <2>1. /\ Answer[1].header = TRUE /\ Answer[2].header = FALSE /\ Answer[3].header = TRUE
        /\ Answer[4].header = FALSE /\ Answer[5].header = FALSE /\ Answer[6].header = FALSE
    BY AnswerIs
  <2>2. i = 1 \/ i = 2 \/ i = 3 \/ i = 4 \/ i = 5 \/ i = 6
    OBVIOUS
  <2> QED
    BY <2>1, <2>2, Zenon
<1> QED
  BY <1>2, <1>3 DEF Mark, Packet

\* What survives of an answer is a part of it in which every packet finds its FPGA.
LEMMA SurvivingIsOwned ==
    ASSUME NEW gone \in SUBSET (1..6)
    PROVE  /\ Surviving(gone) \in Seq(Packet)
           /\ \A i \in 1..Len(Surviving(gone)) :
                 /\ Surviving(gone)[i].header => Surviving(gone)[i].of \in Fpga
                 /\ Owned(Surviving(gone), i, "nobody")
<1> DEFINE k1 == Kept(gone, <<>>, 1)
           k2 == Kept(gone, k1, 2)
           k3 == Kept(gone, k2, 3)
           k4 == Kept(gone, k3, 4)
           k5 == Kept(gone, k4, 5)
           k6 == Kept(gone, k5, 6)
           a == IF 1 \in gone THEN "none" ELSE "assistant"
           m == IF 3 \in gone THEN "none" ELSE "manager"
<1>1. \A i \in 1..6 : /\ Mark(gone, i) \in Packet
                      /\ Mark(gone, i).of = Answer[i].of /\ Mark(gone, i).header = Answer[i].header
  BY MarkIs
<1>2. /\ 1 \in gone => Mark(gone, 2).orphan
      /\ 3 \in gone => Mark(gone, 4).orphan /\ Mark(gone, 5).orphan
  BY AnswerIs DEF Mark
<1>3. Part(<<>>, "none")
  BY DEF Part
<1> USE DEF Kept
<1>4. Part(k1, a)
  <2>1. CASE 1 \in gone
    BY <1>3, <2>1
  <2>2. CASE 1 \notin gone
    <3>1. /\ Mark(gone, 1) \in Packet /\ Mark(gone, 1).header /\ Mark(gone, 1).of = "assistant"
          /\ a = "assistant" /\ "assistant" \in Fpga
      BY <1>1, <2>2, AnswerIs DEF Fpga
    <3>2. Part(Append(<<>>, Mark(gone, 1)), "assistant")
      BY <1>3, <3>1, PartGrows
    <3> QED
      BY <2>2, <3>1, <3>2
  <2> QED
    BY <2>1, <2>2
<1> HIDE DEF k1
<1>5. Part(k2, a)
  <2>1. CASE 2 \in gone
    BY <1>4, <2>1
  <2>2. CASE 2 \notin gone
    <3>1. Mark(gone, 2).orphan \/ a = "assistant"
      BY <1>2
    <3> QED
      BY <1>1, <1>4, <2>2, <3>1, PartGrows, AnswerIs
  <2> QED
    BY <2>1, <2>2
<1> HIDE DEF k2
<1>6. Part(k3, m)
  <2>1. CASE 3 \in gone
    BY <1>5, <2>1 DEF Part
  <2>2. CASE 3 \notin gone
    BY <1>1, <1>5, <2>2, PartGrows, AnswerIs DEF Fpga
  <2> QED
    BY <2>1, <2>2
<1> HIDE DEF k3
<1>7. Part(k4, m)
  <2>1. CASE 4 \in gone
    BY <1>6, <2>1
  <2>2. CASE 4 \notin gone
    <3>1. Mark(gone, 4).orphan \/ m = "manager"
      BY <1>2
    <3> QED
      BY <1>1, <1>6, <2>2, <3>1, PartGrows, AnswerIs
  <2> QED
    BY <2>1, <2>2
<1> HIDE DEF k4
<1>8. Part(k5, m)
  <2>1. CASE 5 \in gone
    BY <1>7, <2>1
  <2>2. CASE 5 \notin gone
    <3>1. Mark(gone, 5).orphan \/ m = "manager"
      BY <1>2
    <3> QED
      BY <1>1, <1>7, <2>2, <3>1, PartGrows, AnswerIs
  <2> QED
    BY <2>1, <2>2
<1> HIDE DEF k5
<1>9. Part(k6, "none")
  <2>1. CASE 6 \in gone
    BY <1>8, <2>1 DEF Part
  <2>2. CASE 6 \notin gone
    BY <1>1, <1>8, <2>2, PartGrows, AnswerIs
  <2> QED
    BY <2>1, <2>2
<1>10. Surviving(gone) = k6
  BY SurvivingIs DEF k1, k2, k3, k4, k5
<1> HIDE DEF k6
<1> QED
  BY <1>9, <1>10 DEF Part

\* The first n packets of an answer, in their order.
Whole(w, n) == w \in Seq(Packet) /\ Len(w) = n /\ \A i \in 1..n : w[i] = AnswerAt(i - 1)

\* What is not lost comes next.
LEMMA WholeGrows ==
    ASSUME NEW n \in 0..5, NEW w, Whole(w, n)
    PROVE  Whole(Kept({}, w, n + 1), n + 1)
<1> DEFINE p == Mark({}, n + 1)
           v == Append(w, p)
<1>1. p = AnswerAt(n)
  <2>1. (n % 6) + 1 = n + 1
    OBVIOUS
  <2> QED
    BY <2>1 DEF Mark, AnswerAt
<1>2. p \in Packet
  BY MarkIs
<1> HIDE DEF p
<1>3. /\ v \in Seq(Packet) /\ Len(v) = n + 1 /\ v[n + 1] = p
      /\ \A i \in 1..n : v[i] = w[i]
  BY <1>2 DEF Whole
<1>4. Kept({}, w, n + 1) = v
  BY DEF Kept, p
<1> HIDE DEF v
<1>5. ASSUME NEW i \in 1..(n + 1) PROVE v[i] = AnswerAt(i - 1)
  <2>1. i \in 1..n \/ i = n + 1
    OBVIOUS
  <2> QED
    BY <1>1, <1>3, <2>1 DEF Whole
<1> QED
  BY <1>3, <1>4, <1>5 DEF Whole

\* Of an answer of which nothing is lost, all six packets arrive.
LEMMA SurvivingWhole == Whole(Surviving({}), 6)
<1> DEFINE k1 == Kept({}, <<>>, 1)
           k2 == Kept({}, k1, 2)
           k3 == Kept({}, k2, 3)
           k4 == Kept({}, k3, 4)
           k5 == Kept({}, k4, 5)
           k6 == Kept({}, k5, 6)
<1>0. Surviving({}) = k6
  BY SurvivingIs
<1>1. Whole(<<>>, 0)
  BY DEF Whole
<1>2. Whole(k1, 1)
  BY <1>1, WholeGrows
<1> HIDE DEF k1
<1>3. Whole(k2, 2)
  BY <1>2, WholeGrows
<1> HIDE DEF k2
<1>4. Whole(k3, 3)
  BY <1>3, WholeGrows
<1> HIDE DEF k3
<1>5. Whole(k4, 4)
  BY <1>4, WholeGrows
<1> HIDE DEF k4
<1>6. Whole(k5, 5)
  BY <1>5, WholeGrows
<1> HIDE DEF k5
<1>7. Whole(k6, 6)
  BY <1>6, WholeGrows
<1> QED
  BY <1>0, <1>7

\* The empty cycle holds nothing.
LEMMA EmptyIs ==
    /\ EmptyCycle.last_fpga_type = "none" /\ EmptyCycle.assistant = <<>> /\ EmptyCycle.manager = <<>>
    /\ EmptyCycle.mcu = FALSE /\ EmptyCycle.total = 0
    /\ EmptyCycle["assistant"] = <<>> /\ EmptyCycle["manager"] = <<>>
    /\ EmptyCycle \in [last_fpga_type : Fpga \cup {"none"}, assistant : Seq(Packet),
                       manager : Seq(Packet), mcu : BOOLEAN, total : Nat]
BY DEF EmptyCycle, Fpga

\* What is found in an older wire is found in a wire that begins with it.
LEMMA OwnedInFront ==
    ASSUME NEW v \in Seq(Packet), NEW w \in Seq(Packet), NEW fpga, NEW i \in 1..Len(v),
           Owned(v, i, fpga)
    PROVE  Owned(v \o w, i, "none")
<1> DEFINE u == v \o w
<1>1. \A j \in 1..i : u[j] = v[j] /\ j \in 1..Len(v)
  OBVIOUS
<1> HIDE DEF u
<1>2. Owned(u, i, "none")
  <2>1. u[i] = v[i] /\ \A j \in 1..(i - 1) : u[j] = v[j]
    BY <1>1
  <2>2. HeaderBefore(v, i) => HeaderBefore(u, i)
    BY <2>1 DEF HeaderBefore
  <2>3. NoHeaderBefore(v, i) => NoHeaderBefore(u, i)
    BY <2>1 DEF NoHeaderBefore
  <2> QED
    BY <2>1, <2>2, <2>3 DEF Owned
<1> QED
  BY <1>2 DEF u

\* What finds its FPGA without help finds it behind an older wire.
LEMMA OwnedBehind ==
    ASSUME NEW v \in Seq(Packet), NEW w \in Seq(Packet), NEW fpga, NEW i \in 1..Len(w),
           w[i].of \in Fpga \cup {"mcu"}, Owned(w, i, "nobody")
    PROVE  Owned(v \o w, Len(v) + i, fpga)
<1> DEFINE u == v \o w
           n == Len(v)
<1>1. n \in Nat /\ \A j \in 1..Len(w) : u[n + j] = w[j]
  OBVIOUS
<1> HIDE DEF u, n
<1>2. u[n + i] = w[i]
  BY <1>1
<1>3. CASE w[i].header \/ w[i].orphan \/ w[i].of = "mcu"
  BY <1>2, <1>3 DEF Owned, u, n
<1>4. CASE HeaderBefore(w, i)
  <2>1. PICK j \in 1..(i - 1) : w[j].header /\ w[j].of = w[i].of /\ \A k \in (j + 1)..(i - 1) : ~w[k].header
    BY <1>4 DEF HeaderBefore
  <2>2. n + j \in 1..((n + i) - 1) /\ u[n + j] = w[j]
    BY <1>1, <2>1
  <2>3. ASSUME NEW k \in ((n + j) + 1)..((n + i) - 1) PROVE ~u[k].header
    <3>1. k - n \in (j + 1)..(i - 1) /\ k - n \in 1..Len(w) /\ n + (k - n) = k
      <4>1. /\ n \in Nat /\ j \in Nat /\ i \in Nat /\ Len(w) \in Nat /\ k \in Int
            /\ j >= 1 /\ i <= Len(w) /\ n + j + 1 <= k /\ k <= (n + i) - 1
        BY <1>1, <2>1
      <4> QED
        BY <4>1
    <3>2. u[n + (k - n)] = w[k - n]
      BY <1>1, <3>1
    <3> QED
      BY <2>1, <3>1, <3>2
  <2>4. HeaderBefore(u, n + i)
    BY <1>2, <2>1, <2>2, <2>3 DEF HeaderBefore
  <2> QED
    BY <2>4 DEF Owned, u, n
<1>5. CASE NoHeaderBefore(w, i) /\ "nobody" \in {w[i].of, "none"}
  BY <1>5 DEF Fpga
<1> QED
  BY <1>3, <1>4, <1>5 DEF Owned

\* A query adds its answer to what is on the wire.
LEMMA QueryOwns == CycleTypes /\ OwnInv /\ Query => CycleTypes' /\ OwnInv'
<1> SUFFICES ASSUME CycleTypes, OwnInv, Query PROVE CycleTypes' /\ OwnInv'
  OBVIOUS
<1>1. PICK gone \in SUBSET (1..6) : lost' = lost + Cardinality(gone) /\ wire' = wire \o Surviving(gone)
  BY AnswerIs DEF Query
<1> DEFINE w == Surviving(gone)
<1>2. /\ w \in Seq(Packet)
      /\ \A i \in 1..Len(w) : (w[i].header => w[i].of \in Fpga) /\ Owned(w, i, "nobody")
  BY SurvivingIsOwned
<1> HIDE DEF w
<1>3. wire' = wire \o w
  BY <1>1 DEF w
<1>4. /\ wire \in Seq(Packet) /\ wire' \in Seq(Packet) /\ Len(wire') = Len(wire) + Len(w)
      /\ Len(wire) \in Nat /\ Len(w) \in Nat
      /\ \A i \in 1..Len(wire) : wire'[i] = wire[i]
      /\ \A i \in 1..Len(w) : wire'[Len(wire) + i] = w[i]
  BY <1>2, <1>3 DEF CycleTypes
<1>5. lost' \in Nat /\ late' \in Nat
  <2>1. Cardinality(gone) \in Nat
    <3>1. IsFiniteSet(1..6)
      <4>1. 1 \in Int /\ 6 \in Int
        OBVIOUS
      <4> QED
        BY <4>1, FS_Interval, Zenon
    <3>2. IsFiniteSet(gone)
      BY <3>1, FS_Subset
    <3> QED
      BY <3>2, FS_CardinalityType
  <2> QED
    BY <1>1, <1>4, <2>1 DEF CycleTypes, Query
<1>6. ASSUME NEW i \in 1..Len(wire')
      PROVE  i \in 1..Len(wire) \/ (i - Len(wire) \in 1..Len(w) /\ i = Len(wire) + (i - Len(wire)))
  BY <1>4
<1>7. CycleTypes'
  <2>1. thread' = "rx" /\ delayed' = delayed /\ cycle' = EmptyCycle
    BY DEF Query
  <2>2. ASSUME NEW i \in 1..Len(wire') PROVE wire'[i].header => wire'[i].of \in Fpga
    <3>1. CASE i \in 1..Len(wire)
      BY <1>4, <3>1 DEF CycleTypes
    <3>2. CASE i - Len(wire) \in 1..Len(w) /\ i = Len(wire) + (i - Len(wire))
      BY <1>2, <1>4, <3>2
    <3> QED
      BY <1>6, <3>1, <3>2
  <2> QED
    BY <1>4, <1>5, <2>1, <2>2, EmptyIs DEF CycleTypes
<1>8. \A i \in 1..Len(wire') : Owned(wire', i, "none")
  <2> SUFFICES ASSUME NEW i \in 1..Len(wire') PROVE Owned(wire', i, "none")
    OBVIOUS
  <2>1. CASE i \in 1..Len(wire)
    BY <1>2, <1>3, <1>4, <2>1, OwnedInFront DEF OwnInv
  <2>2. CASE i - Len(wire) \in 1..Len(w) /\ i = Len(wire) + (i - Len(wire))
    <3>1. w[i - Len(wire)].of \in Fpga \cup {"mcu"}
      <4>1. w[i - Len(wire)] \in Packet
        BY <1>2, <2>2
      <4> QED
        BY <4>1 DEF Packet
    <3>2. Owned(wire \o w, Len(wire) + (i - Len(wire)), "none")
      BY <1>2, <1>4, <2>2, <3>1, OwnedBehind
    <3> QED
      BY <1>3, <2>2, <3>2
  <2> QED
    BY <1>6, <2>1, <2>2
<1>9. OwnPackets'
  BY EmptyIs DEF Query, OwnPackets, Fpga
<1> QED
  BY <1>7, <1>8, <1>9, EmptyIs DEF OwnInv, Query

\* Of the wire without its first packet.
LEMMA TailIs ==
    ASSUME NEW w \in Seq(Packet), w # <<>>
    PROVE  /\ Tail(w) \in Seq(Packet) /\ Len(w) \in Nat /\ Len(w) > 0 /\ Len(Tail(w)) = Len(w) - 1
           /\ Head(w) = w[1] /\ w[1] \in Packet
           /\ \A i \in 1..(Len(w) - 1) : Tail(w)[i] = w[i + 1]
OBVIOUS

\* A packet that is added to those of an FPGA.
LEMMA StoreIs ==
    ASSUME CycleTypes, NEW f \in Fpga, NEW p \in Packet
    PROVE  /\ Store(cycle, f, p) \in [last_fpga_type : Fpga \cup {"none"}, assistant : Seq(Packet),
                                      manager : Seq(Packet), mcu : BOOLEAN, total : Nat]
           /\ Store(cycle, f, p)[f] = Append(cycle[f], p)
           /\ \A g \in Fpga : g # f => Store(cycle, f, p)[g] = cycle[g]
           /\ Store(cycle, f, p).total = cycle.total + 1
           /\ Store(cycle, f, p).mcu = cycle.mcu
           /\ Store(cycle, f, p).last_fpga_type = cycle.last_fpga_type
           /\ \A g \in Fpga : cycle[g] \in Seq(Packet)
<1>1. f = "assistant" \/ f = "manager"
  BY DEF Fpga
<1> DEFINE c == cycle
           C == [last_fpga_type : Fpga \cup {"none"}, assistant : Seq(Packet),
                 manager : Seq(Packet), mcu : BOOLEAN, total : Nat]
<1>2. /\ c \in C /\ c.assistant \in Seq(Packet) /\ c.manager \in Seq(Packet) /\ c.total \in Nat
      /\ c["assistant"] = c.assistant /\ c["manager"] = c.manager
  BY DEF CycleTypes
<1>3. /\ Append(c.assistant, p) \in Seq(Packet) /\ Append(c.manager, p) \in Seq(Packet)
      /\ c.total + 1 \in Nat
  BY <1>2
<1>4. CASE f = "assistant"
  <2>1. Store(c, f, p) = [c EXCEPT !.assistant = Append(c.assistant, p), !.total = c.total + 1]
    BY <1>2, <1>4 DEF Store
  <2> HIDE DEF c
  <2>2. Store(c, f, p) \in C
    BY <1>2, <1>3, <2>1
  <2>3. /\ Store(c, f, p).assistant = Append(c.assistant, p) /\ Store(c, f, p).manager = c.manager
        /\ Store(c, f, p).total = c.total + 1 /\ Store(c, f, p).mcu = c.mcu
        /\ Store(c, f, p).last_fpga_type = c.last_fpga_type
        /\ Store(c, f, p)["assistant"] = Append(c.assistant, p)
        /\ Store(c, f, p)["manager"] = c.manager
    BY <1>2, <2>1
  <2> QED
    BY <1>2, <1>4, <2>2, <2>3 DEF Fpga, c
<1>5. CASE f = "manager"
  <2>1. Store(c, f, p) = [c EXCEPT !.manager = Append(c.manager, p), !.total = c.total + 1]
    BY <1>2, <1>5 DEF Store
  <2> HIDE DEF c
  <2>2. Store(c, f, p) \in C
    BY <1>2, <1>3, <2>1
  <2>3. /\ Store(c, f, p).manager = Append(c.manager, p) /\ Store(c, f, p).assistant = c.assistant
        /\ Store(c, f, p).total = c.total + 1 /\ Store(c, f, p).mcu = c.mcu
        /\ Store(c, f, p).last_fpga_type = c.last_fpga_type
        /\ Store(c, f, p)["manager"] = Append(c.manager, p)
        /\ Store(c, f, p)["assistant"] = c.assistant
    BY <1>2, <2>1
  <2> QED
    BY <1>2, <1>5, <2>2, <2>3 DEF Fpga, c
<1> QED
  BY <1>1, <1>4, <1>5

\* What becomes of a cycle with the packet p: c is the cycle afterwards.
Parsed(c, p) ==
    \/ /\ p.of = "mcu" /\ c = [cycle EXCEPT !.mcu = TRUE, !.total = @ + 1]
    \/ /\ p.of \in Fpga /\ p.header
       /\ c = [Store(cycle, p.of, p) EXCEPT !.last_fpga_type = p.of]
    \/ /\ p.of \in Fpga /\ ~p.header /\ cycle.last_fpga_type = "none" /\ c = cycle
    \/ /\ p.of \in Fpga /\ ~p.header /\ cycle.last_fpga_type \in Fpga
       /\ c = Store(cycle, cycle.last_fpga_type, p)

\* The four cases of health_parse_response.
LEMMA ParseIs ==
    ASSUME CycleTypes, NEW p \in Packet
    PROVE  Parsed(Parse(cycle, p), p)
<1>1. p.of \in Fpga \cup {"mcu"} /\ p.header \in BOOLEAN /\ "mcu" \notin Fpga /\ "none" \notin Fpga
  BY DEF Packet, Fpga
<1>2. cycle.last_fpga_type \in Fpga \cup {"none"}
  BY DEF CycleTypes
<1> QED
  BY <1>1, <1>2 DEF Parse, Parsed

\* What a packet changes of the cycle.
LEMMA ParsedTypes ==
    ASSUME CycleTypes, NEW p \in Packet, NEW c, Parsed(c, p)
    PROVE  c \in [last_fpga_type : Fpga \cup {"none"}, assistant : Seq(Packet),
                  manager : Seq(Packet), mcu : BOOLEAN, total : Nat]
<1>1. cycle \in [last_fpga_type : Fpga \cup {"none"}, assistant : Seq(Packet),
                 manager : Seq(Packet), mcu : BOOLEAN, total : Nat]
  BY DEF CycleTypes
<1>2. CASE p.of = "mcu" /\ c = [cycle EXCEPT !.mcu = TRUE, !.total = @ + 1]
  <2>1. cycle.total + 1 \in Nat /\ TRUE \in BOOLEAN
    BY <1>1
  <2> QED
    BY <1>1, <1>2, <2>1
<1>3. CASE p.of \in Fpga /\ c = [Store(cycle, p.of, p) EXCEPT !.last_fpga_type = p.of]
  <2> DEFINE d == Store(cycle, p.of, p)
  <2>1. d \in [last_fpga_type : Fpga \cup {"none"}, assistant : Seq(Packet),
                manager : Seq(Packet), mcu : BOOLEAN, total : Nat]
    BY <1>3, StoreIs
  <2> HIDE DEF d
  <2>2. c = [d EXCEPT !.last_fpga_type = p.of]
    BY <1>3 DEF d
  <2> QED
    BY <1>3, <2>1, <2>2
<1>4. CASE cycle.last_fpga_type \in Fpga /\ c = Store(cycle, cycle.last_fpga_type, p)
  BY <1>4, StoreIs
<1> QED
  BY <1>1, <1>2, <1>3, <1>4 DEF Parsed

\* Every packet is read into the cycle of its FPGA.
LEMMA ReceiveOwns == CycleTypes /\ OwnInv /\ Receive => CycleTypes' /\ OwnInv'
<1> SUFFICES ASSUME CycleTypes, OwnInv, Receive PROVE CycleTypes' /\ OwnInv'
  OBVIOUS
<1> DEFINE p == wire[1]
           last == cycle.last_fpga_type
<1>1. /\ wire \in Seq(Packet) /\ wire' \in Seq(Packet) /\ Len(wire) \in Nat /\ Len(wire) > 0
      /\ Len(wire') = Len(wire) - 1 /\ p \in Packet
      /\ \A i \in 1..(Len(wire) - 1) : wire'[i] = wire[i + 1]
      /\ cycle' = Parse(cycle, p)
  BY TailIs DEF CycleTypes, Receive
<1>2. Parsed(cycle', p)
  BY <1>1, ParseIs
<1>3. CycleTypes'
  <2>1. ASSUME NEW i \in 1..Len(wire') PROVE wire'[i].header => wire'[i].of \in Fpga
    <3>1. wire'[i] = wire[i + 1] /\ i + 1 \in 1..Len(wire)
      BY <1>1
    <3> QED
      BY <3>1 DEF CycleTypes
  <2>2. late' \in Nat /\ thread' = thread /\ lost' = lost /\ delayed' = delayed
    BY DEF Receive, CycleTypes
  <2>3. cycle' \in [last_fpga_type : Fpga \cup {"none"}, assistant : Seq(Packet),
                    manager : Seq(Packet), mcu : BOOLEAN, total : Nat]
    BY <1>1, <1>2, ParsedTypes
  <2> QED
    BY <1>1, <2>1, <2>2, <2>3 DEF CycleTypes
<1>4. /\ 1 \in 1..Len(wire)
      /\ p.header \/ p.orphan \/ p.of = "mcu" \/ last \in {p.of, "none"}
  BY <1>1 DEF OwnInv, Owned, HeaderBefore
<1>5. cycle'.last_fpga_type = IF p.header THEN p.of ELSE last
  <2>1. p.header => p.of \in Fpga
    BY <1>4 DEF CycleTypes
  <2>2. "mcu" \notin Fpga
    BY DEF Fpga
  <2>3. CASE p.of = "mcu" /\ cycle' = [cycle EXCEPT !.mcu = TRUE, !.total = @ + 1]
    BY <2>1, <2>2, <2>3 DEF CycleTypes
  <2>4. CASE p.of \in Fpga /\ p.header /\ cycle' = [Store(cycle, p.of, p) EXCEPT !.last_fpga_type = p.of]
    BY <1>1, <2>4, StoreIs
  <2>5. CASE last \in Fpga /\ ~p.header /\ cycle' = Store(cycle, last, p)
    BY <1>1, <2>5, StoreIs
  <2> QED
    BY <1>2, <2>1, <2>3, <2>4, <2>5 DEF Parsed
<1>6. ASSUME NEW i \in 1..Len(wire') PROVE Owned(wire', i, cycle'.last_fpga_type)
  <2>1. /\ i + 1 \in 1..Len(wire) /\ wire'[i] = wire[i + 1]
        /\ \A j \in 1..i : wire'[j] = wire[j + 1]
    BY <1>1
  <2>2. Owned(wire, i + 1, last)
    BY <2>1 DEF OwnInv
  <2>3. CASE wire[i + 1].header \/ wire[i + 1].orphan \/ wire[i + 1].of = "mcu"
    BY <2>1, <2>3 DEF Owned
  <2>4. CASE HeaderBefore(wire, i + 1)
    <3>1. PICK j \in 1..((i + 1) - 1) :
                 /\ wire[j].header /\ wire[j].of = wire[i + 1].of
                 /\ \A k \in (j + 1)..((i + 1) - 1) : ~wire[k].header
      BY <2>4 DEF HeaderBefore
    <3>2. CASE j = 1
      <4>1. ASSUME NEW k \in 1..(i - 1) PROVE ~wire'[k].header
        <5>1. k + 1 \in (j + 1)..((i + 1) - 1) /\ wire'[k] = wire[k + 1]
          BY <2>1, <3>2
        <5> QED
          BY <3>1, <5>1
      <4>2. cycle'.last_fpga_type = wire'[i].of
        BY <1>5, <2>1, <3>1, <3>2
      <4> QED
        BY <4>1, <4>2 DEF Owned, NoHeaderBefore
    <3>3. CASE j > 1
      <4>1. j - 1 \in 1..(i - 1) /\ wire'[j - 1] = wire[j]
        BY <2>1, <3>1, <3>3
      <4>2. ASSUME NEW k \in ((j - 1) + 1)..(i - 1) PROVE ~wire'[k].header
        <5>1. k + 1 \in (j + 1)..((i + 1) - 1) /\ wire'[k] = wire[k + 1]
          BY <2>1, <3>1
        <5> QED
          BY <3>1, <5>1
      <4>3. HeaderBefore(wire', i)
        BY <2>1, <3>1, <4>1, <4>2 DEF HeaderBefore
      <4> QED
        BY <4>3 DEF Owned
    <3> QED
      BY <3>1, <3>2, <3>3
  <2>5. CASE NoHeaderBefore(wire, i + 1) /\ last \in {wire[i + 1].of, "none"}
    <3>1. ~p.header
      BY <2>1, <2>5 DEF NoHeaderBefore
    <3>2. ASSUME NEW k \in 1..(i - 1) PROVE ~wire'[k].header
      <4>1. k + 1 \in 1..((i + 1) - 1) /\ wire'[k] = wire[k + 1]
        BY <2>1
      <4> QED
        BY <2>5, <4>1 DEF NoHeaderBefore
    <3> QED
      BY <1>5, <2>1, <2>5, <3>1, <3>2 DEF Owned, NoHeaderBefore
  <2> QED
    BY <2>2, <2>3, <2>4, <2>5 DEF Owned
<1>7. OwnPackets'
  <2>1. ASSUME NEW f \in Fpga, p.of = f \/ p.orphan, cycle'[f] = Append(cycle[f], p),
               \A g \in Fpga : g # f => cycle'[g] = cycle[g]
        PROVE  OwnPackets'
    <3>1. ASSUME NEW g \in Fpga, NEW i \in 1..Len(cycle'[g])
          PROVE  cycle'[g][i].of = g \/ cycle'[g][i].orphan
      <4>0. cycle[g] \in Seq(Packet)
        BY StoreIs, <1>1
      <4>1. CASE g # f
        BY <2>1, <3>1, <4>1 DEF OwnInv, OwnPackets
      <4>2. CASE g = f
        <5>1. (i \in 1..Len(cycle[f]) /\ cycle'[f][i] = cycle[f][i]) \/ cycle'[f][i] = p
          BY <1>1, <2>1, <3>1, <4>0, <4>2
        <5> QED
          BY <2>1, <4>2, <5>1 DEF OwnInv, OwnPackets
      <4> QED
        BY <4>1, <4>2
    <3> QED
      BY <3>1 DEF OwnPackets
  <2>2. ASSUME \A f \in Fpga : cycle'[f] = cycle[f] PROVE OwnPackets'
    BY <2>2 DEF OwnInv, OwnPackets
  <2>3. CASE cycle' = [cycle EXCEPT !.mcu = TRUE, !.total = @ + 1]
    BY <2>2, <2>3 DEF CycleTypes, Fpga
  <2>4. CASE p.of \in Fpga /\ p.header /\ cycle' = [Store(cycle, p.of, p) EXCEPT !.last_fpga_type = p.of]
    <3>1. \A f \in Fpga : cycle'[f] = Store(cycle, p.of, p)[f]
      BY <1>1, <2>4, StoreIs DEF Fpga
    <3>2. /\ Store(cycle, p.of, p)[p.of] = Append(cycle[p.of], p)
          /\ \A g \in Fpga : g # p.of => Store(cycle, p.of, p)[g] = cycle[g]
      BY <1>1, <2>4, StoreIs
    <3>3. /\ p.of \in Fpga /\ cycle'[p.of] = Append(cycle[p.of], p)
          /\ \A g \in Fpga : g # p.of => cycle'[g] = cycle[g]
      BY <2>4, <3>1, <3>2
    <3> QED
      BY <2>1, <3>3
  <2>5. CASE p.of \in Fpga /\ last \in Fpga /\ ~p.header /\ cycle' = Store(cycle, last, p)
    <3>1. p.of = last \/ p.orphan
      BY <1>4, <2>5 DEF Fpga
    <3>2. /\ Store(cycle, last, p)[last] = Append(cycle[last], p)
          /\ \A g \in Fpga : g # last => Store(cycle, last, p)[g] = cycle[g]
      BY <1>1, <2>5, StoreIs
    <3>3. /\ last \in Fpga /\ cycle'[last] = Append(cycle[last], p)
          /\ \A g \in Fpga : g # last => cycle'[g] = cycle[g]
      BY <2>5, <3>2
    <3> QED
      BY <2>1, <3>1, <3>3
  <2> QED
    BY <1>2, <2>2, <2>3, <2>4, <2>5 DEF Parsed
<1> QED
  BY <1>3, <1>6, <1>7 DEF OwnInv

\* What a packet changes when it is given to f: last is named last afterwards.
Given(c, f, p, last) ==
    /\ c.total = cycle.total + 1 /\ c.last_fpga_type = last
    /\ c.mcu <=> (cycle.mcu \/ f = "mcu")
    /\ c.assistant = IF f = "assistant" THEN Append(cycle.assistant, p) ELSE cycle.assistant
    /\ c.manager = IF f = "manager" THEN Append(cycle.manager, p) ELSE cycle.manager

\* A packet is ignored, or given to the MCU, to the FPGA it names or to the last named.
LEMMA ParsedGives ==
    ASSUME CycleTypes, NEW p \in Packet, NEW c, Parsed(c, p)
    PROVE  \/ c = cycle /\ ~p.header /\ p.of \in Fpga /\ cycle.last_fpga_type = "none"
           \/ p.of = "mcu" /\ Given(c, "mcu", p, cycle.last_fpga_type)
           \/ p.header /\ p.of \in Fpga /\ Given(c, p.of, p, p.of)
           \/ /\ ~p.header /\ p.of \in Fpga /\ cycle.last_fpga_type \in Fpga
              /\ Given(c, cycle.last_fpga_type, p, cycle.last_fpga_type)
<1> DEFINE C == [last_fpga_type : Fpga \cup {"none"}, assistant : Seq(Packet),
                 manager : Seq(Packet), mcu : BOOLEAN, total : Nat]
<1>1. cycle \in C /\ cycle["assistant"] = cycle.assistant /\ cycle["manager"] = cycle.manager
  BY DEF CycleTypes
<1>2. ASSUME NEW f \in Fpga
      PROVE  /\ Store(cycle, f, p) \in C
             /\ Given(Store(cycle, f, p), f, p, cycle.last_fpga_type)
  <2> DEFINE d == Store(cycle, f, p)
  <2>1. /\ d \in C /\ d[f] = Append(cycle[f], p) /\ \A g \in Fpga : g # f => d[g] = cycle[g]
        /\ d.total = cycle.total + 1 /\ d.mcu = cycle.mcu
        /\ d.last_fpga_type = cycle.last_fpga_type
    BY StoreIs
  <2> HIDE DEF d
  <2>2. d.assistant = d["assistant"] /\ d.manager = d["manager"]
    OBVIOUS
  <2>3. /\ d.assistant = IF f = "assistant" THEN Append(cycle.assistant, p) ELSE cycle.assistant
        /\ d.manager = IF f = "manager" THEN Append(cycle.manager, p) ELSE cycle.manager
    BY <1>1, <2>1, <2>2 DEF Fpga
  <2>4. f # "mcu"
    BY DEF Fpga
  <2> QED
    BY <2>1, <2>3, <2>4 DEF Given, d
<1>3. CASE p.of = "mcu" /\ c = [cycle EXCEPT !.mcu = TRUE, !.total = @ + 1]
  BY <1>1, <1>3 DEF Given
<1>4. CASE p.of \in Fpga /\ p.header /\ c = [Store(cycle, p.of, p) EXCEPT !.last_fpga_type = p.of]
  <2> DEFINE d == Store(cycle, p.of, p)
  <2>1. d \in C /\ Given(d, p.of, p, cycle.last_fpga_type)
    BY <1>2, <1>4
  <2> HIDE DEF d
  <2>2. c = [d EXCEPT !.last_fpga_type = p.of]
    BY <1>4 DEF d
  <2>3. /\ c.total = d.total /\ c.mcu = d.mcu /\ c.assistant = d.assistant /\ c.manager = d.manager
        /\ c.last_fpga_type = p.of
    BY <2>1, <2>2
  <2> QED
    BY <1>4, <2>1, <2>3 DEF Given
<1>5. CASE /\ p.of \in Fpga /\ ~p.header /\ cycle.last_fpga_type \in Fpga
           /\ c = Store(cycle, cycle.last_fpga_type, p)
  BY <1>2, <1>5
<1> QED
  BY <1>3, <1>4, <1>5 DEF Parsed

\* The packet after those that the cycle holds is held afterwards, and no other.
LEMMA HoldsGrows ==
    ASSUME NEW next \in 0..5, NEW first \in 0..5, NEW n \in 0..5, next = (first + n) % 6,
           NEW k \in 0..5
    PROVE  (From(first, k) < n + 1 <=> (From(first, k) < n \/ k = next))
           /\ (k = next => ~(From(first, k) < n))
BY DEF From

\* An answer is six packets, again and again.
LEMMA AnswersRepeat ==
    /\ \A a, b \in Nat : a % 6 = b % 6 => AnswerAt(a) = AnswerAt(b)
    /\ AnswerAt(0) = [of |-> "assistant", header |-> TRUE, orphan |-> FALSE]
    /\ AnswerAt(1) = [of |-> "assistant", header |-> FALSE, orphan |-> FALSE]
    /\ AnswerAt(2) = [of |-> "manager", header |-> TRUE, orphan |-> FALSE]
    /\ AnswerAt(3) = [of |-> "manager", header |-> FALSE, orphan |-> FALSE]
    /\ AnswerAt(4) = [of |-> "manager", header |-> FALSE, orphan |-> FALSE]
    /\ AnswerAt(5) = [of |-> "mcu", header |-> FALSE, orphan |-> FALSE]
<1>1. /\ 0 % 6 = 0 /\ 1 % 6 = 1 /\ 2 % 6 = 2 /\ 3 % 6 = 3 /\ 4 % 6 = 4 /\ 5 % 6 = 5
      /\ 0 + 1 = 1 /\ 1 + 1 = 2 /\ 2 + 1 = 3 /\ 3 + 1 = 4 /\ 4 + 1 = 5 /\ 5 + 1 = 6
  OBVIOUS
<1>2. \A a, b \in Nat : a % 6 = b % 6 => AnswerAt(a) = AnswerAt(b)
  BY DEF AnswerAt
<1>3. /\ AnswerAt(0) = [of |-> Answer[1].of, header |-> Answer[1].header, orphan |-> FALSE]
      /\ AnswerAt(1) = [of |-> Answer[2].of, header |-> Answer[2].header, orphan |-> FALSE]
      /\ AnswerAt(2) = [of |-> Answer[3].of, header |-> Answer[3].header, orphan |-> FALSE]
      /\ AnswerAt(3) = [of |-> Answer[4].of, header |-> Answer[4].header, orphan |-> FALSE]
      /\ AnswerAt(4) = [of |-> Answer[5].of, header |-> Answer[5].header, orphan |-> FALSE]
      /\ AnswerAt(5) = [of |-> Answer[6].of, header |-> Answer[6].header, orphan |-> FALSE]
  BY <1>1 DEF AnswerAt
<1>4. /\ Answer[1].of = "assistant" /\ Answer[2].of = "assistant" /\ Answer[3].of = "manager"
      /\ Answer[4].of = "manager" /\ Answer[5].of = "manager" /\ Answer[6].of = "mcu"
      /\ Answer[1].header = TRUE /\ Answer[2].header = FALSE /\ Answer[3].header = TRUE
      /\ Answer[4].header = FALSE /\ Answer[5].header = FALSE /\ Answer[6].header = FALSE
  BY AnswerIs
<1> QED
  BY <1>2, <1>3, <1>4, Zenon

\* The headers among the packets of a sequence.
HeadersOf(s) == {i \in 1..Len(s) : s[i].header}

\* One more packet is at most one more header.
LEMMA HeadersGrow ==
    ASSUME NEW s \in Seq(Packet), NEW p \in Packet
    PROVE  /\ Len(Append(s, p)) = Len(s) + 1 /\ Len(s) \in Nat
           /\ HeadersOf(Append(s, p)) =
                IF p.header THEN HeadersOf(s) \cup {Len(s) + 1} ELSE HeadersOf(s)
<1> DEFINE t == Append(s, p)
           n == Len(s)
<1>1. /\ n \in Nat /\ Len(t) = n + 1 /\ t[n + 1] = p /\ \A i \in 1..n : t[i] = s[i]
  OBVIOUS
<1> HIDE DEF t, n
<1>2. HeadersOf(t) = IF p.header THEN HeadersOf(s) \cup {n + 1} ELSE HeadersOf(s)
  BY <1>1 DEF HeadersOf, n
<1> QED
  BY <1>1, <1>2 DEF t, n

\* With an empty cycle any place may count as the first that was read.
LEMMA EmptyTurn ==
    ASSUME CycleTypes, NEW next \in 0..5, NEW first \in 0..5, AnswersFrom(next, first)
    PROVE  /\ \E one \in 0..5 : AnswersFrom(next, one) /\ next = (one + cycle.total) % 6
           /\ cycle.total = 0 => \A one \in 0..5 : AnswersFrom(next, one)
<1>1. cycle.total \in 0..6
  BY DEF CycleTypes, AnswersFrom
<1>2. ASSUME cycle.total = 0, NEW one \in 0..5 PROVE AnswersFrom(next, one)
  <2>1. \A k \in 0..5 : ~Holds(first, k) /\ ~Holds(one, k)
    BY <1>2 DEF Holds, From
  <2>2. \A k \in 0..5 : Held(first, k) = 0 /\ Held(one, k) = 0
    BY <2>1 DEF Held
  <2>3. /\ ~Holds(first, 0) /\ ~Holds(first, 2) /\ ~Holds(first, 5)
        /\ ~Holds(one, 0) /\ ~Holds(one, 2) /\ ~Holds(one, 5)
    BY <2>1
  <2>4. /\ Held(first, 0) = Held(one, 0) /\ Held(first, 1) = Held(one, 1)
        /\ Held(first, 2) = Held(one, 2) /\ Held(first, 3) = Held(one, 3)
        /\ Held(first, 4) = Held(one, 4)
    BY <2>2
  <2>5. cycle.total > 0 => next = (one + cycle.total) % 6
    BY <1>2
  <2> QED
    BY <1>2, <2>3, <2>4, <2>5, Zenon DEF AnswersFrom
<1>3. CASE cycle.total = 0
  <2>1. next = (next + cycle.total) % 6
    BY <1>3
  <2> QED
    BY <1>2, <1>3, <2>1
<1>4. CASE cycle.total > 0
  BY <1>1, <1>4 DEF AnswersFrom
<1> QED
  BY <1>1, <1>2, <1>3, <1>4

\* A packet in its turn is read as the packet it is, unless nothing was read before.
LEMMA ReadInTurn ==
    ASSUME CycleTypes, NEW next \in 0..5, NEW first \in 0..5, AnswersFrom(next, first),
           next = (first + cycle.total) % 6, cycle.total < 6, NEW c, NEW p,
           p = AnswerAt(next), Parsed(c, p)
    PROVE  \/ c = cycle /\ cycle.total = 0 /\ next \in {1, 3, 4} /\ cycle.last_fpga_type = "none"
           \/ next \in {0, 1} /\ Given(c, "assistant", p, "assistant")
           \/ next \in {2, 3, 4} /\ Given(c, "manager", p, "manager")
           \/ next = 5 /\ Given(c, "mcu", p, cycle.last_fpga_type)
<1>1. p \in Packet
  <2>1. next = 0 \/ next = 1 \/ next = 2 \/ next = 3 \/ next = 4 \/ next = 5
    OBVIOUS
  <2>2. /\ AnswerAt(0) \in Packet /\ AnswerAt(1) \in Packet /\ AnswerAt(2) \in Packet
        /\ AnswerAt(3) \in Packet /\ AnswerAt(4) \in Packet /\ AnswerAt(5) \in Packet
    <3>1. \A f \in {"assistant", "manager", "mcu"} : \A b \in BOOLEAN :
             [of |-> f, header |-> b, orphan |-> FALSE] \in Packet
      BY DEF Packet, Fpga
    <3> QED
      BY <3>1, AnswersRepeat
  <2> QED
    BY <2>1, <2>2, Zenon
<1>2. cycle.total \in 0..5 /\ cycle.last_fpga_type \in Fpga \cup {"none"}
  <2>1. cycle.total \in Nat /\ cycle.last_fpga_type \in Fpga \cup {"none"}
    BY DEF CycleTypes
  <2> DEFINE n == cycle.total
  <2>2. n \in Nat /\ n < 6
    BY <2>1
  <2> HIDE DEF n
  <2>3. n \in 0..5
    BY <2>2
  <2> QED
    BY <2>1, <2>3 DEF n
<1>3. /\ cycle.last_fpga_type = "none" => cycle.total = 0 \/ (first = 5 /\ cycle.total = 1)
      /\ cycle.last_fpga_type # "none" =>
           cycle.last_fpga_type = IF next \in {1, 2} THEN "assistant" ELSE "manager"
  BY DEF AnswersFrom
<1>4. /\ next \in {0, 1} <=> p.of = "assistant"
      /\ next \in {2, 3, 4} <=> p.of = "manager"
      /\ next = 5 <=> p.of = "mcu"
      /\ p.header <=> next \in {0, 2}
  <2>1. next = 0 \/ next = 1 \/ next = 2 \/ next = 3 \/ next = 4 \/ next = 5
    OBVIOUS
  <2> QED
    BY <2>1, AnswersRepeat
<1>5. CASE c = cycle /\ ~p.header /\ p.of \in Fpga /\ cycle.last_fpga_type = "none"
  <2>1. next \in {1, 3, 4}
    BY <1>4, <1>5 DEF Fpga
  <2>2. cycle.total = 0
    BY <1>2, <1>3, <1>5, <2>1
  <2> QED
    BY <1>5, <2>1, <2>2
<1>6. CASE p.of = "mcu" /\ Given(c, "mcu", p, cycle.last_fpga_type)
  BY <1>4, <1>6
<1>7. CASE p.header /\ p.of \in Fpga /\ Given(c, p.of, p, p.of)
  BY <1>4, <1>7 DEF Fpga
<1>8. CASE /\ ~p.header /\ p.of \in Fpga /\ cycle.last_fpga_type \in Fpga
           /\ Given(c, cycle.last_fpga_type, p, cycle.last_fpga_type)
  <2>1. next \in {1, 3, 4}
    BY <1>4, <1>8 DEF Fpga
  <2>2. cycle.last_fpga_type = IF next \in {1, 2} THEN "assistant" ELSE "manager"
    BY <1>3, <1>8 DEF Fpga
  <2> QED
    BY <1>8, <2>1, <2>2
<1> QED
  BY <1>1, <1>5, <1>6, <1>7, <1>8, ParsedGives

\* Nothing is lost now and nothing was lost before.
LEMMA NoneLost ==
    ASSUME NEW l \in Nat, NEW gone \in SUBSET (1..6)
    PROVE  /\ l + Cardinality(gone) \in Nat /\ l + Cardinality(gone) >= l
           /\ l + Cardinality(gone) = 0 => l = 0 /\ gone = {}
<1>1. IsFiniteSet(1..6)
  <2>1. 1 \in Int /\ 6 \in Int
    OBVIOUS
  <2> QED
    BY <2>1, FS_Interval, Zenon
<1>2. IsFiniteSet(gone)
  BY <1>1, FS_Subset
<1>3. Cardinality(gone) \in Nat /\ (Cardinality(gone) = 0 <=> gone = {})
  BY <1>2, FS_CardinalityType, FS_EmptySet
<1> QED
  BY <1>3

\* One wire behind the other.
LEMMA ConcatIs ==
    ASSUME NEW v \in Seq(Packet), NEW w \in Seq(Packet)
    PROVE  /\ Len(v \o w) = Len(v) + Len(w) /\ Len(v) \in Nat /\ Len(w) \in Nat
           /\ \A i \in 1..Len(v) : (v \o w)[i] = v[i]
           /\ \A i \in 1..Len(w) : (v \o w)[Len(v) + i] = w[i]
OBVIOUS

\* An empty cycle goes on with the packets that are on the wire.
LEMMA EmptyAnswers ==
    ASSUME NEW next \in 0..5, cycle' = EmptyCycle, (next + Len(wire')) % 6 = 0,
           \A i \in 1..Len(wire') : wire'[i] = AnswerAt(next + i - 1)
    PROVE  AnswersFrom(next, next)'
<1>1. /\ cycle.last_fpga_type' = "none" /\ cycle.assistant' = <<>> /\ cycle.manager' = <<>>
      /\ cycle.mcu' = FALSE /\ cycle.total' = 0
      /\ cycle'["assistant"] = <<>> /\ cycle'["manager"] = <<>>
  BY EmptyIs
<1>2. \A k \in 0..5 : ~Holds(next, k)' /\ Held(next, k)' = 0
  BY <1>1 DEF Holds, Held, From
<1>3. /\ ~Holds(next, 0)' /\ ~Holds(next, 2)' /\ ~Holds(next, 5)'
      /\ Held(next, 0)' = 0 /\ Held(next, 1)' = 0 /\ Held(next, 2)' = 0 /\ Held(next, 3)' = 0
      /\ Held(next, 4)' = 0
  BY <1>2
<1>4. Headers("assistant")' = {} /\ Headers("manager")' = {}
  BY <1>1 DEF Headers
<1>5. /\ Len(cycle.assistant') = Held(next, 0)' + Held(next, 1)'
      /\ Len(cycle.manager') = Held(next, 2)' + Held(next, 3)' + Held(next, 4)'
      /\ cycle.total' <= 6 /\ ~(cycle.total' > 0)
  BY <1>1, <1>3
<1> QED
  BY <1>1, <1>3, <1>4, <1>5 DEF AnswersFrom

\* One query after the other: the answers follow on the wire.
LEMMA QueryTurns == CycleTypes /\ TurnInv /\ Query => TurnInv'
<1> SUFFICES ASSUME CycleTypes, TurnInv, Query, lost' = 0
             PROVE  \E next, first \in 0..5 : AnswersFrom(next, first)'
  BY DEF TurnInv
<1>1. PICK gone \in SUBSET (1..6) : lost' = lost + Cardinality(gone) /\ wire' = wire \o Surviving(gone)
  BY AnswerIs DEF Query
<1>2. lost = 0 /\ gone = {}
  BY <1>1, NoneLost DEF CycleTypes
<1> DEFINE w == Surviving({})
<1>3. w \in Seq(Packet) /\ Len(w) = 6 /\ \A i \in 1..6 : w[i] = AnswerAt(i - 1)
  BY SurvivingWhole DEF Whole
<1> HIDE DEF w
<1>4. PICK next \in 0..5, first \in 0..5 : AnswersFrom(next, first)
  BY <1>2 DEF TurnInv
<1>5. /\ wire \in Seq(Packet) /\ Len(wire) \in Nat /\ Len(wire') = Len(wire) + 6
      /\ \A i \in 1..Len(wire) : wire'[i] = wire[i]
      /\ \A i \in 1..6 : wire'[Len(wire) + i] = w[i]
  <2>1. wire \in Seq(Packet) /\ wire' = wire \o w
    BY <1>1, <1>2 DEF CycleTypes, w
  <2>2. /\ Len(wire \o w) = Len(wire) + Len(w) /\ Len(wire) \in Nat
        /\ \A i \in 1..Len(wire) : (wire \o w)[i] = wire[i]
        /\ \A i \in 1..Len(w) : (wire \o w)[Len(wire) + i] = w[i]
    BY <1>3, <2>1, ConcatIs
  <2> QED
    BY <1>3, <2>1, <2>2
<1>6. (next + Len(wire)) % 6 = 0 /\ \A i \in 1..Len(wire) : wire[i] = AnswerAt(next + i - 1)
  BY <1>4 DEF AnswersFrom
<1>7. ASSUME NEW i \in 1..Len(wire') PROVE wire'[i] = AnswerAt(next + i - 1)
  <2>1. CASE i \in 1..Len(wire)
    BY <1>5, <1>6, <2>1
  <2>2. CASE i \notin 1..Len(wire)
    <3>1. i - Len(wire) \in 1..6 /\ Len(wire) + (i - Len(wire)) = i
      BY <1>5, <2>2
    <3>2. wire'[i] = AnswerAt((i - Len(wire)) - 1)
      BY <1>3, <1>5, <3>1
    <3>3. /\ (next + i - 1) % 6 = ((i - Len(wire)) - 1) % 6
          /\ next + i - 1 \in Nat /\ (i - Len(wire)) - 1 \in Nat
      <4> DEFINE L == Len(wire)
                 q == (next + L) \div 6
                 j == (i - L) - 1
      <4>1. L \in Nat /\ next + L = 6 * q /\ q \in Nat
        BY <1>5, <1>6
      <4>2. j \in 0..5 /\ i = L + j + 1
        BY <1>5, <3>1
      <4> HIDE DEF L, q, j
      <4>3. next + i - 1 = 6 * q + j
        BY <4>1, <4>2
      <4>4. (6 * q + j) % 6 = j % 6
        BY <4>1, <4>2
      <4>5. next + i - 1 \in Nat /\ j \in Nat
        BY <4>1, <4>2
      <4> QED
        BY <4>3, <4>4, <4>5 DEF L, j
    <3> QED
      BY <3>2, <3>3, AnswersRepeat
  <2> QED
    BY <2>1, <2>2
<1>8. (next + Len(wire')) % 6 = 0
  BY <1>5, <1>6
<1>9. cycle' = EmptyCycle
  BY DEF Query
<1> QED
  BY <1>7, <1>8, <1>9, EmptyAnswers

\* A query that fails leaves the wire as it is.
LEMMA FailureTurns == CycleTypes /\ TurnInv /\ QueryFails => TurnInv'
<1> SUFFICES ASSUME CycleTypes, TurnInv, QueryFails, lost' = 0
             PROVE  \E next, first \in 0..5 : AnswersFrom(next, first)'
  BY DEF TurnInv
<1>1. lost = 0 /\ wire' = wire /\ cycle' = EmptyCycle
  BY DEF QueryFails
<1>2. PICK next \in 0..5, first \in 0..5 : AnswersFrom(next, first)
  BY <1>1 DEF TurnInv
<1>3. /\ (next + Len(wire')) % 6 = 0
      /\ \A i \in 1..Len(wire') : wire'[i] = AnswerAt(next + i - 1)
  BY <1>1, <1>2 DEF AnswersFrom
<1> QED
  BY <1>1, <1>3, EmptyAnswers

\* Which FPGA is named last once the packet at next is read.
LEMMA LastGrows ==
    ASSUME NEW next \in 0..5, NEW then, then = (next + 1) % 6, NEW last, NEW new,
           last # "none" => last = IF next \in {1, 2} THEN "assistant" ELSE "manager",
           new = IF next \in {0, 1} THEN "assistant" ELSE IF next \in {2, 3, 4} THEN "manager" ELSE last
    PROVE  new # "none" => new = IF then \in {1, 2} THEN "assistant" ELSE "manager"
<1>1. then = IF next = 5 THEN 0 ELSE next + 1
  OBVIOUS
<1>2. next = 0 \/ next = 1 \/ next = 2 \/ next = 3 \/ next = 4 \/ next = 5
  OBVIOUS
<1> QED
  BY <1>1, <1>2

\* Only the MCU's packet is read while no FPGA is named: it is the first.
LEMMA NoneGrows ==
    ASSUME NEW first \in 0..5, NEW n \in 0..5, (first + n) % 6 = 5, n = 0 \/ (first = 5 /\ n = 1)
    PROVE  first = 5 /\ n = 0
OBVIOUS

\* The cycle reads the packet p, whose turn it is, and the turn passes.
TurnPasses(next, first, p, then) ==
    /\ next = (first + cycle.total) % 6 /\ cycle.total < 6 /\ (p.header <=> next \in {0, 2})
    /\ cycle.last_fpga_type' = IF next \in {0, 1} THEN "assistant"
                               ELSE IF next \in {2, 3, 4} THEN "manager"
                               ELSE cycle.last_fpga_type
    /\ cycle.total' = cycle.total + 1
    /\ cycle.mcu' <=> (cycle.mcu \/ next = 5)
    /\ cycle.assistant' = IF next \in {0, 1} THEN Append(cycle.assistant, p) ELSE cycle.assistant
    /\ cycle.manager' = IF next \in {2, 3, 4} THEN Append(cycle.manager, p) ELSE cycle.manager
    /\ then = (next + 1) % 6 /\ (then + Len(wire')) % 6 = 0
    /\ \A i \in 1..Len(wire') : wire'[i] = AnswerAt(then + i - 1)

\* The packet in its turn is added to what the cycle holds.
LEMMA TurnGrows ==
    ASSUME CycleTypes, NEW next \in 0..5, NEW first \in 0..5, AnswersFrom(next, first), NEW p \in Packet,
           NEW then \in 0..5, TurnPasses(next, first, p, then)
    PROVE  AnswersFrom(then, first)'
<1> DEFINE n == cycle.total
           a == cycle.assistant
           m == cycle.manager
<1>0. /\ next = (first + n) % 6 /\ then = (next + 1) % 6 /\ cycle.total' = n + 1
      /\ cycle.last_fpga_type' = IF next \in {0, 1} THEN "assistant"
                                 ELSE IF next \in {2, 3, 4} THEN "manager"
                                 ELSE cycle.last_fpga_type
      /\ cycle.mcu' <=> (cycle.mcu \/ next = 5)
      /\ p.header <=> next \in {0, 2}
  BY DEF TurnPasses
<1>1. n \in Nat /\ n < 6 /\ a \in Seq(Packet) /\ m \in Seq(Packet) /\ a = cycle["assistant"]
      /\ m = cycle["manager"] /\ cycle'["assistant"] = cycle.assistant' /\ cycle'["manager"] = cycle.manager'
  BY DEF CycleTypes, TurnPasses
<1>2. n \in 0..5
  <2> HIDE DEF n
  <2> QED
    BY <1>1
<1>3. \A k \in 0..5 : (Holds(first, k)' <=> (Holds(first, k) \/ k = next))
                      /\ (k = next => ~Holds(first, k))
  <2>1. \A k \in 0..5 : (From(first, k) < n + 1 <=> (From(first, k) < n \/ k = next))
                        /\ (k = next => ~(From(first, k) < n))
    <3>1. next = (first + n) % 6
      BY <1>0
    <3> HIDE DEF n
    <3> QED
      BY <1>2, <3>1, HoldsGrows
  <2>2. cycle.total' = n + 1
    BY <1>0
  <2>3. \A k \in 0..5 : (Holds(first, k) <=> From(first, k) < n) /\ (Holds(first, k)' <=> From(first, k) < n + 1)
    BY <2>2 DEF Holds, From
  <2> QED
    BY <2>1, <2>3
<1>4. \A k \in 0..5 : Held(first, k)' = IF k = next THEN Held(first, k) + 1 ELSE Held(first, k)
  BY <1>3 DEF Held
<1>5. \A k \in 0..5 : Held(first, k) \in {0, 1}
  BY DEF Held
<1>6. /\ next = 0 \/ next = 1 \/ next = 2 \/ next = 3 \/ next = 4 \/ next = 5
      /\ then = IF next = 5 THEN 0 ELSE next + 1
  BY <1>0
<1>7. \A i \in 1..Len(wire') : wire'[i] = AnswerAt(then + i - 1)
  BY DEF TurnPasses
<1>8. cycle.total' <= 6 /\ then = (first + cycle.total') % 6 /\ cycle.total' = n + 1
  <2>1. /\ next = (first + n) % 6 /\ then = (next + 1) % 6
        /\ cycle.total' = n + 1
    BY <1>0
  <2> HIDE DEF n
  <2>2. (((first + n) % 6) + 1) % 6 = (first + (n + 1)) % 6 /\ n + 1 <= 6
    BY <1>2
  <2> QED
    BY <2>1, <2>2
<1>9. /\ cycle.last_fpga_type = "none" => n = 0 \/ (first = 5 /\ n = 1)
      /\ cycle.last_fpga_type # "none" =>
           cycle.last_fpga_type = IF next \in {1, 2} THEN "assistant" ELSE "manager"
      /\ cycle.mcu <=> Holds(first, 5)
      /\ Len(a) = Held(first, 0) + Held(first, 1)
      /\ Len(m) = Held(first, 2) + Held(first, 3) + Held(first, 4)
      /\ IF Holds(first, 0) THEN \E i \in Nat : HeadersOf(a) = {i} ELSE HeadersOf(a) = {}
      /\ IF Holds(first, 2) THEN \E i \in Nat : HeadersOf(m) = {i} ELSE HeadersOf(m) = {}
  BY <1>1 DEF AnswersFrom, Headers, HeadersOf
<1>10. cycle.last_fpga_type' = "none" => cycle.total' = 0 \/ (first = 5 /\ cycle.total' = 1)
  <2> SUFFICES ASSUME cycle.last_fpga_type' = "none" PROVE first = 5 /\ cycle.total' = 1
    OBVIOUS
  <2>1. next = 5 /\ cycle.last_fpga_type = "none" /\ next = (first + n) % 6
    BY <1>0, <1>6
  <2>2. n = 0 \/ (first = 5 /\ n = 1)
    BY <1>9, <2>1
  <2> HIDE DEF n
  <2>3. first = 5 /\ n = 0
    BY <1>2, <2>1, <2>2, NoneGrows
  <2> QED
    BY <1>8, <2>3
<1>11. cycle.last_fpga_type' # "none" =>
          cycle.last_fpga_type' = IF then \in {1, 2} THEN "assistant" ELSE "manager"
  <2>1. then = (next + 1) % 6 /\ next \in 0..5
    BY <1>0
  <2>2. cycle.last_fpga_type # "none" =>
          cycle.last_fpga_type = IF next \in {1, 2} THEN "assistant" ELSE "manager"
    BY <1>9
  <2>3. cycle.last_fpga_type' = IF next \in {0, 1} THEN "assistant"
                                ELSE IF next \in {2, 3, 4} THEN "manager"
                                ELSE cycle.last_fpga_type
    BY <1>0
  <2> DEFINE old == cycle.last_fpga_type
             new == cycle.last_fpga_type'
  <2>4. /\ old # "none" => old = IF next \in {1, 2} THEN "assistant" ELSE "manager"
        /\ new = IF next \in {0, 1} THEN "assistant" ELSE IF next \in {2, 3, 4} THEN "manager" ELSE old
    BY <2>2, <2>3
  <2> HIDE DEF old, new
  <2>5. new # "none" => new = IF then \in {1, 2} THEN "assistant" ELSE "manager"
    BY <2>1, <2>4, LastGrows
  <2> QED
    BY <2>5 DEF new
<1>12. cycle.mcu' <=> Holds(first, 5)'
  <2>1. Holds(first, 5)' <=> (Holds(first, 5) \/ 5 = next)
    BY <1>3
  <2>2. cycle.mcu' <=> cycle.mcu \/ next = 5
    BY <1>0
  <2> QED
    BY <1>9, <2>1, <2>2
<1>13. /\ Len(Append(a, p)) = Len(a) + 1 /\ Len(Append(m, p)) = Len(m) + 1
       /\ Len(a) \in Nat /\ Len(m) \in Nat
       /\ HeadersOf(Append(a, p)) = IF p.header THEN HeadersOf(a) \cup {Len(a) + 1} ELSE HeadersOf(a)
       /\ HeadersOf(Append(m, p)) = IF p.header THEN HeadersOf(m) \cup {Len(m) + 1} ELSE HeadersOf(m)
  BY <1>1, HeadersGrow
<1> DEFINE b == cycle.assistant'
           l == cycle.manager'
<1>14. /\ b = IF next \in {0, 1} THEN Append(a, p) ELSE a
       /\ l = IF next \in {2, 3, 4} THEN Append(m, p) ELSE m
  BY DEF TurnPasses
<1>15. Headers("assistant")' = HeadersOf(b) /\ Headers("manager")' = HeadersOf(l)
  BY <1>1 DEF Headers, HeadersOf
<1> HIDE DEF a, m, b, l
<1>16. Len(b) = Held(first, 0)' + Held(first, 1)'
  <2>1. /\ Held(first, 0)' = IF 0 = next THEN Held(first, 0) + 1 ELSE Held(first, 0)
        /\ Held(first, 1)' = IF 1 = next THEN Held(first, 1) + 1 ELSE Held(first, 1)
        /\ Held(first, 0) \in {0, 1} /\ Held(first, 1) \in {0, 1}
    BY <1>4, <1>5
  <2> QED
    BY <1>9, <1>13, <1>14, <2>1
<1>17. Len(l) = Held(first, 2)' + Held(first, 3)' + Held(first, 4)'
  <2>1. /\ Held(first, 2)' = IF 2 = next THEN Held(first, 2) + 1 ELSE Held(first, 2)
        /\ Held(first, 3)' = IF 3 = next THEN Held(first, 3) + 1 ELSE Held(first, 3)
        /\ Held(first, 4)' = IF 4 = next THEN Held(first, 4) + 1 ELSE Held(first, 4)
        /\ Held(first, 2) \in {0, 1} /\ Held(first, 3) \in {0, 1} /\ Held(first, 4) \in {0, 1}
    BY <1>4, <1>5
  <2>2. Len(m) = Held(first, 2) + Held(first, 3) + Held(first, 4)
    BY <1>9
  <2>3. CASE next \in {2, 3, 4}
    <3>1. Len(l) = Len(m) + 1
      BY <1>13, <1>14, <2>3
    <3> QED
      BY <2>1, <2>2, <2>3, <3>1
  <2>4. CASE next \notin {2, 3, 4}
    BY <1>14, <2>1, <2>2, <2>4
  <2> QED
    BY <2>3, <2>4
<1>18. IF Holds(first, 0)' THEN \E i \in Nat : HeadersOf(b) = {i} ELSE HeadersOf(b) = {}
  <2>1. Holds(first, 0)' <=> Holds(first, 0) \/ next = 0
    BY <1>3
  <2>2. next = 0 => ~Holds(first, 0)
    BY <1>3
  <2>3. CASE next = 0
    <3>1. HeadersOf(b) = {Len(a) + 1} /\ Len(a) + 1 \in Nat
      <4>1. p.header /\ b = Append(a, p)
        BY <1>0, <1>14, <2>3
      <4>2. HeadersOf(a) = {}
        BY <1>9, <2>2, <2>3
      <4>3. HeadersOf(b) = HeadersOf(a) \cup {Len(a) + 1}
        BY <1>13, <4>1
      <4>4. Len(a) + 1 \in Nat
        BY <1>13
      <4> QED
        BY <4>2, <4>3, <4>4
    <3> QED
      BY <2>1, <2>3, <3>1
  <2>4. CASE next # 0
    <3>1. HeadersOf(b) = HeadersOf(a)
      BY <1>0, <1>6, <1>13, <1>14, <2>4
    <3> QED
      BY <1>9, <2>1, <2>4, <3>1
  <2> QED
    BY <2>3, <2>4
<1>19. IF Holds(first, 2)' THEN \E i \in Nat : HeadersOf(l) = {i} ELSE HeadersOf(l) = {}
  <2>1. Holds(first, 2)' <=> Holds(first, 2) \/ next = 2
    BY <1>3
  <2>2. next = 2 => ~Holds(first, 2)
    BY <1>3
  <2>3. CASE next = 2
    <3>1. HeadersOf(l) = {Len(m) + 1} /\ Len(m) + 1 \in Nat
      <4>1. p.header /\ l = Append(m, p)
        BY <1>0, <1>14, <2>3
      <4>2. HeadersOf(m) = {}
        BY <1>9, <2>2, <2>3
      <4>3. HeadersOf(l) = HeadersOf(m) \cup {Len(m) + 1}
        BY <1>13, <4>1
      <4>4. Len(m) + 1 \in Nat
        BY <1>13
      <4> QED
        BY <4>2, <4>3, <4>4
    <3> QED
      BY <2>1, <2>3, <3>1
  <2>4. CASE next # 2
    <3>1. HeadersOf(l) = HeadersOf(m)
      BY <1>0, <1>6, <1>13, <1>14, <2>4
    <3> QED
      BY <1>9, <2>1, <2>4, <3>1
  <2> QED
    BY <2>3, <2>4
<1>20. cycle.total' > 0 => then = (first + cycle.total') % 6
  BY <1>8
<1>21. /\ Len(cycle.assistant') = Held(first, 0)' + Held(first, 1)'
       /\ Len(cycle.manager') = Held(first, 2)' + Held(first, 3)' + Held(first, 4)'
  BY <1>16, <1>17 DEF b, l
<1>22. /\ IF Holds(first, 0)' THEN \E i \in Nat : Headers("assistant")' = {i}
                               ELSE Headers("assistant")' = {}
       /\ IF Holds(first, 2)' THEN \E i \in Nat : Headers("manager")' = {i}
                               ELSE Headers("manager")' = {}
  BY <1>15, <1>18, <1>19
<1>23. (then + Len(wire')) % 6 = 0
  BY DEF TurnPasses
<1> HIDE DEF n, b, l
<1> QED
  BY <1>7, <1>8, <1>10, <1>11, <1>12, <1>20, <1>21, <1>22, <1>23 DEF AnswersFrom

\* Where the answers go on when the first packet is read.
LEMMA WireTurns ==
    ASSUME CycleTypes, Receive, NEW next \in 0..5, NEW first \in 0..5, AnswersFrom(next, first),
           NEW then, then = (next + 1) % 6
    PROVE  /\ then \in 0..5 /\ (then + Len(wire')) % 6 = 0 /\ wire[1] = AnswerAt(next)
           /\ wire[1] \in Packet /\ cycle' = Parse(cycle, wire[1]) /\ Len(wire') = Len(wire) - 1
           /\ Len(wire) \in Nat
           /\ \A i \in 1..Len(wire') : wire'[i] = AnswerAt(then + i - 1)
<1>1. /\ wire \in Seq(Packet) /\ Len(wire) \in Nat /\ Len(wire) > 0
      /\ Len(wire') = Len(wire) - 1 /\ wire[1] \in Packet
      /\ \A i \in 1..(Len(wire) - 1) : wire'[i] = wire[i + 1]
      /\ cycle' = Parse(cycle, wire[1])
  BY TailIs DEF CycleTypes, Receive
<1>2. (next + Len(wire)) % 6 = 0 /\ \A i \in 1..Len(wire) : wire[i] = AnswerAt(next + i - 1)
  BY DEF AnswersFrom
<1>3. then \in 0..5 /\ then = IF next = 5 THEN 0 ELSE next + 1
  OBVIOUS
<1>4. (then + Len(wire')) % 6 = 0
  <2>1. \A x \in Nat : (next + x) % 6 = 0 /\ x > 0 => (then + (x - 1)) % 6 = 0
    BY <1>3
  <2> QED
    BY <1>1, <1>2, <2>1
<1>5. wire[1] = AnswerAt(next)
  <2>1. 1 \in 1..Len(wire) /\ next + 1 - 1 = next
    BY <1>1
  <2> QED
    BY <1>2, <2>1
<1>6. ASSUME NEW i \in 1..Len(wire') PROVE wire'[i] = AnswerAt(then + i - 1)
  <2>1. wire'[i] = wire[i + 1] /\ i + 1 \in 1..Len(wire)
    BY <1>1
  <2>2. wire[i + 1] = AnswerAt(next + (i + 1) - 1)
    BY <1>2, <2>1
  <2>3. /\ (next + (i + 1) - 1) % 6 = (then + i - 1) % 6
        /\ next + (i + 1) - 1 \in Nat /\ then + i - 1 \in Nat
    <3>1. i \in Nat \ {0}
      BY <1>1
    <3>2. CASE next = 5
      <4>1. \A x \in Nat : (x + 6) % 6 = x % 6
        OBVIOUS
      <4>2. next + (i + 1) - 1 = (i - 1) + 6 /\ then + i - 1 = i - 1 /\ i - 1 \in Nat
        BY <1>3, <3>1, <3>2
      <4> QED
        BY <4>1, <4>2
    <3>3. CASE next # 5
      BY <1>3, <3>1, <3>3
    <3> QED
      BY <3>2, <3>3
  <2> QED
    BY <2>1, <2>2, <2>3, AnswersRepeat
<1> QED
  BY <1>1, <1>3, <1>4, <1>5, <1>6

\* A cycle that reads its packets in turn goes on in turn.
LEMMA ReceiveTurns == CycleTypes /\ TurnInv /\ Receive => TurnInv'
<1> SUFFICES ASSUME CycleTypes, TurnInv, Receive, lost' = 0
             PROVE  \E next, first \in 0..5 : AnswersFrom(next, first)'
  BY DEF TurnInv
<1>1. PICK next \in 0..5, any \in 0..5 : AnswersFrom(next, any)
  BY DEF TurnInv, Receive
<1>2. PICK first \in 0..5 : AnswersFrom(next, first) /\ next = (first + cycle.total) % 6
  BY <1>1, EmptyTurn
<1> DEFINE then == (next + 1) % 6
           p == wire[1]
<1>3. /\ then \in 0..5 /\ (then + Len(wire')) % 6 = 0 /\ p = AnswerAt(next) /\ p \in Packet
      /\ cycle' = Parse(cycle, p)
      /\ \A i \in 1..Len(wire') : wire'[i] = AnswerAt(then + i - 1)
  BY <1>2, WireTurns
<1>4. then = (next + 1) % 6
  OBVIOUS
<1> HIDE DEF then, p
<1>5. cycle.total < 6
  BY AnswerIs DEF Receive
<1>6. Parsed(cycle', p)
  BY <1>3, ParseIs
<1>7. p.header <=> next \in {0, 2}
  <2>1. next = 0 \/ next = 1 \/ next = 2 \/ next = 3 \/ next = 4 \/ next = 5
    OBVIOUS
  <2> QED
    BY <1>3, <2>1, AnswersRepeat
<1>8. CASE cycle' = cycle /\ cycle.total = 0 /\ next \in {1, 3, 4} /\ cycle.last_fpga_type = "none"
  <2>1. AnswersFrom(next, then)
    BY <1>2, <1>3, <1>8, EmptyTurn
  <2>2. AnswersFrom(then, then)'
    <3>1. /\ \A k : Holds(then, k)' <=> Holds(then, k)
          /\ \A k : Held(then, k)' = Held(then, k)
          /\ Headers("assistant")' = Headers("assistant") /\ Headers("manager")' = Headers("manager")
      BY <1>8 DEF Holds, Held, Headers
    <3>2. cycle'.total = 0 /\ cycle'.last_fpga_type = "none"
      BY <1>8
    <3> QED
      BY <1>3, <1>8, <2>1, <3>1, <3>2 DEF AnswersFrom
  <2> QED
    BY <1>3, <2>2
<1>9. CASE \/ next \in {0, 1} /\ Given(cycle', "assistant", p, "assistant")
           \/ next \in {2, 3, 4} /\ Given(cycle', "manager", p, "manager")
           \/ next = 5 /\ Given(cycle', "mcu", p, cycle.last_fpga_type)
  <2>1. /\ cycle.total' = cycle.total + 1 /\ (cycle.mcu' <=> cycle.mcu \/ next = 5)
        /\ cycle.assistant' = IF next \in {0, 1} THEN Append(cycle.assistant, p) ELSE cycle.assistant
        /\ cycle.manager' = IF next \in {2, 3, 4} THEN Append(cycle.manager, p) ELSE cycle.manager
        /\ cycle.last_fpga_type' = IF next \in {0, 1} THEN "assistant"
                                   ELSE IF next \in {2, 3, 4} THEN "manager"
                                   ELSE cycle.last_fpga_type
    <3>1. CASE next \in {0, 1} /\ Given(cycle', "assistant", p, "assistant")
      BY <3>1 DEF Given
    <3>2. CASE next \in {2, 3, 4} /\ Given(cycle', "manager", p, "manager")
      BY <3>2 DEF Given
    <3>3. CASE next = 5 /\ Given(cycle', "mcu", p, cycle.last_fpga_type)
      BY <3>3 DEF Given
    <3> QED
      BY <1>9, <3>1, <3>2, <3>3
  <2>2. AnswersFrom(then, first)'
    <3>1. TurnPasses(next, first, p, then)
      BY <1>2, <1>3, <1>4, <1>5, <1>7, <2>1 DEF TurnPasses
    <3> QED
      BY <1>2, <1>3, <3>1, TurnGrows
  <2> QED
    BY <1>3, <2>2
<1> QED
  BY <1>2, <1>3, <1>5, <1>6, <1>8, <1>9, ReadInTurn

\* A cycle that reads the six packets of its own query ignores none of them.
LEMMA ReceivePrompt == CycleTypes /\ TurnInv /\ PromptInv /\ Receive => PromptInv'
<1> SUFFICES ASSUME CycleTypes, TurnInv, PromptInv, Receive, lost' = 0, ~delayed'
             PROVE  (cycle.total + Len(wire))' = 6
  BY DEF PromptInv, Receive
<1>1. /\ lost = 0 /\ ~delayed /\ thread = "rx" /\ cycle.total < 6
  BY AnswerIs DEF Receive
<1>2. cycle.total + Len(wire) = 6
  BY <1>1 DEF PromptInv
<1>3. PICK next \in 0..5, any \in 0..5 : AnswersFrom(next, any)
  BY <1>1 DEF TurnInv
<1>4. PICK first \in 0..5 : AnswersFrom(next, first) /\ next = (first + cycle.total) % 6
  BY <1>3, EmptyTurn
<1> DEFINE p == wire[1]
           n == cycle.total
           l == Len(wire)
<1>5. /\ p = AnswerAt(next) /\ p \in Packet /\ cycle' = Parse(cycle, p) /\ l \in Nat
      /\ Len(wire') = l - 1 /\ (next + l) % 6 = 0 /\ n \in Nat /\ n < 6
  BY <1>1, <1>4, WireTurns DEF AnswersFrom, CycleTypes
<1>6. Parsed(cycle', p)
  BY <1>5, ParseIs
<1>7. \/ cycle' = cycle /\ n = 0 /\ next \in {1, 3, 4}
      \/ cycle.total' = n + 1
  <2>1. \/ cycle' = cycle /\ cycle.total = 0 /\ next \in {1, 3, 4} /\ cycle.last_fpga_type = "none"
        \/ next \in {0, 1} /\ Given(cycle', "assistant", p, "assistant")
        \/ next \in {2, 3, 4} /\ Given(cycle', "manager", p, "manager")
        \/ next = 5 /\ Given(cycle', "mcu", p, cycle.last_fpga_type)
    BY <1>1, <1>4, <1>5, <1>6, ReadInTurn
  <2> QED
    BY <2>1 DEF Given
<1>8. n + l = 6
  BY <1>2
<1> HIDE DEF n, l, p
<1>9. ~(n = 0 /\ next \in {1, 3, 4})
  BY <1>5, <1>8
<1>10. cycle.total' = n + 1
  BY <1>7, <1>9
<1> QED
  BY <1>5, <1>8, <1>10

\* A query finds nothing on the wire of a monitor that was in time.
LEMMA QueryPrompt == CycleTypes /\ PromptInv /\ Query => PromptInv'
<1> SUFFICES ASSUME CycleTypes, PromptInv, Query, lost' = 0, ~delayed'
             PROVE  (cycle.total + Len(wire))' = 6
  BY DEF PromptInv, Query
<1>1. PICK gone \in SUBSET (1..6) : lost' = lost + Cardinality(gone) /\ wire' = wire \o Surviving(gone)
  BY AnswerIs DEF Query
<1>2. lost = 0 /\ gone = {}
  BY <1>1, NoneLost DEF CycleTypes
<1>3. wire = <<>> /\ cycle' = EmptyCycle
  BY <1>2 DEF PromptInv, Query
<1> DEFINE w == Surviving({})
<1>4. w \in Seq(Packet) /\ Len(w) = 6
  BY SurvivingWhole DEF Whole
<1> HIDE DEF w
<1>5. wire' = wire \o w
  BY <1>1, <1>2 DEF w
<1>6. <<>> \in Seq(Packet) /\ Len(<<>>) = 0
  OBVIOUS
<1>7. Len(wire') = 6
  BY <1>3, <1>4, <1>5, <1>6, ConcatIs
<1> QED
  BY <1>3, <1>7, EmptyIs

\* The check finds the status packet in a cycle that has read all six.
LEMMA PowerFinds ==
    HealthTypes /\ CycleTypes /\ TurnInv /\ PromptInv /\ MismatchFound /\ PowerCheck => MismatchFound'
<1> SUFFICES ASSUME HealthTypes, CycleTypes, TurnInv, PromptInv, MismatchFound, PowerCheck,
                    notice'.power_done, mismatch', ~stop_flag', lost' = 0, ~delayed'
             PROVE  FALSE
  BY DEF MismatchFound, CycleTypes, PowerCheck, netVars
<1>1. lost = 0 /\ ~delayed /\ thread = "power" /\ mismatch /\ ~stop_flag /\ ~(PowerDue /\ cycle.mcu)
  BY DEF PowerCheck, netVars, envVars
<1>2. ~notice.power_done
  BY <1>1 DEF MismatchFound
<1>3. notice' = [notice EXCEPT !.power_done = @ \/ PowerDue]
  BY DEF PowerCheck
<1>4. PowerDue
  BY <1>2, <1>3 DEF HealthTypes
<1>5. cycle.total = 6
  BY <1>1 DEF PromptInv
<1>6. PICK next \in 0..5, first \in 0..5 : AnswersFrom(next, first)
  BY <1>1 DEF TurnInv
<1>7. Holds(first, 5)
  BY <1>5 DEF Holds, From
<1>8. cycle.mcu
  BY <1>6, <1>7 DEF AnswersFrom
<1> QED
  BY <1>1, <1>4, <1>8

\* The invariant holds at first.
LEMMA CycleBegins == HealthInit => CycleInv
<1> SUFFICES ASSUME HealthInit PROVE CycleInv
  OBVIOUS
<1>1. /\ thread = "head" /\ wire = <<>> /\ late = 0 /\ lost = 0 /\ delayed = FALSE /\ cycle = EmptyCycle
      /\ notice.power_done = FALSE
  BY DEF HealthInit
<1>2. CycleTypes
  <2>1. wire \in Seq(Packet) /\ \A i \in 1..Len(wire) : wire[i].header => wire[i].of \in Fpga
    BY <1>1
  <2> QED
    BY <1>1, <2>1, EmptyIs DEF CycleTypes
<1>3. OwnInv
  BY <1>1, EmptyIs DEF OwnInv, OwnPackets, Fpga
<1>4. \A k \in 0..5 : ~Holds(0, k) /\ Held(0, k) = 0
  BY <1>1, EmptyIs DEF Holds, Held, From
<1>5. Headers("assistant") = {} /\ Headers("manager") = {}
  BY <1>1, EmptyIs DEF Headers
<1>6. AnswersFrom(0, 0)
  BY <1>1, <1>4, <1>5, EmptyIs DEF AnswersFrom
<1>7. TurnInv
  BY <1>6 DEF TurnInv
<1>8. PromptInv /\ MismatchFound
  BY <1>1 DEF PromptInv, MismatchFound
<1> QED
  BY <1>2, <1>3, <1>7, <1>8 DEF CycleInv

\* A step that leaves the wire, the cycle and the losses alone.
LEMMA CycleStays ==
    ASSUME CycleInv, UNCHANGED <<wire, cycle, late, lost>>,
           thread' \in {"head", "rx", "fw", "fw_add", "power", "stats", "exited"},
           delayed' \in BOOLEAN, PromptInv', MismatchFound'
    PROVE  CycleInv'
<1>1. CycleTypes'
  BY DEF CycleInv, CycleTypes
<1>2. OwnInv'
  BY DEF CycleInv, OwnInv, OwnPackets, Owned, HeaderBefore, NoHeaderBefore
<1>3. TurnInv'
  <2>1. ASSUME NEW next \in 0..5, NEW first \in 0..5, AnswersFrom(next, first)
        PROVE  AnswersFrom(next, first)'
    BY <2>1 DEF AnswersFrom, Holds, Held, Headers
  <2> QED
    BY <2>1 DEF CycleInv, TurnInv
<1> QED
  BY <1>1, <1>2, <1>3 DEF CycleInv

\* Every step of the monitor, of the main thread and of the operator keeps it.
LEMMA CycleSteps == CycleInv /\ HealthTypes /\ [HealthNext]_healthVars => CycleInv'
<1> SUFFICES ASSUME CycleInv, HealthTypes, [HealthNext]_healthVars PROVE CycleInv'
  OBVIOUS
<1> USE DEF netVars, mainVars, envVars
<1>0. CycleTypes /\ OwnInv /\ TurnInv /\ PromptInv /\ MismatchFound
  BY DEF CycleInv
<1>1. CASE Query
  <2>1. PICK gone \in SUBSET (1..6) : lost' = lost + Cardinality(gone)
    BY <1>1, AnswerIs DEF Query
  <2>2. lost \in Nat /\ lost' \in Nat /\ lost' >= lost
    BY <1>0, <2>1, NoneLost DEF CycleTypes
  <2>3. notice' = notice /\ mismatch' = mismatch /\ stop_flag' = stop_flag /\ delayed' = delayed
    BY <1>1 DEF Query
  <2>4. MismatchFound'
    BY <1>0, <2>2, <2>3 DEF MismatchFound
  <2> QED
    BY <1>0, <1>1, <2>4, QueryOwns, QueryTurns, QueryPrompt DEF CycleInv
<1>2. CASE QueryFails
  <2>1. /\ thread = "head" /\ thread' = thread /\ wire' = wire /\ cycle' = EmptyCycle /\ lost' = lost
        /\ delayed' = delayed /\ notice' = notice /\ mismatch' = mismatch /\ stop_flag' = stop_flag
        /\ late' = late
    BY <1>2 DEF QueryFails
  <2>2. CycleTypes'
    BY <1>0, <2>1, EmptyIs DEF CycleTypes
  <2>3. ASSUME NEW i \in 1..Len(wire) PROVE Owned(wire, i, "none")
    <3>1. Owned(wire, i, cycle.last_fpga_type)
      BY <1>0 DEF OwnInv
    <3> QED
      BY <3>1 DEF Owned
  <2>4. OwnInv'
    BY <2>1, <2>3, EmptyIs DEF OwnInv, OwnPackets, Owned, HeaderBefore, NoHeaderBefore, Fpga
  <2>5. PromptInv' /\ MismatchFound'
    BY <1>0, <2>1 DEF PromptInv, MismatchFound
  <2> QED
    BY <1>0, <1>2, <2>2, <2>4, <2>5, FailureTurns DEF CycleInv
<1>3. CASE Receive
  <2>1. MismatchFound'
    BY <1>0, <1>3 DEF MismatchFound, Receive
  <2> QED
    BY <1>0, <1>3, <2>1, ReceiveOwns, ReceiveTurns, ReceivePrompt DEF CycleInv
<1>4. CASE ReceiveEnds
  <2>1. /\ thread = "rx" /\ thread' = "fw" /\ delayed' = (delayed \/ (cycle.total < 6 /\ wire # <<>>))
        /\ UNCHANGED <<cycle, wire, late, lost, notice, mismatch, stop_flag>>
    BY <1>4, AnswerIs DEF ReceiveEnds
  <2>2. MismatchFound' /\ delayed' \in BOOLEAN
    BY <1>0, <2>1 DEF MismatchFound, CycleTypes
  <2>3. ASSUME lost' = 0, ~delayed' PROVE wire = <<>> /\ cycle.total = 6
    <3>1. cycle.total + Len(wire) = 6 /\ ~(cycle.total < 6 /\ wire # <<>>)
      BY <1>0, <2>1, <2>3 DEF PromptInv, CycleTypes
    <3>2. /\ cycle.total \in Nat /\ Len(wire) \in Nat /\ (Len(wire) = 0 <=> wire = <<>>)
      BY <1>0 DEF CycleTypes
    <3> DEFINE n == cycle.total
               l == Len(wire)
    <3>3. n \in Nat /\ l \in Nat /\ n + l = 6 /\ (l = 0 <=> wire = <<>>) /\ ~(n < 6 /\ wire # <<>>)
      BY <3>1, <3>2
    <3> HIDE DEF n, l
    <3>4. wire = <<>> /\ n = 6
      BY <3>3
    <3> QED
      BY <3>4 DEF n
  <2>4. PromptInv'
    BY <2>1, <2>3 DEF PromptInv
  <2> QED
    BY <2>1, <2>2, <2>4, CycleStays
<1>5. CASE FwCheck
  <2>1. /\ thread = "fw" /\ thread' \in {"fw_add", "power"}
        /\ UNCHANGED <<cycle, wire, late, lost, delayed, notice, mismatch, stop_flag>>
    BY <1>5 DEF FwCheck
  <2>2. PromptInv' /\ MismatchFound'
    BY <1>0, <2>1 DEF PromptInv, MismatchFound
  <2> QED
    BY <1>0, <2>1, <2>2, CycleStays DEF CycleTypes
<1>6. CASE FwAdd
  <2>1. /\ thread = "fw_add" /\ thread' = "power" /\ notice'.power_done = notice.power_done
        /\ UNCHANGED <<cycle, wire, late, lost, delayed, mismatch, stop_flag>>
    BY <1>6 DEF FwAdd
  <2>2. PromptInv' /\ MismatchFound'
    BY <1>0, <2>1 DEF PromptInv, MismatchFound
  <2> QED
    BY <1>0, <2>1, <2>2, CycleStays DEF CycleTypes
<1>7. CASE PowerCheck
  <2>1. /\ thread = "power" /\ thread' = "stats"
        /\ UNCHANGED <<cycle, wire, late, lost, delayed>>
    BY <1>7 DEF PowerCheck
  <2>2. PromptInv' /\ MismatchFound'
    BY <1>0, <1>7, <2>1, PowerFinds DEF PromptInv, CycleInv
  <2> QED
    BY <1>0, <2>1, <2>2, CycleStays DEF CycleTypes
<1>8. CASE Statistics \/ ThreadExit
  <2>1. /\ thread \in {"stats", "head"} /\ thread' \in {"head", "exited"}
        /\ UNCHANGED <<cycle, wire, late, lost, delayed, notice, mismatch, stop_flag>>
    BY <1>8 DEF Statistics, ThreadExit
  <2>2. PromptInv' /\ MismatchFound'
    BY <1>0, <2>1 DEF PromptInv, MismatchFound
  <2> QED
    BY <1>0, <2>1, <2>2, CycleStays DEF CycleTypes
<1>9. CASE Notify \/ StopMonitor \/ Join \/ Quit \/ UNCHANGED healthVars
  <2>1. UNCHANGED <<thread, cycle, wire, late, lost, delayed, mismatch>>
    BY <1>9 DEF Notify, StopMonitor, Join, Quit, healthVars
  <2>2. (stop_flag => stop_flag')
    BY <1>9 DEF Notify, StopMonitor, Join, Quit, healthVars
  <2>3. notice'.power_done => notice.power_done
    BY <1>9 DEF Notify, StopMonitor, Join, Quit, healthVars, HealthTypes
  <2>4. PromptInv' /\ MismatchFound'
    BY <1>0, <2>1, <2>2, <2>3 DEF PromptInv, MismatchFound
  <2> QED
    BY <1>0, <2>1, <2>4, CycleStays DEF CycleTypes
<1> QED
  BY <1>1, <1>2, <1>3, <1>4, <1>5, <1>6, <1>7, <1>8, <1>9 DEF HealthNext, Thread, Main

\* A complete cycle of a monitor that loses nothing holds each of the six packets once.
LEMMA CycleIsSound == CycleInv => CyclesAreSound
<1> SUFFICES ASSUME CycleInv PROVE CompleteIsWhole
  BY DEF CycleInv, CyclesAreSound
<1>1. OwnPackets
  BY DEF CycleInv, OwnInv
<1>2. ASSUME lost = 0, cycle.total = 6
      PROVE  /\ cycle.mcu
             /\ \A f \in Fpga :
                   /\ Len(cycle[f]) = Cardinality({i \in 1..6 : Answer[i].of = f})
                   /\ Cardinality({i \in 1..Len(cycle[f]) : cycle[f][i].header}) = 1
  <2>1. PICK next \in 0..5, first \in 0..5 : AnswersFrom(next, first)
    BY <1>2 DEF CycleInv, TurnInv
  <2>2. \A k \in 0..5 : Holds(first, k) /\ Held(first, k) = 1
    BY <1>2 DEF Holds, Held, From
  <2>3. /\ cycle.mcu /\ Len(cycle.assistant) = 2 /\ Len(cycle.manager) = 3
        /\ \E i \in Nat : Headers("assistant") = {i}
        /\ \E i \in Nat : Headers("manager") = {i}
    <3>1. Holds(first, 0) /\ Holds(first, 2) /\ Holds(first, 5)
      BY <2>2
    <3>2. Held(first, 0) + Held(first, 1) = 2 /\ Held(first, 2) + Held(first, 3) + Held(first, 4) = 3
      BY <2>2
    <3> QED
      BY <2>1, <3>1, <3>2 DEF AnswersFrom
  <2>4. /\ {i \in 1..6 : Answer[i].of = "assistant"} = 1..2
        /\ {i \in 1..6 : Answer[i].of = "manager"} = 3..5
    <3>1. \A i \in 1..6 : i = 1 \/ i = 2 \/ i = 3 \/ i = 4 \/ i = 5 \/ i = 6
      OBVIOUS
    <3>2. /\ Answer[1].of = "assistant" /\ Answer[2].of = "assistant" /\ Answer[3].of = "manager"
          /\ Answer[4].of = "manager" /\ Answer[5].of = "manager" /\ Answer[6].of = "mcu"
      BY AnswerIs
    <3>3. \A i \in 1..6 : (Answer[i].of = "assistant" <=> i \in 1..2)
                          /\ (Answer[i].of = "manager" <=> i \in 3..5)
      BY <3>1, <3>2
    <3> QED
      BY <3>3
  <2>5. Cardinality(1..2) = 2 /\ Cardinality(3..5) = 3
    <3>1. 1 \in Int /\ 2 \in Int /\ 3 \in Int /\ 5 \in Int
      OBVIOUS
    <3>2. /\ Cardinality(1..2) = IF 1 > 2 THEN 0 ELSE 2 - 1 + 1
          /\ Cardinality(3..5) = IF 3 > 5 THEN 0 ELSE 5 - 3 + 1
      BY <3>1, FS_Interval, Zenon
    <3> QED
      BY <3>2
  <2>6. \A S : (\E i \in Nat : S = {i}) => Cardinality(S) = 1
    BY FS_Singleton
  <2>7. Cardinality(Headers("assistant")) = 1 /\ Cardinality(Headers("manager")) = 1
    BY <2>3, <2>6
  <2>8. ASSUME NEW f \in Fpga
        PROVE  /\ Len(cycle[f]) = Cardinality({i \in 1..6 : Answer[i].of = f})
               /\ Cardinality({i \in 1..Len(cycle[f]) : cycle[f][i].header}) = 1
    <3>1. f = "assistant" \/ f = "manager"
      BY DEF Fpga
    <3>2. cycle["assistant"] = cycle.assistant /\ cycle["manager"] = cycle.manager
      BY DEF CycleInv, CycleTypes
    <3>3. CASE f = "assistant"
      BY <2>3, <2>4, <2>5, <2>7, <3>2, <3>3 DEF Headers
    <3>4. CASE f = "manager"
      BY <2>3, <2>4, <2>5, <2>7, <3>2, <3>4 DEF Headers
    <3> QED
      BY <3>1, <3>3, <3>4
  <2> QED
    BY <2>3, <2>8
<1> QED
  BY <1>1, <1>2, AnswerIs DEF CompleteIsWhole

\* Whatever comes late or never, a packet is shown under its own FPGA, a complete cycle
\* holds the six packets of an answer once each when none was lost, and the 28 V check
\* finds a mismatch unless a packet was lost or late.
THEOREM CyclesHold == TestSpec => []CyclesAreSound
<1>1. TestInit => CycleInv /\ CountInv
  BY CountInit, CycleBegins DEF TestInit
<1>2. CycleInv /\ CountInv /\ [TestNext]_testVars => (CycleInv /\ CountInv)'
  <2>1. [TestNext]_testVars => [HealthNext]_healthVars
    BY DEF TestNext, testVars
  <2>2. CountInv => HealthTypes
    BY DEF CountInv
  <2> QED
    BY <2>1, <2>2, CountInvStep, CycleSteps
<1> QED
  BY <1>1, <1>2, CycleIsSound, PTL DEF TestSpec

-----------------------------------------------------------------------------
(* The time forwarder, for any number of lines, interruptions and packets  *)
(* that are not written: ToldIsUtc.                                        *)
(*                                                                         *)
(* The server counts seconds and days, prints the local time and the day   *)
(* of the year, and the forwarder goes all the way back.  So the proof is  *)
(* mostly about the calendar: a day forth and a day back, the table of the *)
(* days before each month, which both of its recursive functions are, and  *)
(* leap years.  The invariant says of the text that is read that an        *)
(* interrupted line is gone on with before the next one begins: the zone   *)
(* is always read from a line whose zone has arrived.                      *)

\* A day of the calendar, and a second of one.
DateSet == [year : Int, month : 1..12, day : 1..31]
RealDate(d) == d \in DateSet /\ d.day <= LengthOf(d.year, d.month)
Real(t) == t \in [date : DateSet, sod : Nat] /\ RealDate(t.date) /\ t.sod < DAY

\* Months have 28 to 31 days, the last and the first one 31 in every year.
LEMMA LengthsAre ==
    ASSUME NEW y, NEW m \in 1..12
    PROVE  /\ LengthOf(y, m) \in 28..31
           /\ m \in {1, 12} => LengthOf(y, m) = 31
BY DEF LengthOf, Long

\* The day after is one of the calendar, and the day before it is the one it was taken from.
LEMMA DayAfterIs ==
    ASSUME NEW d, RealDate(d)
    PROVE  RealDate(DayAfter(d)) /\ DayBefore(DayAfter(d)) = d
<1>1. PICK y \in Int, m \in 1..12, n \in 1..31 : d = [year |-> y, month |-> m, day |-> n]
  BY DEF RealDate, DateSet
<1>2. n <= LengthOf(y, m) /\ LengthOf(y, m) \in 28..31 /\ (m = 12 => LengthOf(y, m) = 31)
  BY <1>1, LengthsAre DEF RealDate
<1>3. CASE n < LengthOf(y, m)
  <2> DEFINE e == [year |-> y, month |-> m, day |-> n + 1]
  <2>1. DayAfter(d) = e
    BY <1>1, <1>3 DEF DayAfter
  <2>2. RealDate(e)
    BY <1>2, <1>3 DEF RealDate, DateSet
  <2>3. DayBefore(e) = d
    BY <1>1 DEF DayBefore
  <2> QED
    BY <2>1, <2>2, <2>3
<1>4. CASE n = LengthOf(y, m) /\ m < 12
  <2> DEFINE q == m + 1
             e == [year |-> y, month |-> q, day |-> 1]
  <2>1. DayAfter(d) = e
    <3>1. ~(n < LengthOf(y, m)) /\ m + 1 \in 2..12
      BY <1>2, <1>4
    <3>2. DayAfter(d) = [d EXCEPT !.day = 1, !.month = m + 1]
      BY <1>1, <1>4, <3>1 DEF DayAfter
    <3> QED
      BY <1>1, <3>2
  <2>2. RealDate(e)
    BY <1>4, LengthsAre DEF RealDate, DateSet
  <2>3. DayBefore(e) = [e EXCEPT !.day = LengthOf(y, m), !.month = m]
    <3>1. ~(e.day > 1) /\ e.year = y /\ e.month > 1 /\ e.month - 1 = m
      OBVIOUS
    <3> HIDE DEF e
    <3>2. DayBefore(e) = [e EXCEPT !.day = LengthOf(e.year, e.month - 1), !.month = e.month - 1]
      BY <3>1 DEF DayBefore
    <3> QED
      BY <3>1, <3>2, Zenon
  <2>4. DayBefore(e) = d
    BY <1>1, <1>4, <2>3
  <2> QED
    BY <2>1, <2>2, <2>4
<1>5. CASE n = LengthOf(y, m) /\ m = 12
  <2> DEFINE e == [year |-> y + 1, month |-> 1, day |-> 1]
  <2>1. DayAfter(d) = e
    BY <1>1, <1>5 DEF DayAfter
  <2>2. RealDate(e)
    BY LengthsAre DEF RealDate, DateSet
  <2>3. DayBefore(e) = [year |-> y, month |-> 12, day |-> 31]
    BY DEF DayBefore
  <2>4. DayBefore(e) = d
    BY <1>1, <1>2, <1>5, <2>3
  <2> QED
    BY <2>1, <2>2, <2>4
<1> QED
  BY <1>2, <1>3, <1>4, <1>5

\* The day before is one of the calendar, and the day after it is the one it was taken from.
LEMMA DayBeforeIs ==
    ASSUME NEW d, RealDate(d)
    PROVE  RealDate(DayBefore(d)) /\ DayAfter(DayBefore(d)) = d
<1>1. PICK y \in Int, m \in 1..12, n \in 1..31 : d = [year |-> y, month |-> m, day |-> n]
  BY DEF RealDate, DateSet
<1>2. n <= LengthOf(y, m) /\ LengthOf(y, m) \in 28..31
  BY <1>1, LengthsAre DEF RealDate
<1>3. CASE n > 1
  <2> DEFINE e == [year |-> y, month |-> m, day |-> n - 1]
  <2>1. DayBefore(d) = e
    BY <1>1, <1>3 DEF DayBefore
  <2>2. RealDate(e)
    BY <1>2, <1>3 DEF RealDate, DateSet
  <2>3. DayAfter(e) = d
    BY <1>1, <1>2 DEF DayAfter
  <2> QED
    BY <2>1, <2>2, <2>3
<1>4. CASE n = 1 /\ m > 1
  <2> DEFINE k == LengthOf(y, m - 1)
             e == [year |-> y, month |-> m - 1, day |-> k]
  <2>0. k \in 28..31 /\ m - 1 \in 1..12
    BY <1>4, LengthsAre
  <2>1. DayBefore(d) = e
    <3>1. DayBefore(d) = [d EXCEPT !.day = k, !.month = m - 1]
      BY <1>1, <1>4 DEF DayBefore
    <3> HIDE DEF k
    <3> QED
      BY <1>1, <3>1
  <2>2. RealDate(e)
    BY <2>0 DEF RealDate, DateSet
  <2>3. DayAfter(e) = [e EXCEPT !.day = 1, !.month = m]
    <3>1. ~(k < LengthOf(y, m - 1)) /\ m - 1 < 12 /\ m - 1 + 1 = m
      BY <1>4, <2>0
    <3> HIDE DEF k
    <3> QED
      BY <3>1 DEF DayAfter
  <2>4. DayAfter(e) = d
    BY <1>1, <1>4, <2>3
  <2> QED
    BY <2>1, <2>2, <2>4
<1>5. CASE n = 1 /\ m = 1
  <2> DEFINE e == [year |-> y - 1, month |-> 12, day |-> 31]
  <2>0. LengthOf(y - 1, 12) = 31
    BY LengthsAre
  <2>1. DayBefore(d) = e
    BY <1>1, <1>5 DEF DayBefore
  <2>2. RealDate(e)
    BY <2>0 DEF RealDate, DateSet
  <2>3. DayAfter(e) = [year |-> y - 1 + 1, month |-> 1, day |-> 1]
    BY <2>0 DEF DayAfter
  <2>4. DayAfter(e) = d
    BY <1>1, <1>5, <2>3
  <2> QED
    BY <2>1, <2>2, <2>4
<1> QED
  BY <1>3, <1>4, <1>5

\* The length of a day, for the provers.
LEMMA DayIs == DAY = 86400
BY DEF DAY

\* Moved on and back again, an instant is what it was.
LEMMA PlusIs ==
    ASSUME NEW t, Real(t), NEW n \in Int, n < DAY, n + DAY > 0, NEW back \in Int, back + n = 0
    PROVE  Real(Plus(t, n)) /\ Plus(Plus(t, n), back) = t
<1>1. PICK d \in DateSet, s \in Nat : t = [date |-> d, sod |-> s]
  BY DEF Real
<1>2. RealDate(d) /\ s < DAY
  BY <1>1 DEF Real
<1>3. /\ RealDate(DayAfter(d)) /\ RealDate(DayBefore(d))
      /\ DayBefore(DayAfter(d)) = d /\ DayAfter(DayBefore(d)) = d
  BY <1>2, DayAfterIs, DayBeforeIs
<1>4. CASE s + n < 0
  <2> DEFINE k == s + n + DAY
             e == DayBefore(d)
  <2>1. Plus(t, n) = [date |-> e, sod |-> k]
    BY <1>1, <1>4 DEF Plus
  <2>2. k \in Nat /\ k < DAY /\ k + back >= DAY /\ k + back - DAY = s /\ ~(k + back < 0)
    BY <1>2, <1>4, DayIs
  <2> HIDE DEF k, e
  <2>3. Real([date |-> e, sod |-> k])
    BY <1>3, <2>2 DEF Real, RealDate, e
  <2>4. Plus([date |-> e, sod |-> k], back) = [date |-> DayAfter(e), sod |-> s]
    <3> DEFINE x == k + back
    <3>1. ~(x < 0) /\ x >= DAY /\ x - DAY = s
      BY <2>2, DayIs
    <3>2. Plus([date |-> e, sod |-> k], back)
            = IF x < 0 THEN [date |-> DayBefore(e), sod |-> x + DAY]
              ELSE IF x >= DAY THEN [date |-> DayAfter(e), sod |-> x - DAY]
              ELSE [date |-> e, sod |-> x]
      BY DEF Plus
    <3> HIDE DEF x
    <3> QED
      BY <3>1, <3>2
  <2> QED
    BY <1>1, <1>3, <2>1, <2>3, <2>4 DEF e
<1>5. CASE s + n >= DAY
  <2> DEFINE k == s + n - DAY
             e == DayAfter(d)
  <2>1. Plus(t, n) = [date |-> e, sod |-> k]
    BY <1>1, <1>5, DayIs DEF Plus
  <2>2. k \in Nat /\ k < DAY /\ k + back < 0 /\ k + back + DAY = s
    BY <1>2, <1>5, DayIs
  <2> HIDE DEF k, e
  <2>3. Real([date |-> e, sod |-> k])
    BY <1>3, <2>2 DEF Real, RealDate, e
  <2>4. Plus([date |-> e, sod |-> k], back) = [date |-> DayBefore(e), sod |-> s]
    BY <2>2 DEF Plus
  <2> QED
    BY <1>1, <1>3, <2>1, <2>3, <2>4 DEF e
<1>6. CASE 0 <= s + n /\ s + n < DAY
  <2> DEFINE k == s + n
  <2>1. Plus(t, n) = [date |-> d, sod |-> k]
    BY <1>1, <1>6, DayIs DEF Plus
  <2>2. k \in Nat /\ k < DAY /\ k + back = s /\ ~(s < 0) /\ ~(s >= DAY)
    BY <1>2, <1>6, DayIs
  <2> HIDE DEF k
  <2>3. Real([date |-> d, sod |-> k])
    BY <1>2, <2>2 DEF Real
  <2>4. Plus([date |-> d, sod |-> k], back) = [date |-> d, sod |-> s]
    BY <2>2 DEF Plus
  <2> QED
    BY <1>1, <2>1, <2>3, <2>4
<1> QED
  BY <1>4, <1>5, <1>6, DayIs

\* The years that the forwarder takes, and its lengths of the months.
ParsedYear == 1970..2100
DaysIn(y, m) == IF m = 2 /\ isLeapYear(y) THEN 29 ELSE days_in_month[m]
\* In these years its calendar is that of the server.
LEMMA LengthsAgree ==
    ASSUME NEW y \in ParsedYear, NEW m \in 1..12
    PROVE  DaysIn(y, m) = LengthOf(y, m)
<1>0. y \in Int /\ 1970 <= y /\ y <= 2100
  BY DEF ParsedYear
<1>1. isLeapYear(y) <=> y \in LeapYears
  <2>1. ASSUME NEW n \in 492..525, y = 4 * n, y # 2100 PROVE isLeapYear(y)
    <3>1. y % 4 = 0
      BY <1>0, <2>1
    <3>2. y % 100 = 0 => y = 2000
      BY <1>0, <2>1
    <3>3. 2000 % 400 = 0
      OBVIOUS
    <3> QED
      BY <3>1, <3>2, <3>3 DEF isLeapYear
  <2>2. ASSUME isLeapYear(y) PROVE y \in LeapYears
    <3>1. y % 4 = 0 \/ y % 400 = 0
      BY <2>2 DEF isLeapYear
    <3>2. PICK n \in Int : y = 4 * n
      <4>1. CASE y % 4 = 0
        <5>1. y \div 4 \in Int /\ y = 4 * (y \div 4)
          BY <1>0, <4>1
        <5> QED
          BY <5>1
      <4>2. CASE y % 400 = 0
        <5>1. 100 * (y \div 400) \in Int /\ y = 4 * (100 * (y \div 400))
          BY <1>0, <4>2
        <5> QED
          BY <5>1
      <4> QED
        BY <3>1, <4>1, <4>2
    <3>3. n \in 492..525
      BY <1>0, <3>2
    <3>4. y # 2100
      <4>1. 2100 % 100 = 0 /\ 2100 % 400 # 0
        OBVIOUS
      <4> QED
        BY <2>2, <4>1 DEF isLeapYear
    <3> QED
      BY <3>2, <3>3, <3>4 DEF LeapYears
  <2>3. y \in LeapYears => \E n \in 492..525 : y = 4 * n /\ y # 2100
    BY DEF LeapYears
  <2> QED
    BY <2>1, <2>2, <2>3
<1>2. /\ m \in {1, 3, 5, 7, 8, 10, 12} => days_in_month[m] = 31
      /\ m \in {4, 6, 9, 11} => days_in_month[m] = 30
      /\ m = 2 => days_in_month[m] = 28
  BY DEF days_in_month
<1>3. m \in {1, 3, 5, 7, 8, 10, 12} \/ m \in {4, 6, 9, 11} \/ m = 2
  OBVIOUS
<1> QED
  BY <1>1, <1>2, <1>3 DEF DaysIn, LengthOf, Long

\* The days before each month, and before the year after, by the length of its February.
DaysUpTo(feb) == <<0, 31, 31 + feb, 62 + feb, 92 + feb, 123 + feb, 153 + feb, 184 + feb, 215 + feb,
                   245 + feb, 276 + feb, 306 + feb, 337 + feb>>
\* The table read off.
LEMMA DaysUpToIs ==
    ASSUME NEW feb \in 28..29, NEW T, T = DaysUpTo(feb)
    PROVE  /\ T[1] = 0 /\ T[2] = 31 /\ T[3] = 31 + feb /\ T[4] = 62 + feb /\ T[5] = 92 + feb
           /\ T[6] = 123 + feb /\ T[7] = 153 + feb /\ T[8] = 184 + feb /\ T[9] = 215 + feb
           /\ T[10] = 245 + feb /\ T[11] = 276 + feb /\ T[12] = 306 + feb /\ T[13] = 337 + feb
BY DEF DaysUpTo

\* From one month to the next it is the length of the month.
LEMMA DaysAddUp ==
    ASSUME NEW y, NEW T, T = DaysUpTo(LengthOf(y, 2))
    PROVE  /\ T[1] = 0
           /\ \A m \in 1..12 : T[m] \in Int /\ T[m + 1] = T[m] + LengthOf(y, m)
           /\ T[13] \in Int
<1> DEFINE feb == LengthOf(y, 2)
<1>1. feb \in 28..29
  BY DEF LengthOf, Long
<1>2. /\ \A m \in {1, 3, 5, 7, 8, 10, 12} : LengthOf(y, m) = 31
      /\ \A m \in {4, 6, 9, 11} : LengthOf(y, m) = 30
  BY DEF LengthOf, Long
<1>3. T = DaysUpTo(feb)
  OBVIOUS
<1>4. LengthOf(y, 2) = feb
  OBVIOUS
<1> HIDE DEF feb
<1>5. /\ T[1] = 0 /\ T[2] = 31 /\ T[3] = 31 + feb /\ T[4] = 62 + feb /\ T[5] = 92 + feb
      /\ T[6] = 123 + feb /\ T[7] = 153 + feb /\ T[8] = 184 + feb /\ T[9] = 215 + feb
      /\ T[10] = 245 + feb /\ T[11] = 276 + feb /\ T[12] = 306 + feb /\ T[13] = 337 + feb
  BY <1>1, <1>3, DaysUpToIs
<1>6. ASSUME NEW m \in 1..12 PROVE T[m] \in Int /\ T[m + 1] = T[m] + LengthOf(y, m)
  <2>1. \/ m = 1 \/ m = 2 \/ m = 3 \/ m = 4 \/ m = 5 \/ m = 6 \/ m = 7 \/ m = 8 \/ m = 9
        \/ m = 10 \/ m = 11 \/ m = 12
    OBVIOUS
  <2> QED
    BY <1>1, <1>2, <1>4, <1>5, <2>1
<1> QED
  BY <1>1, <1>5, <1>6

\* The recursive functions of the two calendars.
SumOfLengths(y) == CHOOSE g : g = [m \in 1..12 |-> IF m = 1 THEN 0 ELSE g[m - 1] + LengthOf(y, m - 1)]
SumOfDays(y) == CHOOSE g : g = [m \in 0..12 |-> IF m = 0 THEN 0 ELSE g[m - 1] + DaysIn(y, m)]

\* That of the server exists, and it is the table.
LEMMA ServerSums ==
    ASSUME NEW y, NEW T, T = DaysUpTo(LengthOf(y, 2)), NEW m \in 1..12
    PROVE  DaysBefore(y, m) = T[m]
<1>1. DaysBefore(y, m) = SumOfLengths(y)[m]
  BY DEF DaysBefore, SumOfLengths
<1>2. /\ T[1] = 0
      /\ \A k \in 1..12 : T[k] \in Int /\ T[k + 1] = T[k] + LengthOf(y, k)
  BY DaysAddUp
<1> DEFINE h == [k \in 1..12 |-> T[k]]
<1>3. h = [k \in 1..12 |-> IF k = 1 THEN 0 ELSE h[k - 1] + LengthOf(y, k - 1)]
  <2>1. ASSUME NEW k \in 1..12 PROVE T[k] = IF k = 1 THEN 0 ELSE h[k - 1] + LengthOf(y, k - 1)
    <3>1. CASE k # 1
      <4> DEFINE j == k - 1
      <4>1. j \in 1..12 /\ j + 1 = k
        BY <3>1
      <4> HIDE DEF j
      <4>2. T[j + 1] = T[j] + LengthOf(y, j) /\ h[j] = T[j]
        BY <1>2, <4>1
      <4> QED
        BY <3>1, <4>1, <4>2 DEF j
    <3> QED
      BY <1>2, <3>1
  <2> QED
    BY <2>1
<1> DEFINE g == SumOfLengths(y)
<1>4. g = [k \in 1..12 |-> IF k = 1 THEN 0 ELSE g[k - 1] + LengthOf(y, k - 1)]
  BY <1>3 DEF SumOfLengths
<1> HIDE DEF g, h
<1>5. g[1] = 0
  BY <1>4
<1>6. ASSUME NEW k \in 1..11, g[k] = T[k] PROVE g[k + 1] = T[k + 1]
  <2> DEFINE i == k + 1
  <2>1. i \in 1..12 /\ i # 1 /\ i - 1 = k
    OBVIOUS
  <2> HIDE DEF i
  <2>2. g[i] = g[k] + LengthOf(y, k)
    BY <1>4, <2>1
  <2>3. T[i] = T[k] + LengthOf(y, k)
    BY <1>2 DEF i
  <2> QED
    BY <1>6, <2>2, <2>3 DEF i
<1>7. g[1] = T[1] /\ g[2] = T[2] /\ g[3] = T[3] /\ g[4] = T[4]
  BY <1>2, <1>5, <1>6
<1>8. g[5] = T[5] /\ g[6] = T[6] /\ g[7] = T[7] /\ g[8] = T[8]
  BY <1>7, <1>6
<1>9. g[9] = T[9] /\ g[10] = T[10] /\ g[11] = T[11] /\ g[12] = T[12]
  BY <1>8, <1>6
<1>10. \A k \in 1..12 : k \in 1..4 \/ k \in 5..8 \/ k \in 9..12
  OBVIOUS
<1> QED
  BY <1>1, <1>7, <1>8, <1>9, <1>10 DEF g

\* So is that of the forwarder, in the years it takes.
LEMMA ForwarderSums ==
    ASSUME NEW y \in ParsedYear, NEW T, T = DaysUpTo(LengthOf(y, 2))
    PROVE  \A m \in 0..12 : SumOfDays(y)[m] = T[m + 1]
<1>1. \A k \in 1..12 : DaysIn(y, k) = LengthOf(y, k)
  BY LengthsAgree
<1>2. /\ T[1] = 0
      /\ \A k \in 1..12 : T[k] \in Int /\ T[k + 1] = T[k] + LengthOf(y, k)
  BY DaysAddUp
<1> DEFINE h == [k \in 0..12 |-> T[k + 1]]
<1>3. h = [k \in 0..12 |-> IF k = 0 THEN 0 ELSE h[k - 1] + DaysIn(y, k)]
  <2>1. ASSUME NEW k \in 0..12 PROVE T[k + 1] = IF k = 0 THEN 0 ELSE h[k - 1] + DaysIn(y, k)
    <3>1. CASE k # 0
      <4> DEFINE j == k - 1
      <4>1. j \in 0..12 /\ j + 1 = k /\ k \in 1..12
        BY <3>1
      <4> HIDE DEF j
      <4>2. T[k + 1] = T[k] + LengthOf(y, k) /\ h[j] = T[k]
        BY <1>2, <4>1
      <4> QED
        BY <1>1, <3>1, <4>1, <4>2 DEF j
    <3>2. CASE k = 0
      <4>1. k + 1 = 1
        BY <3>2
      <4> QED
        BY <1>2, <3>2, <4>1
    <3> QED
      BY <3>1, <3>2
  <2> QED
    BY <2>1
<1> DEFINE g == SumOfDays(y)
<1>4. g = [k \in 0..12 |-> IF k = 0 THEN 0 ELSE g[k - 1] + DaysIn(y, k)]
  BY <1>3 DEF SumOfDays
<1> HIDE DEF g, h
<1>5. g[0] = 0
  BY <1>4
<1>6. ASSUME NEW k \in 1..12, g[k - 1] = T[k] PROVE g[k] = T[k + 1]
  <2>1. k \in 0..12 /\ k # 0
    OBVIOUS
  <2>2. g[k] = g[k - 1] + DaysIn(y, k)
    BY <1>4, <2>1
  <2> QED
    BY <1>1, <1>2, <1>6, <2>2
<1>7. g[0] = T[1] /\ g[1] = T[2] /\ g[2] = T[3] /\ g[3] = T[4]
  BY <1>2, <1>5, <1>6
<1>8. g[4] = T[5] /\ g[5] = T[6] /\ g[6] = T[7] /\ g[7] = T[8]
  BY <1>7, <1>6
<1>9. g[8] = T[9] /\ g[9] = T[10] /\ g[10] = T[11] /\ g[11] = T[12] /\ g[12] = T[13]
  BY <1>8, <1>6
<1>10. ASSUME NEW m \in 0..12 PROVE g[m] = T[m + 1]
  <2>1. m \in 0..3 \/ m \in 4..7 \/ m \in 8..12
    OBVIOUS
  <2>2. CASE m \in 0..3
    BY <1>7, <2>2
  <2>3. CASE m \in 4..7
    BY <1>8, <2>3
  <2>4. CASE m \in 8..12
    BY <1>9, <2>4
  <2> QED
    BY <2>1, <2>2, <2>3, <2>4
<1> QED
  BY <1>10 DEF g

\* The sums grow from month to month, so a day of the year is in one month.
LEMMA DaysGrow ==
    ASSUME NEW y, NEW T, T = DaysUpTo(LengthOf(y, 2)), NEW i \in 1..13, NEW j \in 1..13, i <= j
    PROVE  T[i] \in Int /\ T[j] \in Int /\ T[i] <= T[j]
<1>1. \A k \in 1..12 : T[k] \in Int /\ T[k + 1] = T[k] + LengthOf(y, k) /\ LengthOf(y, k) \in 28..31
  BY DaysAddUp, LengthsAre
<1>2. \A k \in 1..12 : T[k] \in Int /\ T[k + 1] \in Int /\ T[k] <= T[k + 1]
  BY <1>1
<1>3. /\ T[1] \in Int /\ T[2] \in Int /\ T[3] \in Int /\ T[4] \in Int /\ T[5] \in Int
      /\ T[6] \in Int /\ T[7] \in Int /\ T[8] \in Int /\ T[9] \in Int /\ T[10] \in Int
      /\ T[11] \in Int /\ T[12] \in Int /\ T[13] \in Int
  BY <1>2, DaysAddUp
<1>4. /\ T[1] <= T[2] /\ T[2] <= T[3] /\ T[3] <= T[4] /\ T[4] <= T[5] /\ T[5] <= T[6]
      /\ T[6] <= T[7] /\ T[7] <= T[8] /\ T[8] <= T[9] /\ T[9] <= T[10] /\ T[10] <= T[11]
      /\ T[11] <= T[12] /\ T[12] <= T[13]
  BY <1>2
<1>5. \A k \in 1..13 : \/ k = 1 \/ k = 2 \/ k = 3 \/ k = 4 \/ k = 5 \/ k = 6 \/ k = 7 \/ k = 8
                       \/ k = 9 \/ k = 10 \/ k = 11 \/ k = 12 \/ k = 13
  OBVIOUS
<1> QED
  BY <1>3, <1>4, <1>5

\* The forwarder finds the date of the day of the year that the server printed.
LEMMA DateIsFound ==
    ASSUME NEW d, RealDate(d), d.year \in ParsedYear,
           NEW e \in dayOfYearToDate(d.year, DaysBefore(d.year, d.month) + d.day)
    PROVE  e = d
<1>1. PICK y \in ParsedYear, m \in 1..12, n \in 1..31 : d = [year |-> y, month |-> m, day |-> n]
  BY DEF RealDate, DateSet
<1>2. n <= LengthOf(y, m)
  BY <1>1 DEF RealDate
<1> DEFINE T == DaysUpTo(LengthOf(y, 2))
           g == SumOfDays(y)
           doy == DaysBefore(y, m) + n
<1>3. PICK k \in {i \in 1..12 : g[i - 1] < doy /\ doy <= g[i]} :
        e = [year |-> y, month |-> k, day |-> doy - g[k - 1]]
  BY <1>1 DEF dayOfYearToDate, SumOfDays, DaysIn
<1>4. DaysBefore(y, m) = T[m]
  BY ServerSums
<1>5. g[k - 1] = T[k] /\ g[k] = T[k + 1]
  <2>1. \A i \in 0..12 : g[i] = T[i + 1]
    BY ForwarderSums
  <2>2. k - 1 \in 0..12 /\ k \in 0..12 /\ k - 1 + 1 = k
    OBVIOUS
  <2> QED
    BY <2>1, <2>2
<1>6. T[m] \in Int /\ T[k] \in Int /\ T[m + 1] = T[m] + LengthOf(y, m) /\ LengthOf(y, m) \in Int
  BY DaysAddUp, LengthsAre
<1>7. ASSUME m < k PROVE T[m + 1] <= T[k]
  <2>1. m + 1 \in 1..13 /\ k \in 1..13 /\ m + 1 <= k
    BY <1>7
  <2> QED
    BY <2>1, DaysGrow
<1>8. ASSUME k < m PROVE T[k + 1] <= T[m]
  <2>1. k + 1 \in 1..13 /\ m \in 1..13 /\ k + 1 <= m
    BY <1>8
  <2> QED
    BY <2>1, DaysGrow
<1>9. T[k + 1] \in Int /\ T[m + 1] \in Int
  BY <1>6, DaysAddUp, LengthsAre
<1>10. T[k] < doy /\ doy <= T[k + 1] /\ doy = T[m] + n
  BY <1>3, <1>4, <1>5
<1> HIDE DEF T, g, doy
<1>11. k = m
  <2>1. ~(m < k)
    BY <1>2, <1>6, <1>7, <1>9, <1>10
  <2>2. ~(k < m)
    BY <1>6, <1>8, <1>9, <1>10
  <2> QED
    BY <2>1, <2>2
<1>12. doy - g[k - 1] = n
  BY <1>5, <1>6, <1>10, <1>11
<1> QED
  BY <1>1, <1>3, <1>11, <1>12

-----------------------------------------------------------------------------
(* The forwarder: lines, texts and what the unit is told.                  *)

ZoneSet == {10800, 19800, -18000, NoZone}
TimeSet == {t \in [date : DateSet, sod : Nat] : Real(t)}
LineSet == {LineOf(t, zone) : t \in TimeSet}
PieceSet == {p \in [line : LineSet, part : {"all", "head", "rest"}, cut : Cut \cup {"none"}] :
                p.part = "all" => p.cut = "none"}

\* An interrupted line is gone on with before the next one begins.
Ended(p) == p.part # "head"
Apart(text) == \A i \in 1..(Len(text) - 1) : Ended(text[i]) \/ Ended(text[i + 1])

TimeInv ==
    /\ Real(utc) /\ zone \in ZoneSet
    /\ arrived \in Seq(PieceSet) /\ response \in Seq(PieceSet)
    /\ sending \subseteq PieceSet /\ \A p \in sending : Ended(p)
    /\ Apart(response \o arrived)
    /\ LET text == response \o arrived
       IN  sending = {} /\ text # <<>> => Ended(text[Len(text)])
    /\ ToldIsUtc

\* What the server adds to an instant, the local time less UTC.
LocalTime(z) == IF z = NoZone THEN DEFAULT_TZ_OFFSET_SEC ELSE z
\* A zone is less than a day from UTC.
LEMMA ZonesAre ==
    ASSUME NEW z \in ZoneSet
    PROVE  LocalTime(z) \in Int /\ LocalTime(z) < DAY /\ LocalTime(z) + DAY > 0
BY DayIs DEF ZoneSet, LocalTime, DEFAULT_TZ_OFFSET_SEC, NoZone

\* A line has the local time and the day of the year of its instant.
LEMMA LineIs ==
    ASSUME NEW t, Real(t), NEW z, NEW line, line = LineOf(t, z), NEW here, here = Plus(t, LocalTime(z))
    PROVE  /\ line.utc = t /\ line.tz = z /\ line.sod = here.sod /\ line.year = here.date.year
           /\ line.doy = DaysBefore(here.date.year, here.date.month) + here.date.day
BY DEF LineOf, LocalTime

\* The greatest of some numbers is the one that is chosen.
LEMMA LastIs ==
    ASSUME NEW S \in SUBSET Nat, NEW m \in S, \A j \in S : j <= m
    PROVE  (CHOOSE i \in S : \A j \in S : j <= i) = m
<1> DEFINE c == CHOOSE i \in S : \A j \in S : j <= i
<1>1. c \in S /\ \A j \in S : j <= c
  OBVIOUS
<1> HIDE DEF c
<1>2. c <= m /\ m <= c /\ c \in Nat /\ m \in Nat
  BY <1>1
<1>3. c = m
  BY <1>2
<1> QED
  BY <1>3 DEF c

\* The zone is that of the server, whichever line of the text it is taken from.
LEMMA ZoneIsRead ==
    ASSUME zone \in ZoneSet, NEW text \in Seq(PieceSet), text # <<>>, Apart(text), Sound(text)
    PROVE  parseTzOffset(text) = LocalTime(zone)
<1> DEFINE n == Len(text)
<1>1. n \in Nat /\ n > 0 /\ \A i \in 1..n : text[i] \in PieceSet
  BY EmptySeq
<1>2. \A i \in 1..n : text[i].line.tz = zone
  <2>1. \A i \in 1..n : text[i].line \in LineSet
    BY <1>1 DEF PieceSet
  <2>2. \A l \in LineSet : l.tz = zone
    BY DEF LineSet, LineOf
  <2> QED
    BY <2>1, <2>2
<1> DEFINE last == text[CHOOSE i \in SignsIn(text) : \A j \in SignsIn(text) : j <= i]
<1>3. parseTzOffset(text)
        = IF SignsIn(text) = {} \/ (last.part = "head" /\ last.cut = "sign") THEN DEFAULT_TZ_OFFSET_SEC
          ELSE IF last.part = "head" THEN FirstDigit(last.line.tz)
          ELSE last.line.tz
  BY DEF parseTzOffset
<1> HIDE DEF last
<1>4. SignsIn(text) = {i \in 1..n : HasSign(text[i])}
  BY DEF SignsIn
<1>5. CASE zone = NoZone
  <2>1. SignsIn(text) = {}
    BY <1>2, <1>4, <1>5 DEF HasSign
  <2> QED
    BY <1>3, <1>5, <2>1 DEF LocalTime
<1>6. CASE zone # NoZone
  <2>1. \A i \in 1..n : Ended(text[i]) => i \in SignsIn(text)
    BY <1>2, <1>4, <1>6 DEF HasSign, Ended
  <2>2. ASSUME NEW m \in SignsIn(text), \A j \in SignsIn(text) : j <= m, Ended(text[m])
        PROVE  parseTzOffset(text) = LocalTime(zone)
    <3>1. SignsIn(text) \in SUBSET Nat /\ m \in 1..n
      BY <1>1, <1>4
    <3>2. last = text[m]
      BY <2>2, <3>1, LastIs DEF last
    <3>3. last.part # "head" /\ last.line.tz = zone
      BY <1>2, <2>2, <3>1, <3>2 DEF Ended
    <3> QED
      BY <1>3, <1>6, <2>2, <3>3 DEF LocalTime
  <2>3. CASE Ended(text[n])
    <3>1. n \in SignsIn(text) /\ \A j \in SignsIn(text) : j <= n
      BY <1>1, <1>4, <2>1, <2>3
    <3> QED
      BY <2>2, <2>3, <3>1
  <2>4. CASE ~Ended(text[n])
    <3>1. n > 1 /\ text[n].part = "head" /\ text[n].cut \notin {"sign", "hours"}
      BY <2>4 DEF Sound, Ended
    <3> DEFINE m == n - 1
    <3>2. m \in 1..(n - 1) /\ m \in 1..n /\ m + 1 = n
      BY <1>1, <3>1
    <3> HIDE DEF m
    <3>3. Ended(text[m])
      BY <2>4, <3>2 DEF Apart
    <3>4. n \notin SignsIn(text)
      BY <1>4, <3>1 DEF HasSign
    <3>5. \A j \in SignsIn(text) : j <= m
      BY <1>1, <1>4, <3>2, <3>4
    <3>6. m \in SignsIn(text)
      BY <2>1, <3>2, <3>3
    <3> QED
      BY <2>2, <3>3, <3>5, <3>6
  <2> QED
    BY <2>3, <2>4
<1> QED
  BY <1>5, <1>6

\* What is sent is the instant of the first line.
LEMMA SentIs ==
    ASSUME zone \in ZoneSet, NEW text \in Seq(PieceSet), text # <<>>, Apart(text), Sound(text),
           NEW timestamp \in parseTimeString(text)
    PROVE  Real(text[1].line.utc) /\ send_ts(text, timestamp) = text[1].line.utc
<1> DEFINE line == text[1].line
<1>1. Len(text) \in Nat /\ Len(text) > 0 /\ text[1] \in PieceSet
  BY EmptySeq
<1>2. PICK t \in TimeSet : line = LineOf(t, zone)
  BY <1>1 DEF PieceSet, LineSet
<1>3. Real(t)
  BY <1>2 DEF TimeSet
<1> DEFINE n == LocalTime(zone)
           here == Plus(t, n)
<1>4. /\ line.utc = t /\ line.sod = here.sod /\ line.year = here.date.year
      /\ line.doy = DaysBefore(here.date.year, here.date.month) + here.date.day
  <2>1. here = Plus(t, LocalTime(zone))
    OBVIOUS
  <2> HIDE DEF line, here
  <2> QED
    BY <1>2, <1>3, <2>1, LineIs
<1>5. n \in Int /\ n < DAY /\ n + DAY > 0
  BY ZonesAre
<1> HIDE DEF n
<1>6. Real(here) /\ \A back \in Int : back + n = 0 => Plus(here, back) = t
  BY <1>3, <1>5, PlusIs
<1>7. Readable(text) /\ line.year \in 1970..2100
  BY DEF parseTimeString
<1>8. PICK d \in dayOfYearToDate(line.year, line.doy) : timestamp = [date |-> d, sod |-> SodIn(text)]
  BY <1>7 DEF parseTimeString
<1>9. SodIn(text) = line.sod
  <2>1. Len(text) = 1 => text[1].part # "head"
    <3> SUFFICES ASSUME Len(text) = 1, text[1].part = "head" PROVE FALSE
      OBVIOUS
    <3>1. text[Len(text)].part = "head"
      OBVIOUS
    <3>2. Len(text) > 1
      BY <3>1 DEF Sound
    <3> QED
      BY <3>2
  <2>2. text[1].part = "all" => text[1].cut = "none"
    BY <1>1 DEF PieceSet
  <2>3. ~(Len(text) = 1 /\ text[1].cut = "seconds")
    <3> SUFFICES ASSUME Len(text) = 1, text[1].cut = "seconds" PROVE FALSE
      OBVIOUS
    <3>1. text[1].part # "head" /\ text[1].part # "all"
      BY <2>1, <2>2
    <3> QED
      BY <1>7, <3>1 DEF Readable
  <2> QED
    BY <2>3 DEF SodIn
<1> HIDE DEF line, here
<1>10. d = here.date
  <2>1. RealDate(here.date)
    BY <1>6 DEF Real
  <2>2. here.date.year \in Int
    BY <2>1 DEF RealDate, DateSet
  <2>3. here.date.year \in ParsedYear
    BY <1>4, <1>7, <2>2 DEF ParsedYear
  <2> QED
    BY <1>4, <1>8, <2>1, <2>3, DateIsFound
<1>11. timestamp = here
  <2>1. here = [date |-> here.date, sod |-> here.sod]
    BY <1>6 DEF Real
  <2> QED
    BY <1>4, <1>8, <1>9, <1>10, <2>1
<1>12. Plus(timestamp, -parseTzOffset(text)) = t
  <2>1. parseTzOffset(text) = n
    BY ZoneIsRead DEF n
  <2>2. -n \in Int /\ -n + n = 0
    BY <1>5
  <2> QED
    BY <1>6, <1>11, <2>1, <2>2
<1>13. t.date.year >= 1970
  BY <1>4 DEF Sound, line
<1> QED
  BY <1>3, <1>4, <1>12, <1>13 DEF send_ts, Wrapped, line

\* The date that the unit reads from the bytes.
Shown(bytes) == [year |-> bytes[1] + 256 * bytes[2], month |-> bytes[3] + 256 * bytes[4],
                 day |-> bytes[5] + 256 * bytes[6]]
\* The two packets give back the seconds and the date.
LEMMA PacketsAreRead ==
    ASSUME NEW t, Real(t)
    PROVE  buildPacket(t.sod) \div Q14_SCALE = t.sod /\ Shown(buildDatePacket(t.date)) = t.date
<1>1. PICK d \in DateSet, s \in Nat : t = [date |-> d, sod |-> s]
  BY DEF Real
<1>2. PICK y \in Int, m \in 1..12, n \in 1..31 : d = [year |-> y, month |-> m, day |-> n]
  BY DEF DateSet
<1>3. (s * 16384) \div 16384 = s
  BY <1>1
<1>4. \A x \in Int : (x % 256) + 256 * (x \div 256) = x
  OBVIOUS
<1>5. Shown(buildDatePacket(d))
        = [year |-> (y % 256) + 256 * (y \div 256), month |-> (m % 256) + 256 * (m \div 256),
           day |-> (n % 256) + 256 * (n \div 256)]
  BY <1>2 DEF Shown, buildDatePacket
<1>6. m \in Int /\ n \in Int
  OBVIOUS
<1>7. /\ (y % 256) + 256 * (y \div 256) = y /\ (m % 256) + 256 * (m \div 256) = m
      /\ (n % 256) + 256 * (n \div 256) = n
  BY <1>4, <1>6
<1> QED
  BY <1>1, <1>2, <1>3, <1>5, <1>7 DEF buildPacket, Q14_SCALE

\* What the unit was told, of the time and of the date.
TimeTold ==
    unit.of_time # <<>> /\ Sound(unit.of_time) =>
        unit.time \div Q14_SCALE = unit.of_time[1].line.utc.sod
DateTold ==
    unit.of_date # <<>> /\ Sound(unit.of_date) => Shown(unit.date) = unit.of_date[1].line.utc.date
\* The property by its two halves.
LEMMA ToldIsBoth == ToldIsUtc <=> TimeTold /\ DateTold
BY DEF ToldIsUtc, TimeTold, DateTold, Shown

\* A text that is taken for a line, whole or not.
LEMMA ForwardTells ==
    ASSUME ToldIsUtc, zone \in ZoneSet, NEW text \in Seq(PieceSet), text # <<>>, Apart(text),
           Forward(text)
    PROVE  ToldIsUtc' /\ response' = <<>>
<1>1. TimeTold /\ DateTold
  BY ToldIsBoth
<1>2. CASE parseTimeString(text) = {}
  <2>1. UNCHANGED unit /\ response' = <<>>
    BY <1>2 DEF Forward
  <2>2. TimeTold' /\ DateTold'
    BY <1>1, <2>1 DEF TimeTold, DateTold
  <2> QED
    BY <2>1, <2>2, ToldIsBoth, PTL
<1>3. CASE parseTimeString(text) # {}
  <2>1. PICK timestamp \in parseTimeString(text), time_sent \in BOOLEAN, date_sent \in BOOLEAN :
          unit' = [time |-> IF time_sent THEN buildPacket(send_ts(text, timestamp).sod) ELSE unit.time,
                   of_time |-> IF time_sent THEN text ELSE unit.of_time,
                   date |-> IF date_sent THEN buildDatePacket(send_ts(text, timestamp).date)
                            ELSE unit.date,
                   of_date |-> IF date_sent THEN text ELSE unit.of_date]
    BY <1>3 DEF Forward
  <2> DEFINE ts == send_ts(text, timestamp)
  <2>2. /\ unit'.time = IF time_sent THEN buildPacket(ts.sod) ELSE unit.time
        /\ unit'.of_time = IF time_sent THEN text ELSE unit.of_time
        /\ unit'.date = IF date_sent THEN buildDatePacket(ts.date) ELSE unit.date
        /\ unit'.of_date = IF date_sent THEN text ELSE unit.of_date
    BY <2>1
  <2>3. Sound(text) => /\ buildPacket(ts.sod) \div Q14_SCALE = text[1].line.utc.sod
                       /\ Shown(buildDatePacket(ts.date)) = text[1].line.utc.date
    <3> SUFFICES ASSUME Sound(text)
                 PROVE  /\ buildPacket(ts.sod) \div Q14_SCALE = text[1].line.utc.sod
                        /\ Shown(buildDatePacket(ts.date)) = text[1].line.utc.date
      OBVIOUS
    <3>1. Real(text[1].line.utc) /\ ts = text[1].line.utc
      BY SentIs
    <3> HIDE DEF ts
    <3> QED
      BY <3>1, PacketsAreRead
  <2> HIDE DEF ts
  <2>4. TimeTold'
    BY <1>1, <2>2, <2>3 DEF TimeTold
  <2>5. DateTold'
    BY <1>1, <2>2, <2>3 DEF DateTold
  <2>6. response' = <<>>
    BY DEF Forward
  <2> QED
    BY <2>4, <2>5, <2>6, ToldIsBoth, PTL
<1> QED
  BY <1>2, <1>3

\* The boundaries are instants.
LEMMA BoundaryIs == ASSUME NEW e \in DOMAIN Boundary PROVE Real(Boundary[e])
<1>1. 2024 \in LeapYears /\ 2000 \in LeapYears
  <2>1. 506 \in 492..525 /\ 2024 = 4 * 506 /\ 500 \in 492..525 /\ 2000 = 4 * 500
    OBVIOUS
  <2> QED
    BY <2>1 DEF LeapYears
<1>2. ASSUME NEW y \in Int, NEW m \in 1..12, NEW n \in 1..31, n <= LengthOf(y, m), NEW s \in Nat, s < DAY
      PROVE  Real(Instant(y, m, n, s))
  BY <1>2 DEF Instant, Real, RealDate, DateSet
<1>3. LengthOf(2024, 2) = 29 /\ LengthOf(2000, 2) = 29
  BY <1>1 DEF LengthOf, Long
<1>4. \A y \in Int : LengthOf(y, 2) >= 28 /\ LengthOf(y, 12) = 31 /\ LengthOf(y, 1) = 31
  BY LengthsAre
<1>5. /\ DAY - 2 \in Nat /\ DAY - 2 < DAY /\ DAY - 10802 \in Nat /\ DAY - 10802 < DAY
      /\ 17998 \in Nat /\ 17998 < DAY
  BY DayIs
<1> DEFINE eve == DAY - 2
           eastern == DAY - 10802
<1>6. eve \in Nat /\ eve < DAY /\ eastern \in Nat /\ eastern < DAY
  BY <1>5
<1> HIDE DEF eve, eastern
<1>7. /\ 28 <= LengthOf(2024, 2) /\ 29 <= LengthOf(2024, 2) /\ 28 <= LengthOf(2025, 2)
      /\ 31 <= LengthOf(2024, 12) /\ 1 <= LengthOf(2025, 1) /\ 28 <= LengthOf(2100, 2)
      /\ 29 <= LengthOf(2000, 2) /\ 31 <= LengthOf(1969, 12) /\ 31 <= LengthOf(2100, 12)
  BY <1>3, <1>4
<1>8. Real(Instant(2024, 2, 28, eve))
  BY <1>2, <1>5, <1>6, <1>7
<1>9. Real(Instant(2024, 2, 29, eve))
  BY <1>2, <1>5, <1>6, <1>7
<1>10. Real(Instant(2025, 2, 28, eve))
  BY <1>2, <1>5, <1>6, <1>7
<1>11. Real(Instant(2024, 12, 31, eve))
  BY <1>2, <1>5, <1>6, <1>7
<1>12. Real(Instant(2024, 12, 31, eastern))
  BY <1>2, <1>5, <1>6, <1>7
<1>13. Real(Instant(2025, 1, 1, 17998))
  BY <1>2, <1>5, <1>6, <1>7
<1>14. Real(Instant(2100, 2, 28, eve))
  BY <1>2, <1>5, <1>6, <1>7
<1>15. Real(Instant(2000, 2, 29, eve))
  BY <1>2, <1>5, <1>6, <1>7
<1>16. Real(Instant(1969, 12, 31, eve))
  BY <1>2, <1>5, <1>6, <1>7
<1>17. Real(Instant(2100, 12, 31, eastern))
  BY <1>2, <1>5, <1>6, <1>7
<1> QED
  BY <1>8, <1>9, <1>10, <1>11, <1>12, <1>13, <1>14, <1>15, <1>16, <1>17 DEF Boundary, eve, eastern

\* The invariant holds when the forwarder starts.
LEMMA TimeBegins == TimeInit => TimeInv
<1> SUFFICES ASSUME TimeInit PROVE TimeInv
  OBVIOUS
<1>1. Real(utc)
  BY SerialTimeAssumption, BoundaryIs DEF TimeInit
<1>2. zone \in ZoneSet
  BY SerialTimeAssumption DEF TimeInit, Offset, ZoneSet
<1>3. response = <<>> /\ arrived = <<>> /\ sending = {}
  BY DEF TimeInit, NoPiece
<1>4. response \o arrived = <<>> /\ <<>> \in Seq(PieceSet) /\ Len(<<>>) = 0
  BY <1>3, EmptySeq, ConcatEmptySeq
<1>5. Apart(response \o arrived)
  BY <1>4 DEF Apart
<1>6. TimeTold /\ DateTold
  BY DEF TimeInit, Nothing, TimeTold, DateTold
<1> QED
  BY <1>1, <1>2, <1>3, <1>4, <1>5, <1>6, ToldIsBoth DEF TimeInv

\* A piece that comes behind the others.
LEMMA PieceJoins ==
    ASSUME NEW text \in Seq(PieceSet), Apart(text), NEW p \in PieceSet,
           text # <<>> => Ended(text[Len(text)]) \/ Ended(p)
    PROVE  /\ Append(text, p) \in Seq(PieceSet) /\ Append(text, p) # <<>> /\ Apart(Append(text, p))
           /\ Append(text, p)[Len(Append(text, p))] = p
<1> DEFINE n == Len(text)
           more == Append(text, p)
<1>1. /\ n \in Nat /\ more \in Seq(PieceSet) /\ Len(more) = n + 1
      /\ \A i \in 1..n : more[i] = text[i]
      /\ more[n + 1] = p
  BY AppendProperties
<1>2. n > 0 => text # <<>>
  BY EmptySeq
<1> HIDE DEF more
<1>3. more # <<>>
  BY <1>1, EmptySeq
<1>4. ASSUME NEW i \in 1..(Len(more) - 1) PROVE Ended(more[i]) \/ Ended(more[i + 1])
  <2>1. i \in 1..(n - 1) \/ (i = n /\ n > 0)
    BY <1>1
  <2>2. CASE i \in 1..(n - 1)
    <3>1. i \in 1..n /\ i + 1 \in 1..n
      BY <1>1, <2>2
    <3> QED
      BY <1>1, <2>2, <3>1 DEF Apart
  <2>3. CASE i = n /\ n > 0
    BY <1>1, <1>2, <2>3
  <2> QED
    BY <2>1, <2>2, <2>3
<1> QED
  BY <1>1, <1>3, <1>4 DEF Apart, more

\* What has come behind what was read.
LEMMA PieceArrives ==
    ASSUME NEW read \in Seq(PieceSet), NEW wait \in Seq(PieceSet), NEW p \in PieceSet
    PROVE  read \o Append(wait, p) = Append(read \o wait, p) /\ read \o wait \in Seq(PieceSet)
<1>1. <<p>> \in Seq(PieceSet) /\ Append(wait, p) = wait \o <<p>> /\ read \o wait \in Seq(PieceSet)
  OBVIOUS
<1>2. Append(read \o wait, p) = (read \o wait) \o <<p>>
  BY <1>1
<1>3. (read \o wait) \o <<p>> = read \o (wait \o <<p>>)
  BY <1>1, ConcatAssociative
<1> QED
  BY <1>1, <1>2, <1>3

\* Part of a text, from its front or to its end.
LEMMA PartsApart ==
    ASSUME NEW read \in Seq(PieceSet), NEW wait \in Seq(PieceSet), Apart(read \o wait)
    PROVE  /\ Apart(read) /\ Apart(wait)
           /\ wait # <<>> => /\ read \o wait # <<>>
                             /\ wait[Len(wait)] = (read \o wait)[Len(read \o wait)]
<1> DEFINE n == Len(read)
           k == Len(wait)
           text == read \o wait
<1>1. /\ n \in Nat /\ k \in Nat /\ text \in Seq(PieceSet) /\ Len(text) = n + k
      /\ \A i \in 1..(n + k) : text[i] = IF i <= n THEN read[i] ELSE wait[i - n]
  BY LenProperties, ConcatProperties
<1>2. wait # <<>> => k > 0
  BY EmptySeq
<1>3. \A i \in 1..(n + k - 1) : Ended(text[i]) \/ Ended(text[i + 1])
  BY <1>1 DEF Apart
<1> HIDE DEF text, n, k
<1>4. ASSUME NEW i \in 1..(n - 1) PROVE Ended(read[i]) \/ Ended(read[i + 1])
  <2>1. /\ i \in 1..(n + k - 1) /\ i \in 1..(n + k) /\ i + 1 \in 1..(n + k) /\ i <= n /\ i + 1 <= n
    BY <1>1
  <2>2. text[i] = read[i] /\ text[i + 1] = read[i + 1]
    BY <1>1, <2>1
  <2> QED
    BY <1>3, <2>1, <2>2
<1>5. ASSUME NEW i \in 1..(k - 1) PROVE Ended(wait[i]) \/ Ended(wait[i + 1])
  <2> DEFINE j == n + i
  <2>1. /\ j \in 1..(n + k - 1) /\ j \in 1..(n + k) /\ j + 1 \in 1..(n + k)
        /\ ~(j <= n) /\ ~(j + 1 <= n) /\ j - n = i /\ j + 1 - n = i + 1
    BY <1>1
  <2> HIDE DEF j
  <2>2. text[j] = wait[i] /\ text[j + 1] = wait[i + 1]
    BY <1>1, <2>1
  <2> QED
    BY <1>3, <2>1, <2>2
<1>6. ASSUME wait # <<>> PROVE text # <<>> /\ wait[k] = text[n + k]
  <2>1. n + k \in 1..(n + k) /\ ~(n + k <= n) /\ n + k - n = k /\ Len(text) > 0
    BY <1>1, <1>2, <1>6
  <2>2. text[n + k] = wait[k]
    BY <1>1, <2>1
  <2>3. Len(<<>>) = 0
    BY EmptySeq
  <2> QED
    BY <2>1, <2>2, <2>3
<1> QED
  BY <1>1, <1>4, <1>5, <1>6 DEF Apart, text, n, k

\* Every step of the server and of the worker keeps it.
LEMMA TimeSteps == TimeInv /\ [TimeNext]_timeVars => TimeInv'
<1> SUFFICES ASSUME TimeInv, [TimeNext]_timeVars PROVE TimeInv'
  OBVIOUS
<1> USE DEF TimeInv
<1>0. zone' = zone
  BY DEF TimeNext, timeVars, SendLine, SendRest, readResponse, TimeIsUp, StopForwarder
<1>1. PieceSet' = PieceSet
  BY <1>0 DEF PieceSet, LineSet
<1> DEFINE text == response \o arrived
<1>2. text \in Seq(PieceSet) /\ Apart(text)
  BY ConcatProperties
\* the unit is told nothing
<1>3. ASSUME UNCHANGED unit PROVE ToldIsUtc'
  BY <1>3 DEF ToldIsUtc
<1>4. ASSUME SendLine PROVE TimeInv'
  <2>1. Real(utc')
    <3>1. utc' = Plus(utc, 1)
      BY <1>4 DEF SendLine
    <3>2. 1 \in Int /\ 1 < DAY /\ 1 + DAY > 0 /\ -1 \in Int /\ -1 + 1 = 0
      BY DayIs
    <3> QED
      BY <3>1, <3>2, PlusIs
  <2> DEFINE line == LineOf(utc, zone)
  <2>2. line \in LineSet
    BY DEF LineSet, TimeSet, Real
  <2>3. PICK p \in PieceSet :
           /\ arrived' = Append(arrived, p)
           /\ \/ Ended(p) /\ sending' = sending
              \/ ~Ended(p) /\ \E r \in PieceSet : Ended(r) /\ sending' = {r}
    <3>1. CASE arrived' = Append(arrived, Piece(line, "all", "none")) /\ UNCHANGED sending
      <4>1. Piece(line, "all", "none") \in PieceSet /\ Ended(Piece(line, "all", "none"))
        BY <2>2 DEF Piece, PieceSet, Ended
      <4> QED
        BY <3>1, <4>1
    <3>2. ASSUME NEW cut \in Cut, arrived' = Append(arrived, Piece(line, "head", cut)),
                 sending' = {Piece(line, "rest", cut)}
          PROVE  \E p \in PieceSet :
                   /\ arrived' = Append(arrived, p)
                   /\ \/ Ended(p) /\ sending' = sending
                      \/ ~Ended(p) /\ \E r \in PieceSet : Ended(r) /\ sending' = {r}
      <4>1. /\ Piece(line, "head", cut) \in PieceSet /\ ~Ended(Piece(line, "head", cut))
            /\ Piece(line, "rest", cut) \in PieceSet /\ Ended(Piece(line, "rest", cut))
        BY <2>2 DEF Piece, PieceSet, Ended
      <4> HIDE DEF line
      <4> QED
        BY <3>2, <4>1
    <3> HIDE DEF line
    <3> QED
      BY <1>4, <3>1, <3>2 DEF SendLine, line
  <2>4. sending = {} /\ UNCHANGED <<response, unit>>
    BY <1>4 DEF SendLine, NoPiece
  <2>5. text # <<>> => Ended(text[Len(text)])
    BY <2>4
  <2> HIDE DEF text
  <2>6. /\ Append(text, p) # <<>> /\ Apart(Append(text, p))
        /\ Append(text, p)[Len(Append(text, p))] = p
    BY <1>2, <2>5, PieceJoins
  <2>7. response' \o arrived' = Append(text, p)
    BY <2>3, <2>4, PieceArrives DEF text
  <2>8. arrived' \in Seq(PieceSet) /\ response' \in Seq(PieceSet)
    BY <2>3, <2>4
  <2>9. sending' \subseteq PieceSet /\ (\A r \in sending' : Ended(r)) /\ (sending' = {} => Ended(p))
    BY <2>3
  <2> QED
    BY <1>0, <1>1, <1>3, <2>1, <2>4, <2>6, <2>7, <2>8, <2>9
<1>5. ASSUME SendRest PROVE TimeInv'
  <2>1. PICK p \in sending : arrived' = Append(arrived, p) /\ sending' = {}
                             /\ UNCHANGED <<utc, response, unit>>
    BY <1>5 DEF SendRest, NoPiece
  <2>2. p \in PieceSet /\ Ended(p)
    BY <2>1
  <2> HIDE DEF text
  <2>3. /\ Append(text, p) # <<>> /\ Apart(Append(text, p))
        /\ Append(text, p)[Len(Append(text, p))] = p
    BY <1>2, <2>2, PieceJoins
  <2>4. response' \o arrived' = Append(text, p)
    BY <2>1, <2>2, PieceArrives DEF text
  <2>5. arrived' \in Seq(PieceSet) /\ response' \in Seq(PieceSet)
    BY <2>1, <2>2
  <2> QED
    BY <1>0, <1>1, <1>3, <2>1, <2>2, <2>3, <2>4, <2>5
<1>6. ASSUME readResponse PROVE TimeInv'
  <2>1. arrived # <<>> /\ arrived' = <<>> /\ UNCHANGED <<utc, sending>>
    BY <1>6 DEF readResponse
  <2>2. text # <<>>
    BY <2>1, PartsApart
  <2>3. ToldIsUtc' /\ (response' = <<>> \/ response' = text)
    <3>1. Forward(text) \/ (response' = text /\ UNCHANGED unit)
      BY <1>6 DEF readResponse
    <3> HIDE DEF text
    <3>2. CASE Forward(text)
      BY <1>2, <2>2, <3>2, ForwardTells
    <3>3. CASE response' = text /\ UNCHANGED unit
      BY <1>3, <3>3
    <3> QED
      BY <3>1, <3>2, <3>3
  <2>4. \A s \in Seq(PieceSet) : s \o <<>> = s
    BY ConcatEmptySeq
  <2>5. <<>> \in Seq(PieceSet) /\ Len(<<>>) = 0
    BY EmptySeq
  <2>6. Apart(<<>>)
    BY <2>5 DEF Apart
  <2>7. sending = {} /\ text # <<>> => Ended(text[Len(text)])
    OBVIOUS
  <2> HIDE DEF text
  <2>8. CASE response' = <<>>
    <3>1. response' \o arrived' = <<>>
      BY <2>1, <2>4, <2>5, <2>8
    <3> QED
      BY <1>0, <1>1, <2>1, <2>3, <2>5, <2>6, <2>8, <3>1
  <2>9. CASE response' = text
    <3>1. response' \o arrived' = text
      BY <1>2, <2>1, <2>4, <2>9
    <3> QED
      BY <1>0, <1>1, <1>2, <2>1, <2>3, <2>5, <2>7, <2>9, <3>1
  <2> QED
    BY <2>3, <2>8, <2>9
<1>7. ASSUME TimeIsUp PROVE TimeInv'
  <2>1. response # <<>> /\ Forward(response) /\ UNCHANGED <<utc, sending, arrived>>
    BY <1>7 DEF TimeIsUp
  <2>2. Apart(response) /\ Apart(arrived)
        /\ (arrived # <<>> => text # <<>> /\ arrived[Len(arrived)] = text[Len(text)])
    BY <1>2, PartsApart
  <2>3. ToldIsUtc' /\ response' = <<>>
    BY <2>1, <2>2, ForwardTells
  <2>4. response' \o arrived' = arrived /\ <<>> \in Seq(PieceSet)
    BY <2>1, <2>3, ConcatEmptySeq, EmptySeq
  <2> QED
    BY <1>0, <1>1, <2>1, <2>2, <2>3, <2>4
<1>8. ASSUME StopForwarder \/ UNCHANGED timeVars PROVE TimeInv'
  <2>1. UNCHANGED <<utc, zone, sending, arrived, response, unit>>
    BY <1>8 DEF StopForwarder, timeVars
  <2> QED
    BY <1>1, <1>3, <2>1
<1> QED
  BY <1>4, <1>5, <1>6, <1>7, <1>8 DEF TimeNext

\* However lines come, in whatever zone and before whatever midnight: the unit is told the
\* second and the date of the first line of the text, in UTC.
THEOREM TimeIsTold == TestSpec => []ToldIsUtc
<1>1. TestInit => TimeInv
  BY TimeBegins DEF TestInit
<1>2. TimeInv /\ [TestNext]_testVars => TimeInv'
  <2>1. [TestNext]_testVars => [TimeNext]_timeVars
    BY DEF TestNext, testVars
  <2> QED
    BY <2>1, TimeSteps
<1>3. TimeInv => ToldIsUtc
  BY DEF TimeInv
<1> QED
  BY <1>1, <1>2, <1>3, PTL DEF TestSpec
=============================================================================

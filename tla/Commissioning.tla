--------------------------- MODULE Commissioning ----------------------------
(***************************************************************************)
(* From the start of a test to its traffic: the orchestrator copies the    *)
(* interfaces file of the unit to the switch and completes it              *)
(* (CumulusHelper.cpp), then the test application asks the operator for    *)
(* mode and cables, measures latencies (DTN, EmbeddedLatency.c) and may    *)
(* configure the switch once more (AteCumulusConfig.c).  The switch keeps  *)
(* its state from one test to the next, whatever unit that was of, and     *)
(* every step at the switch may fail half-way.                             *)
(*                                                                         *)
(* The operator answers questions about cables truthfully and questions    *)
(* about modes as he likes.  A failing or warning step is remembered in    *)
(* warned: the text is on his screen.                                      *)
(***************************************************************************)
EXTENDS SwitchWiring, LatencyTest

CONSTANTS
    MaxTests,     \* bound: tests started
    MaxFailures,   \* bound: steps at the switch that fail, over all tests
    TestPorts,   \* bound: ports whose pairs the latency test covers
    Lanes,       \* bound: VLANs of each pair it covers, of 0..3
    Copperless,  \* bound: the copper pairs are left out
    MaxOdd,      \* bound: stamps and packets late or lost, per latency test
    LateBy,      \* what a late stamp or packet takes
    LoopLatency, UnitLatency  \* what a frame takes, plugs and unit

ASSUME CommissionAssumption ==
    /\ {MaxTests, MaxFailures, MaxOdd, LateBy} \cup LoopLatency \cup UnitLatency \subseteq Nat
    /\ TestPorts \subseteq Port /\ Lanes \subseteq 0..3
    /\ Copperless \in BOOLEAN

VARIABLES
    sw,          \* the switch
    bench,       \* what is cabled to it
    tested,        \* the unit of the test
    stage,       \* where the test is
    ate,         \* g_ate_mode
    warned,      \* history: steps of this test that reported a failure
    tests, failures,
    test         \* the latency test: [pairs: still to do, lanes: still to do
                 \* of the first, ch, odd, loopback, unit: results, passed]

commissionVars == <<sw, bench, tested, stage, ate, warned, tests, failures, test>>

\* LOOPBACK_PAIRS and UNIT_TEST_PAIRS: each table, and the copper pairs after it, are in
\* the order of the sending ports
LoopbackPairs == {<<p, 7 - p>> : p \in Port}
UnitPairs == {<<p, Paired(p)>> : p \in Port}
CopperPairs == {<<12, 13>>, <<13, 12>>}
Earliest(pairs) == CHOOSE p \in pairs : \A q \in pairs : p[1] <= q[1]

Covered(pairs) == {p \in pairs : p[1] \in TestPorts}
LoopbackTodo == Covered(LoopbackPairs)
UnitTodo == Covered(UnitPairs) \cup (IF Copperless THEN {} ELSE CopperPairs)

\* the VLANs of a pair, by lane, and those of the first of some pairs
LanesOf(pair) == IF pair[1] \in Copper THEN {0} ELSE Lanes
FirstLanes(pairs) == IF pairs = {} THEN {} ELSE LanesOf(Earliest(pairs))
VlanOn(pair, lane) ==
    IF pair[1] \in Copper THEN 0 ELSE DtnTx[pair[1] + 1] + lane

NoTest == [pairs |-> {}, lanes |-> {}, ch |-> FreshChannel, odd |-> 0,
           loopback |-> {}, unit |-> {}, passed |-> "none"]

CommissionInit ==
    /\ sw \in {NewSwitch(f) : f \in File}
    /\ bench \in Bench /\ tested = "dtn"
    /\ stage = "idle" /\ ate = FALSE /\ warned = {}
    /\ tests = 0 /\ failures = 0
    /\ test = NoTest

Warn(step) == warned' = warned \cup {step}
Failing == failures < MaxFailures /\ failures' = failures + 1

-----------------------------------------------------------------------------
(* The orchestrator.                                                       *)

StartTest(u) ==
    /\ stage = "idle" /\ tests < MaxTests
    /\ tests' = tests + 1 /\ tested' = u
    /\ stage' = "deploy" /\ ate' = FALSE /\ warned' = {} /\ test' = NoTest
    /\ UNCHANGED <<sw, bench, failures>>

\* deployNetworkInterfaces fails: no file, no connection, no copy
DeployFails ==
    /\ stage = "deploy" /\ Failing
    /\ stage' = "idle"
    /\ UNCHANGED <<sw, bench, tested, ate, warned, tests, test>>

\* deployNetworkInterfaces: the file, then ifreload -a, whose failure is a
\* warning "(changes may still be applied)"
Deploy(file, next) ==
    LET copied == [sw EXCEPT !.file = file] IN
    /\ stage' = next
    /\ \/ sw' = Reloaded(copied) /\ UNCHANGED <<warned, failures>>
       \/ Failing /\ Warn("reload") /\ sw' \in {copied, Reloaded(copied)}

DeployNetworkInterfaces ==
    /\ stage = "deploy"
    /\ Deploy(tested, "configure")
    /\ UNCHANGED <<bench, tested, ate, tests, test>>

\* configureSequence, ...Vmc, ...Cmc: no connection
ConfigureFails ==
    /\ stage = "configure" /\ Failing
    /\ stage' = "idle"
    /\ UNCHANGED <<sw, bench, tested, ate, warned, tests, test>>

\* ... every expected entry is there already
ConfigureSkips ==
    /\ stage = "configure" /\ HasAllExpectedVlans(sw, tested)
    /\ stage' = "app"
    /\ UNCHANGED <<sw, bench, tested, ate, warned, tests, failures, test>>

\* ... the batch of commands, which stops at the first that fails.  It is
\* sent too when the entries could not be fetched
ConfigureApplies ==
    /\ stage = "configure"
    /\ LET batch == Expected(tested) IN
       \/ /\ Accepts(sw, batch)
          /\ \/ ~HasAllExpectedVlans(sw, tested) /\ UNCHANGED failures
             \/ Failing
          /\ sw' = Prefix(sw, batch, Len(batch))
          /\ stage' = "app"
       \/ /\ \/ ~Accepts(sw, batch) /\ UNCHANGED failures /\ sw' = sw
             \/ Failing /\ \E n \in {0, 1, Len(batch) - 1} :
                    sw' = IF Accepts(sw, batch) THEN Prefix(sw, batch, n) ELSE sw
          /\ stage' = "idle"
    /\ UNCHANGED <<bench, tested, ate, warned, tests, test>>

\* between two tests the switch restarts, or somebody changes the cables
SwitchRestarts ==
    /\ stage = "idle" /\ sw # Reloaded(sw)
    /\ sw' = Reloaded(sw)
    /\ UNCHANGED <<bench, tested, stage, ate, warned, tests, failures, test>>

-----------------------------------------------------------------------------
(* The application: questions.                                             *)

\* ate_mode_selection: the question that is answered with yes at last; the
\* switch stays as it is
ModeChosen(mode, cables) ==
    /\ ate' = mode /\ bench' = cables
    /\ stage' = "traffic"
    /\ UNCHANGED <<sw, tested, warned, tests, failures, test>>

VmcModeSelection ==
    /\ stage = "app" /\ tested = "vmc"
    /\ ModeChosen(TRUE, "plugs") \/ ModeChosen(FALSE, "unit")

\* with CMC_AUTO_MODE nobody is asked
CmcModeSelection ==
    /\ stage = "app" /\ tested = "cmc"
    /\ \/ ModeChosen(TRUE, "plugs") \/ ModeChosen(FALSE, "unit")
       \/ ModeChosen(FALSE, bench)

\* emb_latency_full_sequence, step 1: the operator wants the loop-back test
\* and has installed the plugs ...
StartLoopback ==
    /\ stage = "app" /\ tested = "dtn"
    /\ bench' = "plugs"
    /\ stage' = "loopback"
    /\ test' = [test EXCEPT !.pairs = LoopbackTodo, !.lanes = FirstLanes(LoopbackTodo)]
    /\ UNCHANGED <<sw, tested, ate, warned, tests, failures>>

\* ... or he does not
SkipLoopback ==
    /\ stage = "app" /\ tested = "dtn"
    /\ stage' = "mode"
    /\ UNCHANGED <<sw, bench, tested, ate, warned, tests, failures, test>>

\* step 2 is for the normal mode
StartUnitTest ==
    /\ stage = "mode"
    /\ bench' = "unit"
    /\ stage' = "unit"
    /\ test' = [test EXCEPT !.pairs = UnitTodo, !.lanes = FirstLanes(UnitTodo)]
    /\ UNCHANGED <<sw, tested, ate, warned, tests, failures>>

\* total_fails, test_passed, and the line main prints
Verdict(loopback, results) ==
    LET fails == {r \in loopback : ~LoopbackPassed(r)}
                    \cup {r \in results : ~UnitPassed(r, loopback)}
    IN  IF fails = {} THEN "passed" ELSE "failed"

\* ate_configure_cumulus fails before it changes anything; the sequence goes
\* on in ATE mode all the same
AteConfigureFails ==
    /\ stage = "mode" /\ Failing /\ Warn("ate")
    /\ stage' = "ateCables"
    /\ UNCHANGED <<sw, bench, tested, ate, tests, test>>

\* ate_cumulus_deploy_interfaces
AteDeployInterfaces ==
    /\ stage = "mode"
    /\ Deploy("ate", "ateConfigure")
    /\ UNCHANGED <<bench, tested, ate, tests, test>>

\* ate_cumulus_configure_sequence: one command after the other
AteConfigureSequence ==
    /\ stage = "ateConfigure"
    /\ \/ /\ Accepts(sw, ExpectedAte)
          /\ sw' = Prefix(sw, ExpectedAte, Len(ExpectedAte))
          /\ UNCHANGED <<warned, failures>>
       \/ /\ ~Accepts(sw, ExpectedAte)
          /\ Warn("ate") /\ UNCHANGED <<sw, failures>>
       \/ /\ Accepts(sw, ExpectedAte) /\ Failing /\ Warn("ate")
          /\ \E n \in {0, 1, 31} : sw' = Prefix(sw, ExpectedAte, n)
    /\ stage' = "ateCables"
    /\ UNCHANGED <<bench, tested, ate, tests, test>>

\* the cables of the ATE mode, then g_ate_mode: no unit test
EnterAteMode ==
    /\ stage = "ateCables"
    /\ bench' = "plugs" /\ ate' = TRUE
    /\ test' = [test EXCEPT !.passed = Verdict(test.loopback, {})]
    /\ IF test'.passed = "failed" THEN Warn("latency") ELSE UNCHANGED warned
    /\ stage' = "traffic"
    /\ UNCHANGED <<sw, tested, tests, failures>>

-----------------------------------------------------------------------------
(* The application: the latency test.                                      *)

Measuring == stage \in {"loopback", "unit"}
Pair == Earliest(test.pairs)

\* what a packet of this pair can meet, and how much of it is late or lost
Fates(pair, vlan) ==
    LET lat == IF stage = "loopback" THEN LoopLatency ELSE UnitLatency
        home == \/ pair[1] \in Copper /\ bench = "unit"
                \/ /\ pair[1] \notin Copper
                   /\ \E w \in 225..256 :
                          <<pair[2], w>> \in Home(sw, tested, bench, pair[1], vlan)
        stamps == {<<0, 0>>, <<LateBy, 1>>, <<Never, 1>>}
        arrivals == IF home THEN (lat \X {0}) \cup {<<LateBy, 1>>, <<Never, 1>>}
                            ELSE {<<Never, 0>>}
    IN  {[stamp |-> f[1][1], lat |-> f[2][1], odd |-> f[1][2] + f[2][2]] :
            f \in stamps \X arrivals}

NextPair ==
    LET left == test.pairs \ {Pair}
    IN  [test EXCEPT !.pairs = left, !.ch = FreshChannel, !.lanes = FirstLanes(left)]

\* a socket cannot be opened: "continue", and nothing is counted
SkipPair ==
    /\ Measuring /\ test.pairs # {} /\ test.lanes = LanesOf(Pair)
    /\ Failing /\ Warn("socket")
    /\ test' = NextPair
    /\ UNCHANGED <<sw, bench, tested, stage, ate, tests>>

\* run_single_test of the next VLAN, and the result entry
RunSingleTest ==
    /\ Measuring /\ test.pairs # {} /\ test.lanes # {}
    /\ LET lane == CHOOSE l \in test.lanes : \A k \in test.lanes : l <= k
           vlan == VlanOn(Pair, lane)
       IN \E choices \in Fates(Pair, vlan) \X Fates(Pair, vlan)
                         \X Fates(Pair, vlan) :
          LET odd == test.odd + choices[1].odd + choices[2].odd
                              + choices[3].odd
              r == SingleTest(test.ch, vlan, choices)
              entry == [tx |-> Pair[1], rx |-> Pair[2], vlan |-> vlan,
                        valid |-> r.valid, latency |-> r.latency,
                        actual |-> r.actual]
              kind == IF stage = "loopback" THEN "loopback" ELSE "unit"
          IN  /\ odd <= MaxOdd
              /\ test' = [test EXCEPT ![kind] = @ \cup {entry},
                                      !.lanes = @ \ {lane},
                                      !.ch = r.ch, !.odd = odd]
    /\ UNCHANGED <<sw, bench, tested, stage, ate, warned, tests, failures>>

\* the sockets of the pair are closed
ClosePair ==
    /\ Measuring /\ test.pairs # {} /\ test.lanes = {}
    /\ test' = NextPair
    /\ UNCHANGED <<sw, bench, tested, stage, ate, warned, tests, failures>>

EndLoopback ==
    /\ stage = "loopback" /\ test.pairs = {}
    /\ stage' = "mode"
    /\ UNCHANGED <<sw, bench, tested, ate, warned, tests, failures, test>>

EndUnitTest ==
    /\ stage = "unit" /\ test.pairs = {}
    /\ test' = [test EXCEPT !.passed = Verdict(test.loopback, test.unit)]
    /\ IF test'.passed = "failed" THEN Warn("latency") ELSE UNCHANGED warned
    /\ stage' = "traffic"
    /\ UNCHANGED <<sw, bench, tested, ate, tests, failures>>

\* the test runs and ends
EndTest ==
    /\ stage = "traffic"
    /\ stage' = "idle"
    /\ UNCHANGED <<sw, bench, tested, ate, warned, tests, failures, test>>

CommissionNext ==
    \/ \E u \in Unit : StartTest(u)
    \/ DeployFails \/ DeployNetworkInterfaces
    \/ ConfigureFails \/ ConfigureSkips \/ ConfigureApplies \/ SwitchRestarts
    \/ VmcModeSelection \/ CmcModeSelection
    \/ StartLoopback \/ SkipLoopback \/ StartUnitTest
    \/ AteConfigureFails \/ AteDeployInterfaces \/ AteConfigureSequence
    \/ EnterAteMode
    \/ SkipPair \/ RunSingleTest \/ ClosePair \/ EndLoopback \/ EndUnitTest
    \/ EndTest

CommissionSpec == CommissionInit /\ [][CommissionNext]_commissionVars

-----------------------------------------------------------------------------
(* Properties.                                                             *)

\* Whatever was tested before and whatever failed at the switch then: when
\* traffic runs and some VLAN does not come home where the application's
\* tables and workers expect it, a step of this very test said so
\* (CumulusHelper.cpp:1900, EmbeddedLatency.c:1642, main.c:141).
NoSilentMisrouting ==
    stage = "traffic" /\ bench # "nothing" /\ ~Routed(sw, tested, ate, bench)
        => warned # {}

\* A latency test that passed proves the wiring of the VLANs it measured:
\* each comes home at the port, and with a VLAN, the traffic will expect it
\* at, even if the switch still has the wiring of another unit.
PassProvesWiring ==
    (stage = "traffic" /\ test.passed = "passed") =>
        \A r \in test.unit :
            \/ r.tx \in Copper
            \/ \E w \in RxVlans("dtn", FALSE, Paired(r.tx)) :
                   Home(sw, "dtn", "unit", r.tx, r.vlan) = {<<Paired(r.tx), w>>}

\* A latency test that passed bounds what the unit really takes, whichever
\* stamp or packet was late or lost: by the threshold, the store-and-forward
\* time and the most a switch may take.  A late stamp of an earlier packet
\* only makes a measurement longer, but one in the loop-back test is
\* subtracted later; the limit of the loop-back test keeps it small.
PassBoundsLatency ==
    (stage = "traffic" /\ test.passed = "passed") =>
        \A r \in test.unit :
            r.actual <= UnitThreshold + StoreForward(r)
                        + (IF r.tx \in Copper THEN 0
                           ELSE Later(LoopbackMax, DefaultSwitch))

=============================================================================

---------------------------- MODULE UnitTraffic ----------------------------
(***************************************************************************)
(* The numbered traffic of the CMC and VMC test applications               *)
(* (dpdk_cmc/src/TxRxManager.c, dpdk_vmc/src/TxRxManager.c), for one VL-ID *)
(* of one port: the sender, which at CMC sends every packet twice, on      *)
(* network A and on network B; the unit, which sends them back; the RX     *)
(* worker of one queue; and the main thread, which resets every counter    *)
(* at the end of the warm-up while they run, and may be stopped at any     *)
(* time.  A burst is one packet.                                           *)
(*                                                                         *)
(* The other queues have workers, trackers and counters of their own (but  *)
(* for the sums of the port): they are left out, and so are the packets    *)
(* that go there.  To track a packet and to clear the tracker are single   *)
(* steps: what could come between concerns a packet from before the reset, *)
(* which leaves the tracker foul, and nothing is claimed of such a tracker *)
(* (SeqTracker takes these steps apart).                                   *)
(***************************************************************************)
EXTENDS Naturals, Sequences, FiniteSets, FiniteSetsExt

CONSTANTS FLUSH,        \* packets after which the worker publishes its counters
          MaxSent,      \* bound: packets sent on network A
          MaxWire,      \* bound: packets on their way, per network
          MaxOdd        \* bound: packets lost, damaged, too short, or for one of the
                        \* monitors

ASSUME TrafficAssumption ==
    /\ FLUSH \in Nat \ {0} /\ MaxSent \in Nat \ {0} /\ MaxWire \in Nat \ {0}
    /\ MaxOdd \in Nat

Net == {"A", "B"}       \* the networks of CMC
Wild == MaxSent + 1      \* what a damaged number reads as

VARIABLES
    unit,       \* "cmc" or "vmc"
    own,        \* the network the queue is for (VMC has one)
    pure,       \* ATE mode, or a flow whose payload is PRBS only
    source,     \* the networks whose packets come to the queue
    tx,         \* the sender: pc, the number it holds, and (history) its numbering
    sequence,   \* tx_vl_sequences[port].sequence[vl]
    wire,       \* packets on their way through the unit to the queue
    tracker,    \* port_vl_trackers: max_seq, pkt_count, expected_seq, initialized
    rx_worker,     \* the RX worker: pc, the packet in hand, local counters
    port,       \* rx_stats_per_port: bad_pkts, what this worker added
    lost,       \* lost_pkts of cmc_stats or vmc_stats
    main,       \* how far the main thread is in helper_reset_stats
    stop,       \* force_quit
    odd,        \* how many packets were lost, damaged, or of another kind
    \* history
    sent,       \* per network, the numbers sent: <<before or after the reset, number>>
    repeated,   \* a number was sent twice on a network
    raced,      \* the numbering was reset in the middle of a tick
    cut,        \* the stop came in the middle of the reset
    seen,       \* the numbers tracked since the reset of the tracker
    foul,       \* a number was tracked that does not belong there
    spoiled     \* packets taken with a damaged payload: [fresh |-> since the reset of
                \* the port counters, all |-> ever]

envVars == <<unit, own, pure, source>>
txVars == <<tx, sequence, sent, repeated>>
rxVars == <<tracker, rx_worker, port, lost, seen, foul, spoiled>>
flowVars == <<envVars, txVars, wire, rxVars, main, stop, odd, raced, cut>>

FreshTracker == [max_seq |-> 0, pkt_count |-> 0, expected_seq |-> 0, initialized |-> 0]
NoPacket == [seq |-> 0, era |-> 0, alien |-> FALSE, zone |-> "none"]
IdleWorker == [pc |-> "poll", pkt |-> NoPacket, rx |-> 0, bad |-> 0, lost |-> 0,
         leaving |-> FALSE]

\* the networks a queue may be for, and those a tick sends to
CmcPorts == Net
VmcPorts == {"A"}
CmcNetworks == Net
VmcNetworks == {"A"}
Twin == "B" \in IF unit = "cmc" THEN CmcNetworks ELSE VmcNetworks   \* dual_net

\* the networks whose flow rule could be installed
CmcRules == SUBSET Net
VmcRules == SUBSET {"A"}

\* what comes to the queue: its own network by the rule; what has no rule goes where
\* its addresses hash, and the two networks have the same addresses
CmcQueue(rules) == {(rules \cap {own}) \cup s : s \in {{}, Net \ rules}}
VmcQueue(rules) == {rules \cup s : s \in {{}, {"A"} \ rules}}

FlowInit ==
    /\ \/ /\ unit = "cmc" /\ own \in CmcPorts
          /\ \E rules \in CmcRules : source \in CmcQueue(rules)
       \/ /\ unit = "vmc" /\ own \in VmcPorts
          /\ \E rules \in VmcRules : source \in VmcQueue(rules)
    /\ pure \in BOOLEAN
    /\ tx = [pc |-> "tick", seq |-> 0, era |-> 0] /\ sequence = 0
    /\ wire = [n \in Net |-> <<>>]
    /\ tracker = FreshTracker /\ rx_worker = IdleWorker /\ port = 0 /\ lost = 0
    /\ main = 0 /\ stop = FALSE /\ odd = 0
    /\ sent = [n \in Net |-> {}] /\ repeated = FALSE /\ raced = FALSE /\ cut = FALSE
    /\ seen = {} /\ foul = FALSE /\ spoiled = [fresh |-> 0, all |-> 0]

-----------------------------------------------------------------------------
(* The reset, part by part.                                                *)

CmcResetOrder ==
    <<"port", "tracker", "tx", "unit">>

\* VMC does not reset the numbering
VmcResetOrder == <<"port", "tracker", "unit">>

ResetOrder == IF unit = "cmc" THEN CmcResetOrder ELSE VmcResetOrder
Done(what) == \E i \in 1..Len(ResetOrder) : i < main /\ ResetOrder[i] = what
AtReset(what) ==
    main \in 1..Len(ResetOrder) /\ ResetOrder[main] = what /\ main' = main + 1
Era == IF Done("tx") THEN 1 ELSE 0

BeginReset ==
    /\ main = 0 /\ ~stop /\ main' = 1
    /\ UNCHANGED <<envVars, txVars, wire, rxVars, stop, odd, raced, cut>>

ResetPort ==
    /\ AtReset("port")
    /\ port' = 0 /\ spoiled' = [spoiled EXCEPT !.fresh = 0]
    /\ UNCHANGED <<envVars, txVars, wire, tracker, rx_worker, lost, seen, foul, stop, odd,
                   raced, cut>>

ResetTracker ==
    /\ AtReset("tracker")
    /\ tracker' = FreshTracker /\ seen' = {}
    /\ UNCHANGED <<envVars, txVars, wire, rx_worker, port, lost, foul, spoiled, stop,
                   odd, raced, cut>>

\* reset_tx_vl_sequences takes a lock the sender does not take
ResetNumbers ==
    /\ AtReset("tx")
    /\ sequence' = 0
    /\ raced' = (tx.pc # "tick")
    /\ UNCHANGED <<envVars, tx, sent, repeated, wire, rxVars, stop, odd, cut>>

ResetUnit ==
    /\ AtReset("unit")
    /\ lost' = 0
    /\ UNCHANGED <<envVars, txVars, wire, tracker, rx_worker, port, seen, foul, spoiled,
                   stop, odd, raced, cut>>

Main == BeginReset \/ ResetPort \/ ResetTracker \/ ResetNumbers \/ ResetUnit

Stop ==
    /\ ~stop /\ stop' = TRUE
    /\ cut' = (main \in 1..Len(ResetOrder))
    /\ UNCHANGED <<envVars, txVars, wire, rxVars, main, odd, raced>>

-----------------------------------------------------------------------------
(* The sender.                                                             *)

txFixed == <<envVars, rxVars, main, stop, odd, raced, cut>>

\* one tick: the number is looked at, not taken
Pick ==
    /\ tx.pc = "tick" /\ ~stop /\ Cardinality(sent["A"]) < MaxSent
    /\ tx' = [pc |-> "send", seq |-> sequence, era |-> Era]
    /\ UNCHANGED <<txFixed, sequence, sent, repeated, wire>>

\* mutant of Retry: the number is used up
RetryCommits ==
    /\ tx.pc = "send" /\ tx' = [tx EXCEPT !.pc = "load"]
    /\ UNCHANGED <<txFixed, sequence, sent, repeated, wire>>

\* no buffer for the twin, or the queue of network A is full: both are dropped
Retry ==
    /\ tx.pc = "send" /\ tx' = [tx EXCEPT !.pc = "tick"]
    /\ UNCHANGED <<txFixed, sequence, sent, repeated, wire>>

\* the packet on network n
Put(n) ==
    LET number == <<tx.era, tx.seq>>
    IN /\ IF n \in source
          THEN /\ Len(wire[n]) < MaxWire
               /\ wire' = [wire EXCEPT ![n] = Append(@, number)]
          ELSE UNCHANGED wire
       /\ sent' = [sent EXCEPT ![n] = @ \cup {number}]
       /\ repeated' = (repeated \/ number \in sent[n])

SendA ==
    /\ tx.pc = "send" /\ Put("A")
    /\ tx' = [tx EXCEPT !.pc = IF Twin THEN "twin" ELSE "load"]
    /\ UNCHANGED <<txFixed, sequence>>

\* network B may be full: a gap there, and the number is used all the same
SendB ==
    /\ tx.pc = "twin"
    /\ Put("B") \/ UNCHANGED <<wire, sent, repeated>>
    /\ tx' = [tx EXCEPT !.pc = "load"]
    /\ UNCHANGED <<txFixed, sequence>>

\* commit_tx_sequence: sequence[vl]++ without the lock, a load ...
CommitLoad ==
    /\ tx.pc = "load" /\ tx' = [tx EXCEPT !.pc = "store", !.seq = sequence]
    /\ UNCHANGED <<txFixed, sequence, sent, repeated, wire>>

\* ... and a store
CommitStore ==
    /\ tx.pc = "store" /\ tx' = [pc |-> "tick", seq |-> 0, era |-> 0]
    /\ sequence' = tx.seq + 1
    /\ UNCHANGED <<txFixed, sent, repeated, wire>>

Sender == Pick \/ Retry \/ SendA \/ SendB \/ CommitLoad \/ CommitStore

\* the unit or the network drops a packet
Lose(n) ==
    /\ wire[n] # <<>> /\ odd < MaxOdd
    /\ wire' = [wire EXCEPT ![n] = Tail(@)]
    /\ odd' = odd + 1
    /\ UNCHANGED <<envVars, txVars, rxVars, main, stop, raced, cut>>

-----------------------------------------------------------------------------
(* The RX worker.                                                          *)

rxFixed == <<envVars, txVars, main, stop, raced, cut>>

\* the worker publishes when FLUSH packets have come in
AfterPacket(rx) == IF rx >= FLUSH THEN "flush" ELSE "poll"

\* the parts of a payload; the last byte is a counter at CMC
Zones == {"number", "splitmix", "crc", "xor", "prbs", "last"}

\* mutant of CmcFails: the byte between the CRC and the PRBS is not looked at
CmcFailsNotXor(zone) ==
    IF pure THEN (IF zone = "last" THEN {} ELSE {"prbs"})
    ELSE CASE zone = "number" -> {"crc", "splitmix", "prbs"}
           [] zone = "splitmix" -> {"crc", "splitmix"}
           [] zone \in {"crc", "prbs"} -> {zone}
           [] zone \in {"xor", "last"} -> {}

\* CMC: the checks that fail when that part was damaged; what is expected of the
\* parts is computed from the number, and the last byte is never looked at
CmcFails(zone) ==
    IF pure THEN (IF zone = "last" THEN {} ELSE {"prbs"})
    ELSE CASE zone = "number" -> {"crc", "splitmix", "xor", "prbs"}
           [] zone = "splitmix" -> {"crc", "splitmix"}
           [] zone \in {"crc", "xor", "prbs"} -> {zone}
           [] zone = "last" -> {}

\* VMC: no byte of its own between the CRC and the PRBS, and in ATE mode the last
\* byte counts
VmcFails(zone) ==
    IF pure THEN {"prbs"}
    ELSE CASE zone = "number" -> {"crc", "splitmix", "prbs"}
           [] zone = "splitmix" -> {"crc", "splitmix"}
           [] zone = "crc" -> {"crc"}
           [] zone \in {"xor", "prbs"} -> {"prbs"}
           [] zone = "last" -> {}

Fails(zone) ==
    IF zone = "none" THEN {} ELSE IF unit = "cmc" THEN CmcFails(zone) ELSE VmcFails(zone)

\* a packet; its number is believed before anything of it is checked
Take ==
    \E n \in Net, zone \in Zones \cup {"none"} :
        /\ rx_worker.pc = "poll" /\ wire[n] # <<>>
        /\ zone # "none" => odd < MaxOdd
        /\ odd' = odd + (IF zone # "none" THEN 1 ELSE 0)
        /\ wire' = [wire EXCEPT ![n] = Tail(@)]
        /\ LET number == Head(wire[n])
               hit == IF zone \in {"none", "last"} THEN 0 ELSE 1
           IN /\ rx_worker' = [rx_worker EXCEPT
                    !.pkt = [seq |-> IF zone = "number" THEN Wild ELSE number[2],
                             era |-> number[1], alien |-> zone = "number" \/ n # own,
                             zone |-> zone],
                    !.rx = @ + 1,
                    !.pc = "track"]
              /\ spoiled' = [fresh |-> spoiled.fresh + hit, all |-> spoiled.all + hit]
        /\ UNCHANGED <<rxFixed, tracker, port, lost, seen, foul>>

\* a packet for the health monitor or for MMMS, or one that is too short
TakeOther ==
    /\ rx_worker.pc = "poll" /\ odd < MaxOdd
    /\ odd' = odd + 1
    /\ rx_worker' = [rx_worker EXCEPT !.rx = @ + 1, !.pc = AfterPacket(rx_worker.rx + 1)]
    /\ UNCHANGED <<rxFixed, wire, tracker, port, lost, seen, foul, spoiled>>

\* what real-time detection counts
Gap(seq) ==
    IF tracker.initialized = 1 /\ seq > tracker.expected_seq
    THEN seq - tracker.expected_seq ELSE 0

\* the tracker after the number
Tracked(seq) ==
    [max_seq |-> Max({tracker.max_seq, seq}), pkt_count |-> tracker.pkt_count + 1,
     expected_seq |-> IF tracker.initialized = 0 \/ seq >= tracker.expected_seq
                      THEN seq + 1 ELSE tracker.expected_seq,
     initialized |-> 1]

\* the tracker first, then the checks of the payload with their counters
Track ==
    LET seq == rx_worker.pkt.seq
    IN /\ rx_worker.pc = "track"
       /\ tracker' = Tracked(seq)
       /\ rx_worker' = [rx_worker EXCEPT !.pc = AfterPacket(rx_worker.rx), !.pkt = NoPacket,
                                   !.lost = @ + Gap(seq),
                                   !.bad = @ + (IF Fails(rx_worker.pkt.zone) = {} THEN 0 ELSE 1)]
       /\ seen' = seen \cup {seq}
       /\ foul' = (foul \/ rx_worker.pkt.alien \/ (rx_worker.pkt.era = 0 /\ Done("tracker")))
       /\ UNCHANGED <<rxFixed, wire, port, lost, spoiled, odd>>

Flush ==
    /\ rx_worker.pc = "flush"
    /\ port' = port + rx_worker.bad /\ lost' = lost + rx_worker.lost
    /\ rx_worker' = [rx_worker EXCEPT !.rx = 0, !.bad = 0, !.lost = 0,
                                !.pc = IF rx_worker.leaving THEN "final" ELSE "poll"]
    /\ UNCHANGED <<rxFixed, wire, tracker, seen, foul, spoiled, odd>>

\* the stop flag is seen: final flush
Leave ==
    /\ rx_worker.pc = "poll" /\ stop
    /\ rx_worker' = [rx_worker EXCEPT !.pc = IF rx_worker.rx > 0 THEN "flush" ELSE "final",
                                !.leaving = TRUE]
    /\ UNCHANGED <<rxFixed, wire, tracker, port, lost, seen, foul, spoiled, odd>>

Watermark ==
    IF tracker.initialized = 1 /\ tracker.max_seq + 1 > tracker.pkt_count
    THEN tracker.max_seq + 1 - tracker.pkt_count ELSE 0

\* mutant of CmcFinal: the watermark is added
CmcFinalAdds == lost' = lost + Watermark

\* CMC: the watermark replaces what was counted in real time
CmcFinal == lost' = Watermark

\* VMC: it is added
VmcFinal == lost' = lost + Watermark

Final ==
    /\ rx_worker.pc = "final"
    /\ rx_worker' = [rx_worker EXCEPT !.pc = "exited"]
    /\ IF unit = "cmc" THEN CmcFinal ELSE VmcFinal
    /\ UNCHANGED <<rxFixed, wire, tracker, port, seen, foul, spoiled, odd>>

Worker == Take \/ TakeOther \/ Track \/ Flush \/ Leave \/ Final

FlowNext == Main \/ Stop \/ Sender \/ (\E n \in Net : Lose(n)) \/ Worker

FlowSpec == FlowInit /\ [][FlowNext]_flowVars

-----------------------------------------------------------------------------
(* Properties.                                                             *)

Missing == IF seen = {} THEN 0 ELSE Cardinality(0..Max(seen) \ seen)

\* Whatever queue is full and whatever buffer is missing, network B never carries
\* a number that network A did not, and the sender neither skips nor repeats a
\* number; the reset alone can do that, by racing with a commit.
TwinsAligned ==
    /\ sent["B"] \subseteq sent["A"]
    /\ ~raced => /\ ~repeated
                 /\ \A m \in sent["A"] : \A s \in 0..m[2] : <<m[1], s>> \in sent["A"]

\* At the end CMC reports exactly the packets that are missing below the highest
\* one, VMC reports them once or twice (it adds the watermark to what it counted
\* in real time).  Not so: a tracker that was fed a number that is not its own (a
\* damaged one, one sent before the reset, one of the other network for want of a
\* flow rule), a reset that raced with a commit or that the stop cut short, and
\* VMC after a reset, which reports the packets of the warm-up as lost.
FinalLossIsReal ==
    rx_worker.pc = "exited" /\ ~raced /\ ~cut /\ ~foul =>
        IF unit = "cmc" THEN lost = Missing
        ELSE main = 0 => lost >= Missing /\ lost <= 2 * Missing

\* Whatever part of the payload was damaged, the packet is counted as bad, once;
\* the reset forgets what was published before it, and lets in what was not.  (The
\* last byte is not part of the claim.)
DamageIsReported ==
    LET total == port + rx_worker.bad + (IF Fails(rx_worker.pkt.zone) = {} THEN 0 ELSE 1)
        last == IF pure /\ unit = "vmc" THEN MaxOdd ELSE 0
    IN total >= spoiled.fresh /\ total <= spoiled.all + last
=============================================================================

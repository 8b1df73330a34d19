---------------------------- MODULE LatencyTest -----------------------------
(***************************************************************************)
(* One latency measurement of EmbeddedLatency.c (run_single_test) and the  *)
(* verdicts over all of them.  A measurement sends two warm-up packets and *)
(* one that counts.  After each it reads one transmit stamp from the error *)
(* queue of its socket and waits for the packet at the other socket; both  *)
(* waits have a limit, and both sockets serve all VLANs of a port pair, so *)
(* what came late is found by the next measurement.                        *)
(*                                                                         *)
(* Times are microseconds.  A channel is the pair of sockets:              *)
(* [stamps: the error queue, as <<send time, readable at>>; packets: those *)
(* under way or unread, as [vlan, seq, at]; now].  Stamps are those of the *)
(* NIC clocks, which agree; software stamps are left out.                  *)
(***************************************************************************)
EXTENDS Integers, Sequences, SequencesExt, FiniteSetsExt

WarmUpWait == 50000    \* poll of 50 ms, for the stamp and for the packet
StampWait == 100000    \* poll of 100 ms
RxTimeout == 100000    \* timeout_ms
LoopbackMax == 30      \* max_latency_us of the loop-back test
UnitThreshold == 30    \* EMB_LAT_UNIT_THRESHOLD_US
DefaultSwitch == 14    \* EMB_LAT_DEFAULT_SWITCH_US
StoreForward1G == 12   \* EMB_LAT_STORE_FWD_DELAY_1G_US
StoreForward100M == 121
Never == 0 - 1         \* a stamp or a packet that does not come

FreshChannel == [stamps |-> <<>>, packets |-> {}, now |-> 0]

\* sendto: the NIC stamps the packet, the network carries it
Transmit(ch, vlan, seq, stamp, lat) ==
    [ch EXCEPT
        !.stamps = IF stamp = Never THEN @
                   ELSE Append(@, <<ch.now, ch.now + stamp>>),
        !.packets = IF lat = Never THEN @
                    ELSE @ \cup {[vlan |-> vlan, seq |-> seq,
                                  at |-> ch.now + lat]}]

Later(a, b) == IF a > b THEN a ELSE b

\* poll on the error queue, and one recvmsg: the oldest stamp, whosever it is
ReadStamp(ch, limit) ==
    IF ch.stamps # <<>> /\ Head(ch.stamps)[2] <= ch.now + limit
    THEN [stamp |-> Head(ch.stamps)[1],
          ch |-> [ch EXCEPT !.stamps = Tail(@),
                            !.now = Later(@, Head(ch.stamps)[2])]]
    ELSE [stamp |-> Never, ch |-> [ch EXCEPT !.now = @ + limit]]

First(packets) == CHOOSE p \in packets : \A q \in packets : p.at <= q.at

\* poll on the receiving socket, and one recv: the first packet, whosever
DiscardOne(ch) ==
    LET due == {p \in ch.packets : p.at <= ch.now + WarmUpWait} IN
    IF due = {} THEN [ch EXCEPT !.now = @ + WarmUpWait]
    ELSE [ch EXCEPT !.packets = @ \ {First(due)},
                    !.now = Later(@, First(due).at)]

\* drain_rx_buffer
Drain(ch) == [ch EXCEPT !.packets = {p \in @ : p.at > ch.now}]

WarmUpPacket(ch, vlan, w, choice) ==
    LET sent == Transmit(ch, vlan, <<"warm-up", w>>, choice.stamp, choice.lat)
        d == DiscardOne(ReadStamp(sent, WarmUpWait).ch)
    IN  [d EXCEPT !.now = @ + 10]

\* mutant of OurPacket: the sequence number is not compared
OurVlan(p, vlan, seq) == p.vlan = vlan

\* is_our_test_packet (VL-ID and VLAN), then extract_sequence
OurPacket(p, vlan, seq) == p.vlan = vlan /\ p.seq = seq

\* The packet that counts.  A packet that is not ours is skipped, ours is
\* taken if both stamps are there and in order
MeasuredPacket(ch, vlan, choice) ==
    LET s == ReadStamp(Transmit(ch, vlan, <<"test", 0>>, choice.stamp,
                                choice.lat), StampWait)
        deadline == s.ch.now + RxTimeout
        mine == {p \in s.ch.packets :
                    /\ p.at < deadline /\ OurPacket(p, vlan, <<"test", 0>>)
                    /\ s.stamp # Never /\ p.at > s.stamp}
        ended == IF mine = {} THEN deadline ELSE Later(s.ch.now, First(mine).at)
    IN  [ch |-> [s.ch EXCEPT !.now = ended,
                             !.packets = {p \in @ : p.at > ended}],
         valid |-> mine # {},
         latency |-> IF mine = {} THEN 0 ELSE First(mine).at - s.stamp,
         actual |-> IF mine = {} THEN 0 ELSE choice.lat]

\* times relative to now: what the next measurement can tell apart
Rebased(ch) ==
    [stamps |-> [i \in DOMAIN ch.stamps |->
                    <<ch.stamps[i][1] - ch.now, ch.stamps[i][2] - ch.now>>],
     packets |-> {[p EXCEPT !.at = @ - ch.now] : p \in ch.packets},
     now |-> 0]

\* run_single_test; choices: what the NIC and the network do with the three
SingleTest(ch, vlan, choices) ==
    LET w == WarmUpPacket(WarmUpPacket(ch, vlan, 0, choices[1]),
                          vlan, 1, choices[2])
        m == MeasuredPacket(Drain(w), vlan, choices[3])
    IN  [m EXCEPT !.ch = Rebased(@)]

-----------------------------------------------------------------------------
(* Results, as sets of [tx, rx, vlan, valid, latency, actual].             *)

Copper == {12, 13}

\* get_dtnirsw_ports
DtnirswPorts(r) ==
    CASE r.vlan \in 97..128            -> <<r.vlan - 97, (r.vlan - 81) % 32>>
      [] r.tx = 12 /\ r.rx = 13        -> <<32, 33>>
      [] r.tx = 13 /\ r.rx = 12        -> <<33, 32>>

\* get_sf_delay_us
StoreForward(r) ==
    IF DtnirswPorts(r) = <<33, 32>> THEN StoreForward100M ELSE StoreForward1G

\* get_loopback_latency_us: the mean over the valid results of the port,
\* those over the limit included
LoopbackLatency(loopback, port) ==
    LET mine == {r \in loopback : r.valid /\ r.tx = port} IN
    CASE port \in Copper -> 0
      [] port \notin Copper /\ mine = {} -> DefaultSwitch
      [] port \notin Copper /\ mine # {} ->
             MapThenSumSet(LAMBDA r : r.latency, mine) \div Cardinality(mine)

\* the loop-back verdict of run_single_test
LoopbackPassed(r) == r.valid /\ r.latency <= LoopbackMax

\* mutant of UnitPassed: an entry without a measurement is not failed
UnitPassedUnseen(r, loopback) ==
    r.latency - LoopbackLatency(loopback, r.tx) - StoreForward(r)
        <= UnitThreshold

\* emb_latency_run_unit_test: the verdict after the correction
UnitPassed(r, loopback) ==
    r.valid /\ r.latency - LoopbackLatency(loopback, r.tx) - StoreForward(r)
                   <= UnitThreshold
=============================================================================

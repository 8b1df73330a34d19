----------------------------- MODULE SeqTracker -----------------------------
(***************************************************************************)
(* Sequence tracking of one VL-ID in the RX workers of the DTN test        *)
(* application (dpdk/src/TxRxManager.c): a lock-free tracker shared by the *)
(* RX queues of a port, the workers that update it one atomic access at a  *)
(* time, the TX worker that numbers the packets, and the main thread that  *)
(* resets the statistics at the end of the warm-up while all of them run.  *)
(*                                                                         *)
(* The three copies of the tracking code in rx_worker (DPDK, external and  *)
(* raw-socket packets) are the same text and are modelled once.  A VL-ID   *)
(* of a peer port is steered to one queue; VL-IDs of the raw-socket ports  *)
(* may reach any (RSS).  RX rings are FIFO and a VL-ID is numbered upwards *)
(* so a ring is a set whose least element is next.                         *)
(*                                                                         *)
(* Left out: PRBS verification and the counters that only it feeds.        *)
(***************************************************************************)
EXTENDS Integers, FiniteSets, FiniteSetsExt, Functions

CONSTANTS
    Worker,      \* the RX queues of the port, each with its worker
    Owner,       \* those whose VL-ID range holds it (they add the watermark)
    MaxPackets,  \* bound: packets sent for this VL-ID
    FLUSH,       \* local counters are flushed at this many packets
    Warmup       \* TRUE: the warm-up ends during the modelled behaviour

ASSUME SeqAssumption ==
    /\ IsFiniteSet(Worker) /\ Worker # {} /\ Owner \subseteq Worker
    /\ MaxPackets \in Nat /\ FLUSH \in Nat \ {0} /\ Warmup \in BOOLEAN

VARIABLES
    queues,       \* the RX queues this VL-ID reaches (never changes)
    next_seq,     \* tx_vl_sequences[..].sequence[vl]
    ring,         \* what each RX queue holds
    dropped,      \* lost in the network
    truncated,    \* arrived, but shorter than the minimum
    tracker,      \* struct vl_sequence_tracker
    stats,        \* rx_stats_per_port: total_rx_pkts and lost_pkts
    worker,       \* each worker's program counter and locals
    resetting,    \* where the main thread is in its warm-up reset
    stop          \* *params->stop_flag

trackerVars == <<queues, next_seq, ring, dropped, truncated, tracker, stats, worker,
          resetting, stop>>

Seq64 == 0..(MaxPackets - 1)
Sent == 0..(next_seq - 1)

-----------------------------------------------------------------------------
TrackerInit ==
    /\ queues \in {{w} : w \in Worker} \cup {Worker}
    /\ next_seq = 0
    /\ ring = [w \in Worker |-> {}]
    /\ dropped = {} /\ truncated = {}
    /\ tracker = [initialized |-> FALSE, expected_seq |-> 0, max_seq |-> 0,
                  pkt_count |-> 0]
    /\ stats = [rx |-> 0, lost |-> 0]
    /\ worker = [w \in Worker |-> [pc |-> "poll", seq |-> 0, seen |-> 0,
                                   local_rx |-> 0, local_lost |-> 0]]
    /\ resetting = "warmup"
    /\ stop = FALSE

(* The TX worker: the number is committed once the NIC took the packet; a  *)
(* full TX queue changes nothing, the number is used again.                *)

Send ==
    /\ ~stop /\ next_seq < MaxPackets
    /\ \/ \E w \in queues : ring' = [ring EXCEPT ![w] = @ \cup {next_seq}]
          /\ UNCHANGED dropped
       \/ dropped' = dropped \cup {next_seq} /\ UNCHANGED ring
    /\ next_seq' = next_seq + 1
    /\ UNCHANGED <<queues, truncated, tracker, stats, worker, resetting, stop>>

-----------------------------------------------------------------------------
(* The RX workers.                                                         *)

Oldest(w, q) == q \in ring[w] /\ \A r \in ring[w] : q <= r

\* the local counters are added to the port's and cleared
FlushTo(w, pc) ==
    /\ stats' = [rx |-> stats.rx + worker[w].local_rx,
                 lost |-> stats.lost + worker[w].local_lost]
    /\ worker' = [worker EXCEPT ![w].pc = pc, ![w].local_rx = 0,
                                ![w].local_lost = 0]

\* rte_eth_rx_burst returns a packet; `initialized' is loaded
Poll(w) ==
    /\ worker[w].pc = "poll" /\ worker[w].local_rx < FLUSH
    /\ \E q \in ring[w] :
          /\ Oldest(w, q)
          /\ ring' = [ring EXCEPT ![w] = @ \ {q}]
          /\ \/ /\ worker' = [worker EXCEPT
                      ![w].pc = IF tracker.initialized THEN "gap" ELSE "cas",
                      ![w].seq = q, ![w].local_rx = @ + 1]
                /\ UNCHANGED truncated
             \/ /\ truncated' = truncated \cup {q}
                /\ worker' = [worker EXCEPT ![w].local_rx = @ + 1]
    /\ UNCHANGED <<queues, next_seq, dropped, tracker, stats, resetting, stop>>

Flush(w) ==
    /\ worker[w].pc = "poll" /\ worker[w].local_rx >= FLUSH
    /\ FlushTo(w, "poll")
    /\ UNCHANGED <<queues, next_seq, ring, dropped, truncated, tracker, resetting,
                   stop>>

\* the first packet of the VL-ID: one worker wins the compare-and-swap ...
Cas(w) ==
    /\ worker[w].pc = "cas"
    /\ tracker' = [tracker EXCEPT !.initialized = TRUE]
    /\ worker' = [worker EXCEPT
          ![w].pc = IF tracker.initialized THEN "max" ELSE "first"]
    /\ UNCHANGED <<queues, next_seq, ring, dropped, truncated, stats, resetting,
                   stop>>

\* ... and stores expected_seq afterwards
First(w) ==
    /\ worker[w].pc = "first"
    /\ tracker' = [tracker EXCEPT !.expected_seq = worker[w].seq + 1]
    /\ worker' = [worker EXCEPT ![w].pc = "max"]
    /\ UNCHANGED <<queues, next_seq, ring, dropped, truncated, stats, resetting,
                   stop>>

\* real-time gap detection: load expected_seq, count the gap ...
Gap(w) ==
    /\ worker[w].pc = "gap"
    /\ LET seq == worker[w].seq
           expected == tracker.expected_seq
       IN worker' = [worker EXCEPT
             ![w].local_lost = IF seq > expected THEN @ + (seq - expected) ELSE @,
             ![w].pc = IF seq >= expected THEN "advance" ELSE "max"]
    /\ UNCHANGED <<queues, next_seq, ring, dropped, truncated, tracker,
                   stats, resetting, stop>>

\* ... and store the successor
Advance(w) ==
    /\ worker[w].pc = "advance"
    /\ tracker' = [tracker EXCEPT !.expected_seq = worker[w].seq + 1]
    /\ worker' = [worker EXCEPT ![w].pc = "max"]
    /\ UNCHANGED <<queues, next_seq, ring, dropped, truncated, stats, resetting,
                   stop>>

\* the loop that raises max_seq: load, leave if not higher ...
LoadMax(w) ==
    /\ worker[w].pc = "max"
    /\ worker' = [worker EXCEPT
          ![w].seen = tracker.max_seq,
          ![w].pc = IF worker[w].seq <= tracker.max_seq THEN "count" ELSE "swap"]
    /\ UNCHANGED <<queues, next_seq, ring, dropped, truncated, tracker,
                   stats, resetting, stop>>

\* mutant of SwapMax: a store without the comparison
SwapMaxStores(w) ==
    /\ worker[w].pc = "swap"
    /\ tracker' = [tracker EXCEPT !.max_seq = worker[w].seq]
    /\ worker' = [worker EXCEPT ![w].pc = "count"]
    /\ UNCHANGED <<queues, next_seq, ring, dropped, truncated, stats, resetting,
                   stop>>

\* ... compare and swap, and load again when another worker was faster
SwapMax(w) ==
    /\ worker[w].pc = "swap"
    /\ IF tracker.max_seq = worker[w].seen
       THEN /\ tracker' = [tracker EXCEPT !.max_seq = worker[w].seq]
            /\ worker' = [worker EXCEPT ![w].pc = "count"]
       ELSE /\ worker' = [worker EXCEPT ![w].pc = "max"]
            /\ UNCHANGED tracker
    /\ UNCHANGED <<queues, next_seq, ring, dropped, truncated, stats, resetting,
                   stop>>

Count(w) ==
    /\ worker[w].pc = "count"
    /\ tracker' = [tracker EXCEPT !.pkt_count = @ + 1]
    /\ worker' = [worker EXCEPT ![w].pc = "poll", ![w].seq = 0, ![w].seen = 0]
    /\ UNCHANGED <<queues, next_seq, ring, dropped, truncated, stats, resetting,
                   stop>>

\* the stop flag is seen: final flush, then the watermark of the own range
Leave(w) ==
    /\ worker[w].pc = "poll" /\ stop
    /\ FlushTo(w, IF w \in Owner THEN "watermark" ELSE "exited")
    /\ UNCHANGED <<queues, next_seq, ring, dropped, truncated, tracker, resetting,
                   stop>>

Watermark(w) ==
    /\ worker[w].pc = "watermark"
    /\ worker' = [worker EXCEPT
          ![w].pc = IF tracker.initialized THEN "watermark_max" ELSE "exited"]
    /\ UNCHANGED <<queues, next_seq, ring, dropped, truncated, tracker,
                   stats, resetting, stop>>

\* mutant of WatermarkMax: the packets below the watermark without itself
WatermarkBelow(w) ==
    /\ worker[w].pc = "watermark_max"
    /\ worker' = [worker EXCEPT ![w].seen = tracker.max_seq,
                                ![w].pc = "watermark_count"]
    /\ UNCHANGED <<queues, next_seq, ring, dropped, truncated, tracker,
                   stats, resetting, stop>>

WatermarkMax(w) ==
    /\ worker[w].pc = "watermark_max"
    /\ worker' = [worker EXCEPT ![w].seen = tracker.max_seq + 1,
                                ![w].pc = "watermark_count"]
    /\ UNCHANGED <<queues, next_seq, ring, dropped, truncated, tracker,
                   stats, resetting, stop>>

\* the shortfall is added to what the real-time detection has counted
WatermarkCount(w) ==
    /\ worker[w].pc = "watermark_count"
    /\ stats' = IF worker[w].seen > tracker.pkt_count
                THEN [stats EXCEPT !.lost = @ + worker[w].seen - tracker.pkt_count]
                ELSE stats
    /\ worker' = [worker EXCEPT ![w].seen = 0, ![w].pc = "exited"]
    /\ UNCHANGED <<queues, next_seq, ring, dropped, truncated, tracker, resetting,
                   stop>>

-----------------------------------------------------------------------------
(* The main thread: init_rx_stats at the end of the warm-up, with plain    *)
(* stores while the workers run, and the request to stop.                  *)

ResetStats ==
    /\ resetting = "warmup" /\ Warmup
    /\ stats' = [rx |-> 0, lost |-> 0]
    /\ resetting' = "max_seq"
    /\ UNCHANGED <<queues, next_seq, ring, dropped, truncated, tracker,
                   worker, stop>>

ResetTracker ==
    /\ \/ /\ resetting = "max_seq" /\ resetting' = "pkt_count"
          /\ tracker' = [tracker EXCEPT !.max_seq = 0]
       \/ /\ resetting = "pkt_count" /\ resetting' = "initialized"
          /\ tracker' = [tracker EXCEPT !.pkt_count = 0]
       \/ /\ resetting = "initialized" /\ resetting' = "test"
          /\ tracker' = [tracker EXCEPT !.initialized = FALSE]
    /\ UNCHANGED <<queues, next_seq, ring, dropped, truncated, stats, worker,
                   stop>>

Stop ==
    /\ ~stop /\ stop' = TRUE
    /\ UNCHANGED <<queues, next_seq, ring, dropped, truncated, tracker,
                   stats, worker, resetting>>

-----------------------------------------------------------------------------
Rx(w) ==
    \/ Poll(w) \/ Flush(w) \/ Cas(w) \/ First(w) \/ Gap(w) \/ Advance(w)
    \/ LoadMax(w) \/ SwapMax(w) \/ Count(w) \/ Leave(w)
    \/ Watermark(w) \/ WatermarkMax(w) \/ WatermarkCount(w)

TrackerNext ==
    \/ Send \/ ResetStats \/ ResetTracker \/ Stop
    \/ \E w \in Worker : Rx(w)

-----------------------------------------------------------------------------
(* Properties.                                                             *)

\* a packet between its arrival and the end of its tracking
Busy(w) == worker[w].pc \in {"cas", "first", "gap", "advance", "max", "swap",
                             "count"}
InHand == {worker[w].seq : w \in {x \in Worker : Busy(x)}}
Queued == UNION {ring[w] : w \in Worker}
Tracked == Sent \ (dropped \cup truncated \cup Queued \cup InHand)

BeforeReset == resetting = "warmup"

\* The watermark is exact: between packets, max_seq is the greatest number
\* tracked and pkt_count their count, however the workers interleave and in
\* whatever order the queues deliver, so that (max_seq + 1) - pkt_count is the
\* number of packets missing below it (the loop around the compare-and-swap of
\* max_seq, the atomic increment of pkt_count).
WatermarkExact ==
    BeforeReset /\ InHand = {} =>
        /\ tracker.pkt_count = Cardinality(Tracked)
        /\ Tracked # {} => tracker.max_seq = Max(Tracked)

\* On a VL-ID steered to one queue the real-time detection is exact too: what it
\* has counted, until a watermark is added, is what is missing after the first
\* packet tracked.
RealTimeExact ==
    \A w \in Worker :
        queues = {w} /\ BeforeReset /\ (\A o \in Owner : worker[o].pc # "exited")
        /\ worker[w].pc = "poll" /\ Tracked # {} =>
            /\ tracker.expected_seq = Max(Tracked) + 1
            /\ stats.lost + worker[w].local_lost
                 = Cardinality({q \in dropped \cup truncated :
                                  Min(Tracked) < q /\ q < Max(Tracked)})

\* Both: the tracker counts exactly wherever it can.
TrackingExact == WatermarkExact /\ RealTimeExact

\* On a VL-ID steered to the queue that adds its watermark, no missing packet
\* below the highest one is hidden in the final count, whatever raced with the
\* stop.  (Under RSS one is: the owner may add the watermark while a packet with
\* a higher number is still in the hands of another worker.)
LossNotHidden ==
    BeforeReset /\ Tracked # {} /\ (\A w \in Worker : worker[w].pc = "exited")
    /\ (\E w \in Owner : queues = {w})
        => stats.lost >= Cardinality(0..Max(Tracked) \ Tracked)

=============================================================================

------------------------------ MODULE RawPort ------------------------------
(***************************************************************************)
(* A raw-socket port of the DTN application (RawSocketPort.c) and one      *)
(* VL-ID that ends at it: the sender, the rings of the RX queues, the      *)
(* workers, and the main thread, which prints the loss and clears the      *)
(* statistics once, at the end of the warm-up, under running workers.      *)
(*                                                                         *)
(* flow: "ext" comes from dpdk_ext_tx_worker (DpdkExternalTx.c) and is     *)
(* tracked by the atomics of g_vl_seq; "raw" comes from the raw_tx_worker  *)
(* of the partner port and is tracked under locks.                         *)
(*                                                                         *)
(* mode: what became of PACKET_FANOUT.  "one": the hash sends a VL-ID to   *)
(* one queue.  "spread": to several, as the comment at line 56 expects.    *)
(* "copies": setting the option failed and every socket gets everything.   *)
(* "legacy": the queues could not be set up; raw_rx_worker serves a single *)
(* socket.                                                                 *)
(*                                                                         *)
(* The VL-ID's packets are numbered from 0.  Of the statistics, packets    *)
(* and losses are kept; the others go the same way.  PRBS and pacing are   *)
(* left out.                                                               *)
(***************************************************************************)
EXTENDS Integers, Sequences, FiniteSetsExt, Functions, TLC

CONSTANTS Queue,        \* RX queues of the port
          MaxPackets,   \* bound: packets of the VL-ID
          MaxLost,      \* bound: packets lost on the way
          FLUSH,        \* STATS_FLUSH_INTERVAL
          BATCH         \* BATCH_SIZE of raw_tx_worker

ASSUME RawPortAssumption ==
    IsFiniteSet(Queue) /\ {MaxPackets, MaxLost} \subseteq Nat /\ {FLUSH, BATCH} \subseteq Nat \ {0}

VARIABLES flow, mode,
          home,     \* the queue of the VL-ID where there is one
          sent,     \* tx_sequence: the next number
          placed,   \* in the TX ring, send() not called yet
          ring,     \* RX rings
          gvs,      \* g_vl_seq of the VL-ID
          source,   \* expected number of raw_vl_sequence, or of the legacy worker
          stats,    \* dpdk_ext_rx_stats, or the source's stats, with its lock
          worker, main, stop,
          hist      \* what happened, for the properties

vars == <<flow, mode, home, sent, placed, ring, gvs, source, stats, worker, main, stop, hist>>

Number == 0..(MaxPackets - 1)
UINT64_MAX == MaxPackets + 1        \* larger than every number
NoStats == [rx |-> 0, lost |-> 0]
Plus(a, b) == [rx |-> a.rx + b.rx, lost |-> a.lost + b.lost]
Fresh == [min |-> UINT64_MAX, max |-> 0, count |-> 0, init |-> FALSE]

\* the sockets a packet can reach, by the outcome of setup_multi_queue_rx
Deliveries == CASE mode = "spread" -> {{q} : q \in Queue}
                [] mode = "copies" -> {Queue}
                [] OTHER -> {{home}}

Init == /\ flow \in {"ext", "raw"}
        /\ mode \in {"one", "spread", "copies", "legacy"}
        /\ home \in IF mode \in {"one", "legacy"} THEN Queue ELSE {"several"}
        /\ sent = 0 /\ placed = {}
        /\ ring = [q \in Queue |-> {}]
        /\ gvs = Fresh
        /\ source = [init |-> FALSE, expected |-> 0]
        /\ stats = [sum |-> NoStats, locked |-> FALSE]
        /\ worker = [q \in Queue |-> [pc |-> "poll", seq |-> 0, add |-> NoStats, read |-> NoStats]]
        /\ main = [pc |-> "loop", warm |-> TRUE, load |-> <<>>, loaded |-> Fresh]
        /\ stop = FALSE
        /\ hist = [taken |-> {}, since |-> {}, first |-> UINT64_MAX, takes |-> 0, dropped |-> 0,
                   wiped |-> NoStats, raced |-> FALSE, stolen |-> FALSE, phantom |-> FALSE]

-----------------------------------------------------------------------------
(* Senders *)

\* The packets P leave; some are lost in the network or in a full ring.
Emit(P) == \E lost \in SUBSET P, to \in [P -> Deliveries] :
             /\ hist.dropped + Cardinality(lost) <= MaxLost
             /\ ring' = [q \in Queue |-> ring[q] \cup {n \in P \ lost : q \in to[n]}]
             /\ hist' = [hist EXCEPT !.dropped = @ + Cardinality(lost)]

\* dpdk_ext_tx_worker: without a buffer, or with a full TX queue, the number
\* stays for the next packet.
ExtSend == /\ flow = "ext" /\ ~stop /\ sent < MaxPackets
           /\ sent' = sent + 1
           /\ Emit({sent})
           /\ UNCHANGED <<flow, mode, home, placed, gvs, source, stats, worker, main, stop>>

\* raw_tx_worker puts a frame into its ring and commits the number ...
RawPlace == /\ flow = "raw" /\ ~stop /\ sent < MaxPackets
            /\ Cardinality(placed) < BATCH
            /\ sent' = sent + 1
            /\ placed' = placed \cup {sent}
            /\ UNCHANGED <<flow, mode, home, ring, gvs, source, stats, worker, main, stop, hist>>

\* ... and calls send(): after BATCH frames, after each round, while it waits
\* for a free frame, and when it leaves.
RawKick == /\ placed # {}
           /\ Emit(placed)
           /\ placed' = {}
           /\ UNCHANGED <<flow, mode, home, sent, gvs, source, stats, worker, main, stop>>

-----------------------------------------------------------------------------
(* RX workers *)

Keep == UNCHANGED <<flow, mode, home, sent, placed, stop>>
Now(q, pc) == worker[q].pc = pc
Goto(q, pc) == worker' = [worker EXCEPT ![q].pc = pc, ![q].seq = IF pc \in {"poll", "lock"} THEN 0 ELSE @]

\* g_vl_seq is being cleared: between its first and its last store
Clearing == main.pc \in {"max", "count", "init"}
Tracking == {"first", "cas", "set", "max", "min"}
Race == hist' = [hist EXCEPT !.raced = @ \/ Clearing]

\* mutant of GapAt
GapShort(seq) == IF source.init /\ seq > source.expected + 1 THEN seq - source.expected - 1 ELSE 0

\* the legacy worker's own detection; a number that is too low pulls
\* `expected' back as well
GapAt(seq) == IF source.init /\ seq > source.expected THEN seq - source.expected ELSE 0
First(seq) == IF source.init THEN hist.first ELSE seq
Follow(seq) == source' = [init |-> TRUE, expected |-> seq + 1]

\* the next frame of the ring; the flag is looked at before each
NextFrame(q) == /\ Now(q, "poll") /\ ~stop /\ ring[q] # {}
                /\ ring' = [ring EXCEPT ![q] = @ \ {Min(ring[q])}]
                /\ Keep /\ UNCHANGED <<gvs, stats, main>>
Counted(q, n, lost, pc) ==
  worker' = [worker EXCEPT ![q].seq = n, ![q].pc = pc, ![q].add = Plus(@, [rx |-> 1, lost |-> lost])]

\* multi_queue_rx_worker: an external packet is counted in the locals and
\* tracked in g_vl_seq ...
TakeExt(q) ==
  /\ flow = "ext" /\ mode # "legacy" /\ NextFrame(q)
  /\ LET n == Min(ring[q])
     IN /\ hist' = [hist EXCEPT !.takes = @ + 1, !.since = @ \cup {n}]
        /\ Counted(q, n, 0, "count")
  /\ UNCHANGED source

\* ... a raw-socket packet in the source's stats, one by one
TakeRaw(q) ==
  /\ flow = "raw" /\ NextFrame(q)
  /\ LET n == Min(ring[q])
     IN /\ hist' = [hist EXCEPT !.takes = @ + 1, !.taken = @ \cup {n}]
        /\ Counted(q, n, 0, "lock")
  /\ UNCHANGED source

\* raw_rx_worker tracks external packets for itself
TakeLegacy(q) ==
  /\ flow = "ext" /\ mode = "legacy" /\ NextFrame(q)
  /\ LET n == Min(ring[q])
     IN /\ hist' = [hist EXCEPT !.takes = @ + 1, !.taken = @ \cup {n}, !.first = First(n)]
        /\ Counted(q, n, GapAt(n), "flush")
        /\ Follow(n)

\* atomic_fetch_add(&vs->rx_count, 1)
Count(q) == /\ Now(q, "count") /\ Goto(q, "first")
            /\ gvs' = [gvs EXCEPT !.count = @ + 1]
            /\ Race /\ Keep /\ UNCHANGED <<ring, source, stats, main>>

\* the first packet of the VL-ID ...
LoadInitialized(q) == /\ Now(q, "first") /\ Goto(q, IF gvs.init THEN "max" ELSE "cas")
                      /\ Race /\ Keep /\ UNCHANGED <<ring, gvs, source, stats, main>>

\* ... sets the minimum, if nobody was faster ...
CasMin(q) == /\ Now(q, "cas")
             /\ IF gvs.min = UINT64_MAX
                THEN gvs' = [gvs EXCEPT !.min = worker[q].seq] /\ Goto(q, "set")
                ELSE Goto(q, "max") /\ UNCHANGED gvs
             /\ Race /\ Keep /\ UNCHANGED <<ring, source, stats, main>>

\* ... and makes the VL-ID visible to the reports
SetInitialized(q) == /\ Now(q, "set") /\ Goto(q, "max")
                     /\ gvs' = [gvs EXCEPT !.init = TRUE]
                     /\ Race /\ Keep /\ UNCHANGED <<ring, source, stats, main>>

\* compare-and-swap loops that end with the larger, the smaller number
RaiseMax(q) == /\ Now(q, "max") /\ Goto(q, "min")
               /\ gvs' = [gvs EXCEPT !.max = IF worker[q].seq > @ THEN worker[q].seq ELSE @]
               /\ Race /\ Keep /\ UNCHANGED <<ring, source, stats, main>>

LowerMin(q) == /\ Now(q, "min") /\ Goto(q, "flush")
               /\ gvs' = [gvs EXCEPT !.min = IF worker[q].seq < @ THEN worker[q].seq ELSE @]
               /\ Race /\ Keep /\ UNCHANGED <<ring, source, stats, main>>

\* local counts are full, or the ring has been empty for a while
FlushDue(q) == \/ Now(q, "flush") /\ worker[q].add.rx >= FLUSH
               \/ Now(q, "poll") /\ flow = "ext" /\ worker[q].add.rx > 0 /\ (ring[q] = {} \/ stop)
                  /\ (stop => mode # "legacy")

Flush(q) == /\ FlushDue(q) /\ Goto(q, "lock")
            /\ Keep /\ UNCHANGED <<ring, gvs, source, stats, main, hist>>
NoFlush(q) == /\ Now(q, "flush") /\ ~FlushDue(q) /\ Goto(q, "poll")
              /\ Keep /\ UNCHANGED <<ring, gvs, source, stats, main, hist>>

\* stats.lock, += and unlock; "lock2" is the inner lock of the sequence
\* check, under rx_lock
Lock(q) == /\ worker[q].pc \in {"lock", "lock2"} /\ ~stats.locked
           /\ stats' = [stats EXCEPT !.locked = TRUE]
           /\ worker' = [worker EXCEPT ![q].pc = IF @ = "lock" THEN "add" ELSE "add2",
                                       ![q].read = stats.sum]
           /\ Keep /\ UNCHANGED <<ring, gvs, source, main, hist>>

\* mutant of AddUnlock: the locals are not cleared
AddAndKeep(q) ==
  /\ worker[q].pc \in {"add", "add2"}
  /\ stats' = [sum |-> Plus(worker[q].read, worker[q].add), locked |-> FALSE]
  /\ worker' = [worker EXCEPT ![q].read = NoStats,
                  ![q].pc = IF flow = "raw" /\ @ = "add" THEN "check" ELSE "poll"]
  /\ Keep /\ UNCHANGED <<ring, gvs, source, main, hist>>

AddUnlock(q) ==
  /\ worker[q].pc \in {"add", "add2"}
  /\ stats' = [sum |-> Plus(worker[q].read, worker[q].add), locked |-> FALSE]
  /\ worker' = [worker EXCEPT ![q].add = NoStats, ![q].read = NoStats,
                  ![q].pc = IF flow = "raw" /\ @ = "add" THEN "check" ELSE "poll"]
  /\ Keep /\ UNCHANGED <<ring, gvs, source, main, hist>>

\* The sequence check of a raw-socket packet, under rx_lock: a gap is added
\* to the losses, and the number after this one is expected in any case.
RxLocked == \E q \in Queue : worker[q].pc \in {"lock2", "add2"}

Check(q) ==
  /\ Now(q, "check") /\ ~RxLocked
  /\ LET gap == GapAt(worker[q].seq)
     IN worker' = [worker EXCEPT ![q].add = [rx |-> 0, lost |-> gap], ![q].seq = 0,
                     ![q].pc = IF gap > 0 THEN "lock2" ELSE "poll"]
  /\ Follow(worker[q].seq)
  /\ hist' = [hist EXCEPT !.first = First(worker[q].seq)]
  /\ Keep /\ UNCHANGED <<ring, gvs, stats, main>>

\* The stop flag is looked at between packets; the locals are added a last
\* time, but not by the legacy worker.
Leave(q) == /\ Now(q, "poll") /\ stop /\ ~FlushDue(q) /\ Goto(q, "done")
            /\ Keep /\ UNCHANGED <<ring, gvs, source, stats, main, hist>>

Worker(q) == \/ TakeExt(q) \/ TakeRaw(q) \/ TakeLegacy(q)
             \/ Count(q) \/ LoadInitialized(q) \/ CasMin(q) \/ SetInitialized(q) \/ RaiseMax(q)
             \/ LowerMin(q) \/ Flush(q) \/ NoFlush(q) \/ Lock(q) \/ AddUnlock(q)
             \/ Check(q) \/ Leave(q)

-----------------------------------------------------------------------------
(* The main thread *)

KeepMain == UNCHANGED <<flow, mode, home, sent, placed, ring, source, worker, stop>>
MainAt(pc) == main.pc = pc
MainTo(pc) == main' = [main EXCEPT !.pc = pc]

\* mutant of LoadOrder
CountBeforeMax == <<"min", "count", "max">>

\* get_global_sequence_lost: one load after the other
LoadOrder == <<"min", "max", "count">>

Report == /\ MainAt("loop") /\ ~stop /\ gvs.init
         /\ main' = [main EXCEPT !.pc = "report", !.load = LoadOrder]
         /\ KeepMain /\ UNCHANGED <<gvs, stats, hist>>

\* max - min + 1 in 64 bits, less the count; no loss is shown when the
\* count is higher
Wrap == UINT64_MAX + 1
Loss(g) == LET expected == (g.max - g.min + 1) % Wrap
           IN IF expected > g.count THEN expected - g.count ELSE 0

\* packets of the range that nobody has counted
Uncounted(lo, hi) == {n \in lo..hi : n \notin hist.since}
InHand == {q \in Queue : worker[q].pc = "count"}

Load == /\ MainAt("report")
        /\ LET now == [main.loaded EXCEPT ![Head(main.load)] = gvs[Head(main.load)]]
               last == Len(main.load) = 1
           IN /\ main' = [main EXCEPT !.loaded = IF last THEN Fresh ELSE now, !.load = Tail(@),
                                      !.pc = IF last THEN "loop" ELSE "report"]
              /\ hist' = [hist EXCEPT !.phantom = @ \/
                   /\ last /\ now.min <= now.max /\ ~hist.raced
                   /\ Loss(now) > Cardinality(Uncounted(now.min, now.max))
                                  + IF mode # "one" THEN Cardinality(InHand) ELSE 0]
        /\ KeepMain /\ UNCHANGED <<gvs, stats>>

\* reset_raw_socket_stats: lock, clear the record with the lock in it (a
\* cleared spin lock is a locked one), initialise the lock, unlock
ResetLock == /\ MainAt("loop") /\ ~stop /\ main.warm /\ ~stats.locked
             /\ MainTo("wipe")
             /\ stats' = [stats EXCEPT !.locked = TRUE]
             /\ KeepMain /\ UNCHANGED <<gvs, hist>>

ResetWipe == /\ MainAt("wipe") /\ MainTo("spin_init")
             /\ stats' = [sum |-> NoStats, locked |-> TRUE]
             /\ hist' = [hist EXCEPT !.wiped = stats.sum]
             /\ KeepMain /\ UNCHANGED gvs

ResetSpinInit == /\ MainAt("spin_init") /\ MainTo("unlock")
                 /\ stats' = [stats EXCEPT !.locked = FALSE]
                 /\ KeepMain /\ UNCHANGED <<gvs, hist>>

\* frees the lock of a worker that took it since
ResetUnlock == /\ MainAt("unlock") /\ MainTo("min")
               /\ stats' = [stats EXCEPT !.locked = FALSE]
               /\ hist' = [hist EXCEPT !.stolen = stats.locked]
               /\ KeepMain /\ UNCHANGED gvs

\* reset_global_sequence_tracking: four stores under running workers
Cleared == [min |-> "max", max |-> "count", count |-> "init", init |-> "loop"]
ResetTracking ==
  /\ main.pc \in DOMAIN Cleared
  /\ gvs' = [gvs EXCEPT ![main.pc] = Fresh[main.pc]]
  /\ main' = [main EXCEPT !.pc = Cleared[main.pc], !.warm = FALSE]
  /\ hist' = [hist EXCEPT !.raced = @ \/ \E q \in Queue : worker[q].pc \in Tracking,
                          !.since = {worker[q].seq : q \in InHand}]
  /\ KeepMain /\ UNCHANGED stats

Stop == /\ ~stop /\ stop' = TRUE
        /\ UNCHANGED <<flow, mode, home, sent, placed, ring, gvs, source, stats, worker, main, hist>>

Sender == ExtSend \/ RawPlace \/ RawKick
Main == Report \/ Load \/ ResetLock \/ ResetWipe \/ ResetSpinInit \/ ResetUnlock \/ ResetTracking \/ Stop

Next == Sender \/ Main \/ \E q \in Queue : Worker(q)

Spec == Init /\ [][Next]_vars

\* the queues are alike
Symmetric == Permutations(Queue)

-----------------------------------------------------------------------------
(* Properties *)

\* Nothing under way, no packet in a worker's hand.
Quiet == /\ placed = {} /\ MainAt("loop")
         /\ \A q \in Queue : ring[q] = {} /\ worker[q].pc \in {"poll", "done"}

\* The loss that is printed while traffic runs is never more than what is
\* really missing, whatever the loads of get_global_sequence_lost fall
\* between.  Excepted: the first packet of a VL-ID, whose maximum is not
\* there yet (the unsigned difference wraps), and a reset that met a packet.
NoPhantomLoss == ~hist.phantom

\* Once the traffic rests, g_vl_seq holds the numbers since the reset, and
\* the loss it gives is exactly the holes among them: whatever order the
\* queues' workers ran in, and however often they met in an update.
\* Excepted: a reset that met a packet in hand, after which the VL-ID may
\* stay invisible for the rest of the test.  Copies of every packet hide
\* losses, and the legacy worker does not track here.
LossSettles ==
  Quiet /\ flow = "ext" /\ mode \in {"one", "spread"} /\ ~hist.raced /\ hist.since # {}
    => /\ gvs.init
       /\ gvs.min = Min(hist.since) /\ gvs.max = Max(hist.since)
       /\ Loss(gvs) = Cardinality(Uncounted(gvs.min, gvs.max))

\* Both: while traffic runs and when it rests, the loss printed is a loss.
LossIsReal == NoPhantomLoss /\ LossSettles

Everywhere == Plus(Plus(stats.sum, hist.wiped), FoldFunction(Plus, NoStats, [q \in Queue |-> worker[q].add]))

\* Every packet a worker took is in the statistics once, in the worker's locals, or
\* was cleared at the end of the warm-up.  And the detection of the raw-socket packets,
\* and of the legacy worker, never counts fewer losses than there are holes, however
\* the queues are served; served in order, it counts exactly the holes.
\* Excepted: the reset unlocks a lock that is not its own any more, and two workers meet.
GapsNotHidden ==
  ~hist.stolen /\ (\A q \in Queue : worker[q].pc \in {"poll", "done"}) /\ MainAt("loop") =>
    /\ Everywhere.rx = hist.takes
    /\ Quiet /\ (flow = "raw" \/ mode = "legacy") /\ hist.taken # {} =>
         LET holes == {n \in hist.first..Max(hist.taken) : n \notin hist.taken}
         IN /\ Everywhere.lost >= Cardinality(holes)
            /\ mode \in {"one", "legacy"} => Everywhere.lost = Cardinality(holes)

=============================================================================

------------------------------ MODULE Payload ------------------------------
(***************************************************************************)
(* What a test packet of the DTN application carries, from the worker that *)
(* builds it to the one that judges it (PacketManager.c, TxRxManager.c,    *)
(* DpdkExternalTx.c, RawSocketPort.c): the IP header with its checksum,    *)
(* the sequence number, and a window of the sender's PRBS cache.  Nothing  *)
(* but the number tells the receiver which window it is.                   *)
(*                                                                         *)
(* The shift register has ORDER bits where the code's has 31, a byte has   *)
(* BITS bits instead of 8; the cache is one byte longer than its period,   *)
(* as there.  Packets are followed one at a time: their order is the       *)
(* subject of SeqTracker and RawPort.                                      *)
(*                                                                         *)
(* stream: "own" from a DPDK port to its pair; "ext", "raw" from a raw port  *)
(* to a DPDK port, with a VLAN tag and without; "dpdk" from an external    *)
(* transmitter to a raw port; "peer" from one raw port to the other.       *)
(***************************************************************************)
EXTENDS Integers, Sequences, FiniteSets

CONSTANTS
    ORDER, BITS,
    NUM_PRBS_BYTES,   \* PRBS bytes of a full packet, RAW_PKT_PRBS_BYTES too
    MIN_IMIX_PRBS_BYTES,   \* ... and of the shortest one of an IMIX round
    STATS_FLUSH,      \* packets after which a worker publishes its counters
    Vls,              \* VL-IDs that a stream may have
    MaxSeq,           \* bound: packets sent
    MaxSpoil          \* bound: packets that the network spoils, each in one way

ASSUME PayloadAssumption ==
    /\ {ORDER, BITS, NUM_PRBS_BYTES, MIN_IMIX_PRBS_BYTES, STATS_FLUSH} \subseteq Nat \ {0}
    /\ ORDER > 3
    /\ MIN_IMIX_PRBS_BYTES =< NUM_PRBS_BYTES
    /\ NUM_PRBS_BYTES + 36 < 65536                \* the length is a word of the header,
    /\ \A v \in Vls : v \in Nat /\ v < 65536       \* the VL-ID another

VARIABLES
    imix,         \* IMIX_ENABLED of the build
    stream, vl,   \* what is sent
    judge,        \* who receives it: "rx" (rx_worker), "multi" or "single" (raw port)
    cached,       \* the DPDK port's cache could be allocated
    seq,          \* the next sequence number
    imix_counter,
    air,          \* the packet on its way
    spoils,       \* packets spoiled so far
    count,        \* the receiver's own counters
    published,    \* the published ones
    over,         \* the receiver has left
    arrived       \* for the properties: packets received, by what was done to them

payloadVars == <<imix, stream, vl, judge, cached, seq, imix_counter, air, spoils, count,
                 published, over, arrived>>

-----------------------------------------------------------------------------
(* The PRBS caches *)

Size == ((2^ORDER - 1) \div BITS) + 1       \* PRBS_CACHE_SIZE

\* A window is no longer than the cache.
ASSUME WindowsFit == NUM_PRBS_BYTES =< Size

\* One step of the DPDK register shifts to the right and takes its output first ...
prbs31_next(s) == ((s + (s \div 8)) % 2) * 2^(ORDER - 1) + (s \div 2)

\* ... one of the raw port's to the left, and its output is the bit shifted in.
raw_prbs31_next(s) == (2 * s + (((s \div 2^(ORDER - 1)) + (s \div 2^(ORDER - 4))) % 2)) % 2^ORDER

Register == LET s[i \in 0..(Size * BITS)] == IF i = 0 THEN 1 ELSE prbs31_next(s[i - 1]) IN s
RawRegister == LET s[i \in 0..(Size * BITS)] == IF i = 0 THEN 2 ELSE raw_prbs31_next(s[i - 1]) IN s

Cache == [i \in 0..(Size - 1) |-> [j \in 1..BITS |-> Register[i * BITS + j - 1] % 2 = 1]]
RawCache == [i \in 0..(Size - 1) |-> [j \in 1..BITS |-> RawRegister[i * BITS + j] % 2 = 1]]

\* The extended cache repeats as many bytes of the beginning as a window may need.
Extended(c) == [i \in 0..(Size + NUM_PRBS_BYTES - 1) |-> IF i < Size THEN c[i] ELSE c[i - Size]]
cache_ext == Extended(Cache)
raw_cache_ext == Extended(RawCache)

FromRaw == stream \in {"ext", "raw", "peer"}
TheCache == IF FromRaw THEN raw_cache_ext ELSE cache_ext

-----------------------------------------------------------------------------
(* IP header: ten words, the sixth is the checksum *)

WordSum(h) == h[1] + h[2] + h[3] + h[4] + h[5] + h[6] + h[7] + h[8] + h[9] + h[10]
Carry(s) == (s % 65536) + (s \div 65536)
Fold16(s) == Carry(Carry(s))
Swapped(w) == (w % 256) * 256 + (w \div 256)

\* With `cs' as checksum, and the flags word of the sender.
Header(len, flags, cs) == <<17664, 36 + len, 0, flags, 273, cs, 2560, 0, 57568, vl>>

\* The DPDK sender adds up the words as the machine reads them, low byte first, and stores
\* the sum the same way: the order does not matter.
calculate_ip_checksum(len) ==
    Swapped(65535 - Fold16(WordSum([i \in 1..10 |-> Swapped(Header(len, 0, 0)[i])])))

\* The raw sender adds them up in network order and swaps the result, and then stores its
\* high byte first.
calculate_ip_checksum_raw(len) == Swapped(65535 - Fold16(WordSum(Header(len, 16384, 0))))

HeaderOf(len) == IF FromRaw THEN Header(len, 16384, calculate_ip_checksum_raw(len))
                            ELSE Header(len, 0, calculate_ip_checksum(len))

-----------------------------------------------------------------------------
(* Senders *)

\* mutant of StartOffset: the window begins where the shorter packets end
PackedOffset(n, len) == (n * len) % Size

\* A packet, however short, moves the window on by that of a full one.
StartOffset(n, len) == (n * NUM_PRBS_BYTES) % Size

\* ... as it was when the receiver computes it.
VerifyOffset(n) == (n * NUM_PRBS_BYTES) % Size

fill_payload(n, len) == [i \in 1..len |-> TheCache[StartOffset(n, len) + i - 1]]

\* PRBS bytes of the packets of an IMIX round; the longest are those of a full packet.
Pattern == [i \in 1..(NUM_PRBS_BYTES - MIN_IMIX_PRBS_BYTES + 1) |-> MIN_IMIX_PRBS_BYTES + i - 1]

PacketSize == IF imix THEN Pattern[(imix_counter % Len(Pattern)) + 1] ELSE NUM_PRBS_BYTES

\* What a worker sends.  For the properties: what the network did.
Built == [header |-> HeaderOf(PacketSize), seq |-> seq, bytes |-> fill_payload(seq, PacketSize),
          known |-> TRUE, fate |-> "sound"]

Zero == [rx |-> 0, good |-> 0, bad |-> 0, bits |-> 0, short |-> 0]
Add(a, b) == [k \in DOMAIN a |-> a[k] + b[k]]

PayloadInit ==
    /\ imix \in BOOLEAN /\ vl \in Vls /\ cached \in BOOLEAN
    /\ \/ stream \in {"own", "ext", "raw"} /\ judge = "rx"
       \/ stream \in {"dpdk", "peer"} /\ judge \in {"multi", "single"}
    /\ seq = 0 /\ imix_counter \in IF imix THEN 0..(Len(Pattern) - 1) ELSE {0}
    /\ air = {} /\ spoils = 0 /\ over = FALSE
    /\ count = Zero /\ published = Zero
    /\ arrived = [f \in {"sound", "alias", "bit", "number", "cut", "route"} |-> 0]

\* Without its cache a DPDK port neither sends nor judges: both workers return at once.
Working == cached \/ stream \in {"raw", "peer"}

\* The round takes the next size, the number is committed only if the packet is gone.
Send ==
    /\ Working /\ air = {} /\ seq < MaxSeq /\ ~over
    /\ imix_counter' = IF imix THEN (imix_counter + 1) % Len(Pattern) ELSE 0
    /\ \E taken \in BOOLEAN : /\ taken \/ imix
                              /\ seq' = IF taken THEN seq + 1 ELSE seq
                              /\ air' = IF taken THEN {Built} ELSE {}
    /\ UNCHANGED <<imix, stream, vl, judge, cached, spoils, count, published, over, arrived>>

-----------------------------------------------------------------------------
(* The network *)

Spoil(p, f) ==
    /\ p.fate = "sound" /\ spoils < MaxSpoil
    /\ spoils' = spoils + 1 /\ air' = {[p EXCEPT !.fate = f]}
    /\ UNCHANGED <<imix, stream, vl, judge, cached, seq, imix_counter, count, published, over, arrived>>

FlipBit == \E p \in air, j \in 1..BITS : \E i \in DOMAIN p.bytes :
    Spoil([p EXCEPT !.bytes[i][j] = ~@], "bit")

FlipNumber == \E p \in air, n \in 0..(MaxSeq + 1) : n # p.seq /\
    Spoil([p EXCEPT !.seq = n], IF VerifyOffset(n) = VerifyOffset(p.seq) THEN "alias" ELSE "number")

Cut == \E p \in air : \E n \in 0..(Len(p.bytes) - 1) :
    Spoil([p EXCEPT !.bytes = SubSeq(@, 1, n)], "cut")

\* To a port that knows no sender of its VL-ID, or, from an external transmitter, to the
\* other raw port.
Misroute == \E p \in air : Spoil([p EXCEPT !.known = FALSE], "route")

-----------------------------------------------------------------------------
(* Receivers *)

\* The bits, of the first k bytes, in which the packet differs from the window of its number.
Wrong(p, k) == {f \in (1..k) \X (1..BITS) :
                   p.bytes[f[1]][f[2]] # TheCache[VerifyOffset(p.seq) + f[1] - 1][f[2]]}

Verdict(bits) == IF bits = 0 THEN [Zero EXCEPT !.rx = 1, !.good = 1]
                             ELSE [Zero EXCEPT !.rx = 1, !.bad = 1, !.bits = bits]

TooShort(p) == Len(p.bytes) < IF imix THEN MIN_IMIX_PRBS_BYTES ELSE NUM_PRBS_BYTES

\* The VL-ID is one of the paired port, or of some raw port.
SenderKnown(p) == p.known

\* rx_worker: the length, the sender, then the bytes.  What no sender is found for is
\* received, and neither good nor bad.
RxWorker(p) ==
    IF TooShort(p) THEN [Zero EXCEPT !.rx = 1, !.short = 1]
    ELSE IF ~SenderKnown(p) THEN [Zero EXCEPT !.rx = 1]
    ELSE Verdict(Cardinality(Wrong(p, IF imix THEN Len(p.bytes) ELSE NUM_PRBS_BYTES)))

\* multi_queue_rx_worker judges as many bytes as there are.  A packet for the other raw
\* port has no cache here: it counts as good.
MultiQueue(p) ==
    IF p.known THEN Verdict(Cardinality(Wrong(p, Len(p.bytes))))
    ELSE IF stream = "dpdk" THEN Verdict(0) ELSE Zero

\* raw_rx_worker.  From the other raw port, outside of IMIX builds, the full size is
\* compared; what a shorter packet does not fill is left from older frames of the ring.
SingleQueue(p, stale) ==
    IF p.known THEN Verdict(Cardinality(Wrong(p, Len(p.bytes))) + stale)
    ELSE IF stream = "dpdk" THEN [Zero EXCEPT !.rx = 1] ELSE Zero

Stale(p) == IF stream = "peer" /\ ~imix THEN 0..((NUM_PRBS_BYTES - Len(p.bytes)) * BITS) ELSE {0}

Judged(p) == IF judge = "rx" THEN {RxWorker(p)}
             ELSE IF judge = "multi" THEN {MultiQueue(p)}
             ELSE {SingleQueue(p, stale) : stale \in Stale(p)}

\* Packets of the other raw port are counted in the published statistics at once.
Receive == \E p \in air :
    /\ ~over /\ air' = {}
    /\ \E add \in Judged(p) :
         IF stream = "peer" THEN published' = Add(published, add) /\ UNCHANGED count
                            ELSE count' = Add(count, add) /\ UNCHANGED published
    /\ arrived' = [arrived EXCEPT ![p.fate] = @ + 1]
    /\ UNCHANGED <<imix, stream, vl, judge, cached, seq, imix_counter, spoils, over>>

Publish == published' = Add(published, count) /\ count' = Zero

\* After so many packets; the raw port's workers also when nothing has come for a while.
PublishDue ==
    /\ ~over /\ count.rx > 0
    /\ count.rx >= STATS_FLUSH \/ judge # "rx"
    /\ Publish
    /\ UNCHANGED <<imix, stream, vl, judge, cached, seq, imix_counter, air, spoils, over, arrived>>

\* On the way out raw_rx_worker publishes nothing.
LeaveRx ==
    /\ ~over /\ over' = TRUE
    /\ IF judge = "single" THEN UNCHANGED <<count, published>> ELSE Publish
    /\ UNCHANGED <<imix, stream, vl, judge, cached, seq, imix_counter, air, spoils, arrived>>

PayloadNext == Send \/ FlipBit \/ FlipNumber \/ Cut \/ Misroute \/ Receive \/ PublishDue \/ LeaveRx

PayloadSpec == PayloadInit /\ [][PayloadNext]_payloadVars

-----------------------------------------------------------------------------
(* Properties *)

\* All words of a sound header, the checksum with them, add up to ones.
Sums(h) == Fold16(WordSum(h)) = 65535

\* A packet that the network changed, and no other, is found bad, whatever its length and
\* however sender and receiver came to their caches: an intact one is good, a flipped bit
\* is one bit error, a changed number makes the bytes those of another window; a shortened
\* packet is short to rx_worker, unless it still has a size of the round, and good to a
\* raw port as far as it goes.  Nothing is judged twice.  Three exceptions are in the code:
\* a number that is off by a whole cache is not found; multi_queue_rx_worker assumes that
\* a packet for the other raw port is good; and outside of IMIX builds raw_rx_worker reads
\* beyond a shortened one.  What DPDK ports send has a sound header.
VerdictsAreRight ==
    LET t == Add(count, published)
        wrong == arrived.bit + arrived.number
        reads == IF stream = "peer" /\ judge = "single" /\ ~imix THEN arrived.cut ELSE 0
    IN /\ t.good + t.bad + t.short
             = arrived.sound + arrived.alias + wrong + arrived.cut
               + (IF stream = "dpdk" /\ judge = "multi" THEN arrived.route ELSE 0)
       /\ t.bad \in wrong..(wrong + reads)
       /\ t.bits >= t.bad /\ (arrived.number + reads = 0 => t.bits = arrived.bit)
       /\ t.short =< arrived.cut /\ (judge = "rx" /\ ~imix => t.short = arrived.cut)
       /\ over /\ judge # "single" => count = Zero
       /\ \A p \in air : ~FromRaw => Sums(p.header)

\* RawSocketPort.c:448 and 519 call what they store the IP checksum: with it the words of
\* a packet of a raw port add up to ones.
ChecksumHolds == \A p \in air : FromRaw => Sums(p.header)

\* Without that the cache repeats early, and a changed number might not be found: no two
\* windows are the same, even of the shortest packet.
ASSUME WindowsDiffer ==
    \A c \in {cache_ext, raw_cache_ext} : \A i, j \in 0..(Size - 1) :
        i # j => \E k \in 0..(MIN_IMIX_PRBS_BYTES - 1) : c[i + k] # c[j + k]
=============================================================================

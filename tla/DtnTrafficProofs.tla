-------------------------- MODULE DtnTrafficProofs --------------------------
(***************************************************************************)
(* The traffic of the DTN application, for any number of queues, packets   *)
(* and clocks.                                                             *)
(*                                                                         *)
(* The loss that is printed (LossIsReal) rests on where packets can be     *)
(* (PlacesInv, OrderInv), on what the record may lack of what was counted  *)
(* while workers are between two of their updates (TrackInv), and on what  *)
(* is left of it while it is being cleared (ClearInv).                     *)
(*                                                                         *)
(* What is counted (GapsNotHidden) is a sum over the queues: that a worker *)
(* changes it by its own part and no more is proved by the least set of    *)
(* queues for which it would fail.  The invariant LockInv says who may     *)
(* write the statistics; GapInv, which numbers have been checked, and that *)
(* the holes among them are counted.                                       *)
(*                                                                         *)
(* Pacing: no clock gives out slots faster than its rate, but for what it  *)
(* may make up for (NoBurst), which is inductive once the types of the     *)
(* clocks are known, because both ways of skipping leave the next slot at  *)
(* the present time or at most a delay before it.  In token-bucket builds  *)
(* no clock leaves its phase (PhaseKept), since what is skipped is a whole *)
(* number of periods.  And a turn of the raw worker drops few slots        *)
(* (DropsBounded), because it only goes on when some target was given a    *)
(* slot, and each target has a share of its own: the invariant TurnOK      *)
(* counts what the others were granted.                                    *)
(*                                                                         *)
(* Packets: what was done to a packet shows in the bits that are not those *)
(* of its window (PacketInv), because no two windows are the same, and a   *)
(* verdict adds what fits it (JudgedFits); so the totals are right, and    *)
(* publishing does not change them (CountInv).  That a header adds up to   *)
(* ones is arithmetic modulo 65535, where swapping bytes is a product.     *)
(***************************************************************************)
EXTENDS DtnTraffic, NumberLemmas, FiniteSetTheorems, SequenceTheorems, TLAPS

-----------------------------------------------------------------------------
(* The raw port: types *)

Stats == [rx : Nat, lost : Nat]
WorkerPc == {"poll", "count", "first", "cas", "set", "max", "min", "flush", "lock", "add", "check",
             "lock2", "add2", "done"}
MainPc == {"loop", "report", "wipe", "spin_init", "unlock", "min", "max", "count", "init"}
Loads == {<<>>, <<"min", "max", "count">>, <<"max", "count">>, <<"count">>}
Gvs == [min : Nat, max : Nat, count : Nat, init : BOOLEAN]
WorkerType == [pc : WorkerPc, seq : Nat, add : Stats, read : Stats]

ConfTypes ==
    /\ flow \in {"ext", "raw"} /\ mode \in {"one", "spread", "copies", "legacy"}
    /\ home \in Queue \cup {"several"} /\ (mode \in {"one", "legacy"} => home \in Queue)
    /\ sent \in 0..MaxPackets /\ placed \in SUBSET Number /\ ring \in [Queue -> SUBSET Number]
    /\ stop \in BOOLEAN
GvsTypes == gvs \in Gvs /\ source \in [init : BOOLEAN, expected : Nat]
StatsTypes == stats \in [sum : Stats, locked : BOOLEAN]
WorkerTypes == worker \in [Queue -> WorkerType]
MainTypes ==
    /\ main \in [pc : MainPc, warm : BOOLEAN, load : Loads, loaded : Gvs]
    /\ main.pc = "report" => main.load # <<>>
HistTypes ==
    hist \in [taken : SUBSET Number, since : SUBSET Nat, first : Nat, takes : Nat, dropped : Nat,
              wiped : Stats, raced : BOOLEAN, stolen : BOOLEAN, phantom : BOOLEAN]

PortTypes == ConfTypes /\ GvsTypes /\ StatsTypes /\ WorkerTypes /\ MainTypes /\ HistTypes

-----------------------------------------------------------------------------
\* Sums of statistics.
LEMMA PlusTypes == NoStats \in Stats /\ \A a, b \in Stats : Plus(a, b) \in Stats
BY DEF NoStats, Stats, Plus

\* The cleared record.
LEMMA FreshIs ==
    /\ Fresh \in Gvs /\ Fresh.min = UINT64_MAX /\ Fresh.max = 0 /\ Fresh.count = 0 /\ Fresh.init = FALSE
    /\ Fresh["min"] = UINT64_MAX /\ Fresh["max"] = 0 /\ Fresh["count"] = 0 /\ Fresh["init"] = FALSE
    /\ UINT64_MAX = MaxPackets + 1 /\ UINT64_MAX \in Nat /\ MaxPackets \in Nat
BY RawPortAssumption DEF Fresh, Gvs, UINT64_MAX

\* The loads of a report, one after the other.
LEMMA LoadsAre ==
    /\ \A l \in {<<"min", "max", "count">>} :
         Head(l) = "min" /\ Tail(l) = <<"max", "count">> /\ Len(l) = 3 /\ Tail(l) # <<>> /\ Tail(l) \in Loads
    /\ \A l \in {<<"max", "count">>} :
         Head(l) = "max" /\ Tail(l) = <<"count">> /\ Len(l) = 2 /\ Tail(l) # <<>> /\ Tail(l) \in Loads
    /\ \A l \in {<<"count">>} : Head(l) = "count" /\ Tail(l) = <<>> /\ Len(l) = 1 /\ Tail(l) \in Loads
<1>1. Tail(<<"min", "max", "count">>) = <<"max", "count">> /\ Tail(<<"max", "count">>) = <<"count">>
  OBVIOUS
<1>2. Tail(<<"count">>) = <<>> /\ <<"max", "count">> # <<>> /\ <<"count">> # <<>>
  OBVIOUS
<1>3. Head(<<"min", "max", "count">>) = "min" /\ Head(<<"max", "count">>) = "max" /\ Head(<<"count">>) = "count"
  OBVIOUS
<1>4. Len(<<"min", "max", "count">>) = 3 /\ Len(<<"max", "count">>) = 2 /\ Len(<<"count">>) = 1
  OBVIOUS
<1> QED
  BY <1>1, <1>2, <1>3, <1>4, Zenon DEF Loads

\* The numbers are finitely many.
LEMMA NumbersAre ==
    /\ IsFiniteSet(Number) /\ \A S \in SUBSET Number : IsFiniteSet(S) /\ Cardinality(S) \in Nat
    /\ Number \subseteq Nat /\ \A n \in Number : n < MaxPackets /\ n < UINT64_MAX
<1>1. MaxPackets \in Nat
  BY RawPortAssumption
<1>2. \A S \in SUBSET (0..(MaxPackets - 1)) : IsFiniteSet(S) /\ Cardinality(S) \in Nat
  BY <1>1, NumbersBelow
<1>3. \A n \in 0..(MaxPackets - 1) : n \in Nat /\ n < MaxPackets /\ n < MaxPackets + 1
  BY <1>1
<1> QED
  BY <1>2, <1>3 DEF Number, UINT64_MAX

\* The smallest number of a ring.
LEMMA NextNumber ==
    ASSUME ConfTypes, NEW q \in Queue, ring[q] # {}
    PROVE  /\ Min(ring[q]) \in ring[q] /\ Min(ring[q]) \in Number /\ Min(ring[q]) \in Nat
           /\ \A n \in ring[q] : Min(ring[q]) <= n
<1>1. ring[q] \in SUBSET Number
  BY DEF ConfTypes
<1>2. ring[q] \in SUBSET Nat
  BY <1>1, NumbersAre
<1> QED
  BY <1>1, <1>2, MinIsLeast

\* A worker that goes on.
Moves(q, w) == worker' = [worker EXCEPT ![q] = w]

\* A step of one worker leaves the others alone.
LEMMA MovesIs ==
    ASSUME WorkerTypes, NEW q \in Queue, NEW w \in WorkerType, Moves(q, w)
    PROVE  /\ WorkerTypes' /\ worker'[q] = w /\ \A r \in Queue : r # q => worker'[r] = worker[r]
BY DEF Moves, WorkerTypes

\* A worker that goes on and keeps its counts.
LEMMA GotoIs ==
    ASSUME WorkerTypes, NEW q \in Queue, NEW pc \in WorkerPc, Goto(q, pc)
    PROVE  /\ Moves(q, [worker[q] EXCEPT !.pc = pc, !.seq = IF pc \in {"poll", "lock"} THEN 0 ELSE @])
           /\ WorkerTypes' /\ worker'[q].pc = pc
           /\ worker'[q].seq = IF pc \in {"poll", "lock"} THEN 0 ELSE worker[q].seq
           /\ worker'[q].add = worker[q].add /\ worker'[q].read = worker[q].read
           /\ \A r \in Queue : r # q => worker'[r] = worker[r]
<1> DEFINE w == [worker[q] EXCEPT !.pc = pc, !.seq = IF pc \in {"poll", "lock"} THEN 0 ELSE @]
<1>1. worker \in [Queue -> WorkerType] /\ worker[q] \in WorkerType
  BY DEF WorkerTypes
<1>2. w \in WorkerType
  BY <1>1 DEF WorkerType
<1>3. worker' = [worker EXCEPT ![q] = w]
  BY <1>1 DEF Goto
<1> QED
  BY <1>1, <1>2, <1>3, MovesIs DEF Moves, WorkerType

\* A worker that took the number n.
LEMMA CountedIs ==
    ASSUME WorkerTypes, NEW q \in Queue, NEW n \in Nat, NEW lost \in Nat, NEW pc \in WorkerPc,
           Counted(q, n, lost, pc)
    PROVE  /\ WorkerTypes' /\ worker'[q].pc = pc /\ worker'[q].seq = n
           /\ worker'[q].add = Plus(worker[q].add, [rx |-> 1, lost |-> lost])
           /\ worker'[q].read = worker[q].read
           /\ \A r \in Queue : r # q => worker'[r] = worker[r]
<1> DEFINE d == Plus(worker[q].add, [rx |-> 1, lost |-> lost])
           w == [worker[q] EXCEPT !.seq = n, !.pc = pc, !.add = d]
<1>1. worker \in [Queue -> WorkerType] /\ worker[q] \in WorkerType
  BY DEF WorkerTypes
<1>2. d \in Stats
  <2>1. worker[q].add \in Stats /\ [rx |-> 1, lost |-> lost] \in Stats
    BY <1>1 DEF WorkerType, Stats
  <2> QED
    BY <2>1, PlusTypes
<1>3. worker' = [worker EXCEPT ![q] = w]
  BY <1>1 DEF Counted
<1> HIDE DEF d
<1>4. w \in WorkerType
  BY <1>1, <1>2 DEF WorkerType
<1>5. w.pc = pc /\ w.seq = n /\ w.add = d /\ w.read = worker[q].read
  BY <1>1 DEF WorkerType
<1> HIDE DEF w
<1> QED
  BY <1>3, <1>4, <1>5, MovesIs DEF Moves, d

\* The losses that a number shows are a number.
LEMMA GapIs == ASSUME GvsTypes, NEW n \in Nat PROVE GapAt(n) \in Nat
BY DEF GapAt, GvsTypes

-----------------------------------------------------------------------------
\* The types hold at first.
LEMMA TypesInit == Init => PortTypes
<1> SUFFICES ASSUME Init PROVE PortTypes
  OBVIOUS
<1> USE FreshIs, PlusTypes
<1>1. ConfTypes
  <2>1. sent \in 0..MaxPackets /\ placed \in SUBSET Number /\ stop \in BOOLEAN
    <3>1. MaxPackets \in Nat /\ 0 \in 0..MaxPackets
      BY RawPortAssumption
    <3>2. sent = 0 /\ placed = {} /\ stop = FALSE
      BY DEF Init
    <3> QED
      BY <3>1, <3>2, Zenon
  <2>2. home \in Queue \cup {"several"} /\ (mode \in {"one", "legacy"} => home \in Queue)
    BY DEF Init
  <2>3. ring \in [Queue -> SUBSET Number]
    BY DEF Init
  <2> QED
    BY <2>1, <2>2, <2>3 DEF Init, ConfTypes
<1>2. GvsTypes /\ StatsTypes
  BY DEF Init, GvsTypes, StatsTypes
<1>3. WorkerTypes
  <2>1. [pc |-> "poll", seq |-> 0, add |-> NoStats, read |-> NoStats] \in WorkerType
    BY DEF WorkerType, WorkerPc
  <2> QED
    BY <2>1 DEF Init, WorkerTypes
<1>4. MainTypes
  BY DEF Init, MainTypes, MainPc, Loads
<1>5. HistTypes
  BY DEF Init, HistTypes
<1> QED
  BY <1>1, <1>2, <1>3, <1>4, <1>5 DEF PortTypes

\* What leaves a sender.
LEMMA EmitTypes ==
    ASSUME PortTypes, NEW P \in SUBSET Number, Emit(P)
    PROVE  ring' \in [Queue -> SUBSET Number] /\ HistTypes'
<1>1. PICK lost \in SUBSET P, to \in [P -> Deliveries] :
        /\ ring' = [q \in Queue |-> ring[q] \cup {n \in P \ lost : q \in to[n]}]
        /\ hist' = [hist EXCEPT !.dropped = @ + Cardinality(lost)]
  BY DEF Emit
<1>2. Cardinality(lost) \in Nat
  BY <1>1, NumbersAre
<1>3. HistTypes'
  BY <1>1, <1>2 DEF PortTypes, HistTypes
<1>4. ring' \in [Queue -> SUBSET Number]
  BY <1>1 DEF PortTypes, ConfTypes
<1> QED
  BY <1>3, <1>4

\* The senders keep them ...
LEMMA SenderTypes == PortTypes /\ Sender => PortTypes'
<1> SUFFICES ASSUME PortTypes, Sender PROVE PortTypes'
  OBVIOUS
<1>0. sent \in 0..MaxPackets /\ MaxPackets \in Nat /\ placed \in SUBSET Number
  BY RawPortAssumption DEF PortTypes, ConfTypes
<1>1. CASE ExtSend
  <2>1. sent < MaxPackets /\ sent' = sent + 1 /\ Emit({sent})
    BY <1>1 DEF ExtSend
  <2>2. sent \in Number /\ sent' \in 0..MaxPackets
    BY <1>0, <2>1 DEF Number
  <2>3. ring' \in [Queue -> SUBSET Number] /\ HistTypes'
    BY <2>1, <2>2, EmitTypes
  <2> QED
    BY <1>1, <2>2, <2>3 DEF ExtSend, PortTypes, ConfTypes, GvsTypes, StatsTypes, WorkerTypes, MainTypes
<1>2. CASE RawPlace
  <2>1. sent < MaxPackets /\ sent' = sent + 1 /\ placed' = placed \cup {sent}
    BY <1>2 DEF RawPlace
  <2>2. sent \in Number /\ sent' \in 0..MaxPackets
    BY <1>0, <2>1 DEF Number
  <2> QED
    BY <1>0, <1>2, <2>1, <2>2 DEF RawPlace, PortTypes, ConfTypes, GvsTypes, StatsTypes, WorkerTypes, MainTypes, HistTypes
<1>3. CASE RawKick
  <2>1. ring' \in [Queue -> SUBSET Number] /\ HistTypes'
    BY <1>0, <1>3, EmitTypes DEF RawKick
  <2> QED
    BY <1>3, <2>1 DEF RawKick, PortTypes, ConfTypes, GvsTypes, StatsTypes, WorkerTypes, MainTypes
<1> QED
  BY <1>1, <1>2, <1>3 DEF Sender

\* What is remembered of a packet that a worker takes.
LEMMA HistIs ==
    ASSUME HistTypes, NEW n \in Number, NEW f \in Nat,
           \/ hist' = [hist EXCEPT !.takes = @ + 1, !.since = @ \cup {n}]
           \/ hist' = [hist EXCEPT !.takes = @ + 1, !.taken = @ \cup {n}]
           \/ hist' = [hist EXCEPT !.takes = @ + 1, !.taken = @ \cup {n}, !.first = f]
    PROVE  HistTypes'
<1> DEFINE s == hist.since \cup {n}
           t == hist.taken \cup {n}
           k == hist.takes + 1
<1>1. n \in Nat
  BY NumbersAre
<1>2. s \in SUBSET Nat /\ t \in SUBSET Number /\ k \in Nat
  BY <1>1 DEF HistTypes
<1>3. \/ hist' = [hist EXCEPT !.takes = k, !.since = s]
      \/ hist' = [hist EXCEPT !.takes = k, !.taken = t]
      \/ hist' = [hist EXCEPT !.takes = k, !.taken = t, !.first = f]
  OBVIOUS
<1> HIDE DEF s, t, k
<1> QED
  BY <1>2, <1>3 DEF HistTypes

\* What a worker leaves alone.
LEMMA KeepTypes ==
    ASSUME PortTypes, Keep, ring' \in [Queue -> SUBSET Number], GvsTypes', StatsTypes', WorkerTypes',
           UNCHANGED main, HistTypes'
    PROVE  PortTypes'
BY DEF PortTypes, Keep, ConfTypes, MainTypes

\* ... so do the workers that take a packet,
LEMMA TakeTypes == ASSUME NEW q \in Queue, PortTypes, TakeExt(q) \/ TakeRaw(q) \/ TakeLegacy(q) PROVE PortTypes'
<1> DEFINE n == Min(ring[q])
<1>0. NextFrame(q)
  BY DEF TakeExt, TakeRaw, TakeLegacy
<1>1. n \in Number /\ n \in Nat /\ ring' = [ring EXCEPT ![q] = @ \ {n}]
  BY <1>0, NextNumber DEF NextFrame, PortTypes
<1>2. ring' \in [Queue -> SUBSET Number]
  BY <1>1 DEF PortTypes, ConfTypes
<1> HIDE DEF n
<1>3. CASE TakeExt(q)
  <2>1. /\ hist' = [hist EXCEPT !.takes = @ + 1, !.since = @ \cup {n}]
        /\ Counted(q, n, 0, "count") /\ source' = source
    BY <1>3 DEF TakeExt, n
  <2>2. HistTypes'
    BY <1>1, <2>1, HistIs DEF PortTypes
  <2>3. WorkerTypes'
    BY <1>1, <2>1, CountedIs DEF PortTypes, WorkerPc
  <2> QED
    BY <1>0, <1>2, <2>1, <2>2, <2>3, KeepTypes DEF NextFrame, PortTypes, GvsTypes, StatsTypes
<1>4. CASE TakeRaw(q)
  <2>1. /\ hist' = [hist EXCEPT !.takes = @ + 1, !.taken = @ \cup {n}]
        /\ Counted(q, n, 0, "lock") /\ source' = source
    BY <1>4 DEF TakeRaw, n
  <2>2. HistTypes'
    BY <1>1, <2>1, HistIs DEF PortTypes
  <2>3. WorkerTypes'
    BY <1>1, <2>1, CountedIs DEF PortTypes, WorkerPc
  <2> QED
    BY <1>0, <1>2, <2>1, <2>2, <2>3, KeepTypes DEF NextFrame, PortTypes, GvsTypes, StatsTypes
<1>5. CASE TakeLegacy(q)
  <2>1. /\ hist' = [hist EXCEPT !.takes = @ + 1, !.taken = @ \cup {n}, !.first = First(n)]
        /\ Counted(q, n, GapAt(n), "flush") /\ Follow(n)
    BY <1>5 DEF TakeLegacy, n
  <2>2. First(n) \in Nat
    BY <1>1 DEF First, PortTypes, HistTypes
  <2>3. HistTypes'
    BY <1>1, <2>1, <2>2, HistIs DEF PortTypes
  <2>4. GapAt(n) \in Nat
    BY <1>1, GapIs DEF PortTypes
  <2>5. WorkerTypes'
    BY <1>1, <2>1, <2>4, CountedIs DEF PortTypes, WorkerPc
  <2>6. GvsTypes'
    BY <1>0, <1>1, <2>1 DEF Follow, NextFrame, GvsTypes, PortTypes
  <2> QED
    BY <1>0, <1>2, <2>3, <2>5, <2>6, KeepTypes DEF NextFrame, PortTypes, StatsTypes
<1> QED
  BY <1>3, <1>4, <1>5

\* hist after a step that may have met the clearing.
LEMMA RaceIs ==
    ASSUME HistTypes, Race
    PROVE  /\ HistTypes' /\ hist'.raced = (hist.raced \/ Clearing)
           /\ hist'.taken = hist.taken /\ hist'.since = hist.since /\ hist'.first = hist.first
           /\ hist'.takes = hist.takes /\ hist'.dropped = hist.dropped /\ hist'.wiped = hist.wiped
           /\ hist'.stolen = hist.stolen /\ hist'.phantom = hist.phantom
<1>1. Clearing \in BOOLEAN
  BY DEF Clearing
<1> HIDE DEF Clearing
<1> QED
  BY <1>1 DEF HistTypes, Race

\* that track it in g_vl_seq,
LEMMA TrackTypes ==
    ASSUME NEW q \in Queue, PortTypes,
           Count(q) \/ LoadInitialized(q) \/ CasMin(q) \/ SetInitialized(q) \/ RaiseMax(q) \/ LowerMin(q)
    PROVE  PortTypes'
<1> USE DEF PortTypes, WorkerPc
<1>1. Race /\ Keep /\ UNCHANGED <<ring, source, stats, main>> /\ HistTypes'
  <2>1. Race /\ Keep /\ UNCHANGED <<ring, source, stats, main>>
    BY DEF Count, LoadInitialized, CasMin, SetInitialized, RaiseMax, LowerMin
  <2> QED
    BY <2>1, RaceIs
<1>2. WorkerTypes'
  <2>1. Goto(q, "first") \/ Goto(q, "max") \/ Goto(q, "cas") \/ Goto(q, "set") \/ Goto(q, "min") \/ Goto(q, "flush")
    BY DEF Count, LoadInitialized, CasMin, SetInitialized, RaiseMax, LowerMin
  <2> QED
    BY <2>1, GotoIs
<1>3. worker[q].seq \in Nat /\ gvs \in Gvs
  BY DEF WorkerTypes, WorkerType, GvsTypes
<1>4. gvs' \in Gvs
  <2>1. CASE Count(q)
    BY <1>3, <2>1 DEF Count, Gvs
  <2>2. CASE LoadInitialized(q)
    BY <1>3, <2>2 DEF LoadInitialized
  <2>3. CASE CasMin(q)
    BY <1>3, <2>3 DEF CasMin, Gvs
  <2>4. CASE SetInitialized(q)
    BY <1>3, <2>4 DEF SetInitialized, Gvs
  <2>5. CASE RaiseMax(q)
    <3> DEFINE m == IF worker[q].seq > gvs.max THEN worker[q].seq ELSE gvs.max
    <3>1. m \in Nat /\ gvs' = [gvs EXCEPT !.max = m]
      BY <1>3, <2>5 DEF RaiseMax, Gvs
    <3> HIDE DEF m
    <3> QED
      BY <1>3, <3>1 DEF Gvs
  <2>6. CASE LowerMin(q)
    <3> DEFINE m == IF worker[q].seq < gvs.min THEN worker[q].seq ELSE gvs.min
    <3>1. m \in Nat /\ gvs' = [gvs EXCEPT !.min = m]
      BY <1>3, <2>6 DEF LowerMin, Gvs
    <3> HIDE DEF m
    <3> QED
      BY <1>3, <3>1 DEF Gvs
  <2> QED
    BY <2>1, <2>2, <2>3, <2>4, <2>5, <2>6
<1>5. GvsTypes' /\ StatsTypes' /\ ring' \in [Queue -> SUBSET Number]
  BY <1>1, <1>4 DEF GvsTypes, StatsTypes, ConfTypes
<1> QED
  BY <1>1, <1>2, <1>5, KeepTypes

\* The steps of a worker that leave g_vl_seq alone.
LEMMA LockIs ==
    ASSUME NEW q \in Queue, PortTypes, Lock(q)
    PROVE  /\ WorkerTypes' /\ worker'[q].pc = (IF worker[q].pc = "lock" THEN "add" ELSE "add2")
           /\ worker'[q].seq = worker[q].seq /\ worker'[q].add = worker[q].add
           /\ worker'[q].read = stats.sum
           /\ \A r \in Queue : r # q => worker'[r] = worker[r]
<1> DEFINE w == [worker[q] EXCEPT !.pc = IF @ = "lock" THEN "add" ELSE "add2", !.read = stats.sum]
<1>1. worker \in [Queue -> WorkerType] /\ worker[q] \in WorkerType /\ stats.sum \in Stats
  BY DEF WorkerTypes, StatsTypes, PortTypes
<1>2. w \in WorkerType
  BY <1>1 DEF WorkerType, WorkerPc
<1>3. worker' = [worker EXCEPT ![q] = w]
  BY <1>1 DEF Lock
<1>4. /\ w.pc = (IF worker[q].pc = "lock" THEN "add" ELSE "add2") /\ w.seq = worker[q].seq
      /\ w.add = worker[q].add /\ w.read = stats.sum
  BY <1>1 DEF WorkerType
<1> HIDE DEF w
<1> QED
  BY <1>2, <1>3, <1>4, MovesIs DEF Moves, PortTypes

\* A worker that adds its counts to the statistics and unlocks them.
LEMMA AddIs ==
    ASSUME NEW q \in Queue, PortTypes, AddUnlock(q)
    PROVE  /\ WorkerTypes'
           /\ worker'[q].pc = (IF flow = "raw" /\ worker[q].pc = "add" THEN "check" ELSE "poll")
           /\ worker'[q].seq = worker[q].seq /\ worker'[q].add = NoStats
           /\ worker'[q].read = NoStats
           /\ \A r \in Queue : r # q => worker'[r] = worker[r]
<1> DEFINE w == [worker[q] EXCEPT !.add = NoStats, !.read = NoStats,
                   !.pc = IF flow = "raw" /\ @ = "add" THEN "check" ELSE "poll"]
<1>1. worker \in [Queue -> WorkerType] /\ worker[q] \in WorkerType /\ NoStats \in Stats
  BY PlusTypes DEF WorkerTypes, StatsTypes, PortTypes
<1>2. w \in WorkerType
  BY <1>1 DEF WorkerType, WorkerPc
<1>3. worker' = [worker EXCEPT ![q] = w]
  BY <1>1 DEF AddUnlock
<1>4. /\ w.pc = (IF flow = "raw" /\ worker[q].pc = "add" THEN "check" ELSE "poll")
      /\ w.seq = worker[q].seq /\ w.add = NoStats /\ w.read = NoStats
  BY <1>1 DEF WorkerType
<1> HIDE DEF w
<1> QED
  BY <1>2, <1>3, <1>4, MovesIs DEF Moves, PortTypes

\* A worker that checks the sequence number.
LEMMA CheckIs ==
    ASSUME NEW q \in Queue, PortTypes, Check(q)
    PROVE  /\ WorkerTypes'
           /\ worker'[q].pc = (IF GapAt(worker[q].seq) > 0 THEN "lock2" ELSE "poll")
           /\ worker'[q].seq = 0 /\ worker'[q].add = [rx |-> 0, lost |-> GapAt(worker[q].seq)]
           /\ worker'[q].read = worker[q].read
           /\ \A r \in Queue : r # q => worker'[r] = worker[r]
<1> DEFINE gap == GapAt(worker[q].seq)
           w == [worker[q] EXCEPT !.add = [rx |-> 0, lost |-> gap], !.seq = 0,
                   !.pc = IF gap > 0 THEN "lock2" ELSE "poll"]
<1>1. worker \in [Queue -> WorkerType] /\ worker[q] \in WorkerType
  BY DEF WorkerTypes, PortTypes
<1>2. gap \in Nat
  BY <1>1, GapIs DEF PortTypes, WorkerType
<1>3. worker' = [worker EXCEPT ![q] = w]
  BY <1>1 DEF Check
<1> HIDE DEF gap
<1>4. w \in WorkerType
  BY <1>1, <1>2 DEF WorkerType, WorkerPc, Stats
<1>5. /\ w.pc = (IF gap > 0 THEN "lock2" ELSE "poll") /\ w.seq = 0
      /\ w.add = [rx |-> 0, lost |-> gap] /\ w.read = worker[q].read
  BY <1>1 DEF WorkerType
<1> HIDE DEF w
<1> QED
  BY <1>3, <1>4, <1>5, MovesIs DEF Moves, PortTypes, gap

\* The steps of a worker around the statistics keep the types.
LEMMA StatsStepTypes ==
    ASSUME NEW q \in Queue, PortTypes,
           Flush(q) \/ NoFlush(q) \/ Lock(q) \/ AddUnlock(q) \/ Check(q) \/ Leave(q)
    PROVE  PortTypes'
<1> USE DEF PortTypes
<1>0. Keep /\ UNCHANGED <<ring, gvs, main>>
  BY DEF Flush, NoFlush, Lock, AddUnlock, Check, Leave
<1>1. WorkerTypes'
  <2>1. CASE Flush(q) \/ NoFlush(q) \/ Leave(q)
    BY <2>1, GotoIs DEF Flush, NoFlush, Leave, WorkerPc
  <2> QED
    BY <2>1, LockIs, AddIs, CheckIs
<1>2. StatsTypes'
  <2>1. CASE Lock(q)
    BY <2>1 DEF Lock, StatsTypes
  <2>2. CASE AddUnlock(q)
    <3>1. Plus(worker[q].read, worker[q].add) \in Stats
      BY PlusTypes DEF WorkerTypes, WorkerType
    <3> QED
      BY <2>2, <3>1 DEF AddUnlock, StatsTypes
  <2>3. CASE Flush(q) \/ NoFlush(q) \/ Check(q) \/ Leave(q)
    BY <2>3 DEF Flush, NoFlush, Check, Leave, StatsTypes
  <2> QED
    BY <2>1, <2>2, <2>3
<1>3. GvsTypes' /\ HistTypes'
  <2>1. CASE Check(q)
    <3>1. worker[q].seq \in Nat
      BY DEF WorkerTypes, WorkerType
    <3>2. First(worker[q].seq) \in Nat
      BY <3>1 DEF First, HistTypes
    <3>3. HistTypes'
      BY <2>1, <3>2 DEF Check, HistTypes
    <3>4. GvsTypes'
      BY <2>1, <3>1 DEF Check, Follow, GvsTypes
    <3> QED
      BY <3>3, <3>4
  <2>2. CASE Flush(q) \/ NoFlush(q) \/ Lock(q) \/ AddUnlock(q) \/ Leave(q)
    BY <2>2 DEF Flush, NoFlush, Lock, AddUnlock, Leave, GvsTypes, HistTypes
  <2> QED
    BY <2>1, <2>2
<1>4. ring' \in [Queue -> SUBSET Number]
  BY <1>0 DEF ConfTypes
<1> QED
  BY <1>0, <1>1, <1>2, <1>3, <1>4, KeepTypes

\* The main thread keeps them.
LEMMA MainStepTypes == PortTypes /\ Main => PortTypes'
<1> SUFFICES ASSUME PortTypes, Main PROVE PortTypes'
  OBVIOUS
<1> USE DEF PortTypes, MainPc
<1>1. CASE Stop
  BY <1>1 DEF Stop, ConfTypes, GvsTypes, StatsTypes, WorkerTypes, MainTypes, HistTypes
<1>2. CASE ~Stop
  <2>0. KeepMain
    BY <1>2 DEF Main, Report, Load, ResetLock, ResetWipe, ResetSpinInit, ResetUnlock, ResetTracking
  <2>1. ConfTypes' /\ WorkerTypes' /\ source' = source
    BY <2>0 DEF KeepMain, ConfTypes, WorkerTypes
  <2>2. CASE Report
    <3>1. LoadOrder \in Loads /\ LoadOrder # <<>>
      BY DEF LoadOrder, Loads
    <3>2. main' = [main EXCEPT !.pc = "report", !.load = LoadOrder] /\ UNCHANGED <<gvs, stats, hist>>
      BY <2>2 DEF Report
    <3>3. MainTypes'
      BY <3>1, <3>2 DEF MainTypes
    <3> QED
      BY <2>1, <3>2, <3>3 DEF GvsTypes, StatsTypes, HistTypes
  <2>3. CASE Load
    <3> DEFINE now == [main.loaded EXCEPT ![Head(main.load)] = gvs[Head(main.load)]]
               last == Len(main.load) = 1
    <3>1. /\ main' = [main EXCEPT !.loaded = IF last THEN Fresh ELSE now, !.load = Tail(@),
                                  !.pc = IF last THEN "loop" ELSE "report"]
          /\ hist' = [hist EXCEPT !.phantom = hist'.phantom] /\ hist'.phantom \in BOOLEAN
          /\ UNCHANGED <<gvs, stats>>
      BY <2>3 DEF Load, HistTypes
    <3>2. \/ main.load = <<"min", "max", "count">> \/ main.load = <<"max", "count">>
          \/ main.load = <<"count">>
      BY <2>3 DEF Load, MainAt, MainTypes, Loads
    <3>3. /\ Tail(main.load) \in Loads /\ Head(main.load) \in {"min", "max", "count"}
          /\ ~last => Tail(main.load) # <<>>
      BY <3>2, LoadsAre
    <3>4. now \in Gvs
      <4>1. main.loaded \in Gvs /\ gvs \in Gvs
        BY DEF MainTypes, GvsTypes
      <4> QED
        BY <3>3, <4>1 DEF Gvs
    <3>5. MainTypes'
      <4> HIDE DEF now, last
      <4> QED
        BY <3>1, <3>3, <3>4, FreshIs DEF MainTypes
    <3>6. HistTypes'
      BY <3>1 DEF HistTypes
    <3> QED
      BY <2>1, <3>1, <3>5, <3>6 DEF GvsTypes, StatsTypes
  <2>4. CASE ResetLock \/ ResetWipe \/ ResetSpinInit \/ ResetUnlock
    <3>1. MainTypes'
      BY <2>4 DEF ResetLock, ResetWipe, ResetSpinInit, ResetUnlock, MainTo, MainTypes
    <3>2. StatsTypes'
      <4>1. CASE ResetWipe
        BY <4>1, PlusTypes DEF ResetWipe, StatsTypes
      <4>2. CASE ResetLock
        BY <4>2 DEF ResetLock, StatsTypes
      <4>3. CASE ResetSpinInit
        BY <4>3 DEF ResetSpinInit, StatsTypes
      <4>4. CASE ResetUnlock
        BY <4>4 DEF ResetUnlock, StatsTypes
      <4> QED
        BY <2>4, <4>1, <4>2, <4>3, <4>4
    <3>3. HistTypes'
      BY <2>4 DEF ResetLock, ResetWipe, ResetSpinInit, ResetUnlock, HistTypes, StatsTypes
    <3>4. gvs' = gvs
      BY <2>4 DEF ResetLock, ResetWipe, ResetSpinInit, ResetUnlock
    <3> QED
      BY <2>1, <3>1, <3>2, <3>3, <3>4 DEF GvsTypes
  <2>5. CASE ResetTracking
    <3>1. main.pc \in {"min", "max", "count", "init"} /\ Cleared[main.pc] \in {"max", "count", "init", "loop"}
      BY <2>5 DEF ResetTracking, Cleared
    <3>2. MainTypes'
      BY <2>5, <3>1 DEF ResetTracking, MainTypes
    <3>3. GvsTypes'
      <4>1. gvs \in Gvs /\ gvs' = [gvs EXCEPT ![main.pc] = Fresh[main.pc]]
        BY <2>5 DEF ResetTracking, GvsTypes
      <4>2. gvs' \in Gvs
        <5>1. CASE main.pc = "min"
          BY <4>1, <5>1, FreshIs DEF Gvs
        <5>2. CASE main.pc = "max"
          BY <4>1, <5>2, FreshIs DEF Gvs
        <5>3. CASE main.pc = "count"
          BY <4>1, <5>3, FreshIs DEF Gvs
        <5>4. CASE main.pc = "init"
          BY <4>1, <5>4, FreshIs DEF Gvs
        <5> QED
          BY <3>1, <5>1, <5>2, <5>3, <5>4
      <4> QED
        BY <2>1, <4>2 DEF GvsTypes
    <3>4. HistTypes'
      <4> DEFINE S == {worker[q].seq : q \in InHand}
                 b == \E q \in Queue : worker[q].pc \in Tracking
      <4>1. hist' = [hist EXCEPT !.raced = @ \/ b, !.since = S]
        BY <2>5 DEF ResetTracking
      <4>2. S \in SUBSET Nat
        BY DEF InHand, WorkerTypes, WorkerType
      <4>3. b \in BOOLEAN
        OBVIOUS
      <4> HIDE DEF S, b
      <4> QED
        BY <4>1, <4>2, <4>3 DEF HistTypes
    <3> QED
      BY <2>1, <2>5, <3>2, <3>3, <3>4 DEF ResetTracking, StatsTypes
  <2> QED
    BY <1>2, <2>2, <2>3, <2>4, <2>5 DEF Main
<1> QED
  BY <1>1, <1>2

\* Every step keeps the types.
LEMMA TypesStep == PortTypes /\ [Next]_vars => PortTypes'
<1> SUFFICES ASSUME PortTypes, [Next]_vars PROVE PortTypes'
  OBVIOUS
<1>1. CASE UNCHANGED vars
  BY <1>1 DEF vars, PortTypes, ConfTypes, GvsTypes, StatsTypes, WorkerTypes, MainTypes, HistTypes
<1>2. ASSUME NEW q \in Queue, Worker(q) PROVE PortTypes'
  BY <1>2, TakeTypes, TrackTypes, StatsStepTypes DEF Worker
<1> QED
  BY <1>1, <1>2, SenderTypes, MainStepTypes DEF Next

(* The loss that is printed *)

\* From the count of a packet to its last compare-and-swap.
Hands == {"count"} \cup Tracking
Holding(n, pcs) == \E q \in Queue : worker[q].pc \in pcs /\ worker[q].seq = n

Single == flow = "ext" /\ mode \in {"one", "spread"}
InOrder == flow = "ext" /\ mode = "one"

\* counted, and not in the hand of a worker that has not counted it yet
Settled == {n \in hist.since : ~Holding(n, {"count"})}

\* Where the packets are: no number is ahead of the sender, and without copies each is in one
\* place.
PlacesInv ==
    flow = "ext" =>
        /\ placed = {}
        /\ \A q \in Queue : \A n \in ring[q] : n < sent
        /\ \A n \in hist.since : n < sent
        /\ \A q \in InHand : worker[q].seq \in hist.since
        /\ Single => /\ \A q \in Queue : \A n \in ring[q] : n \notin hist.since
                     /\ \A q, r \in Queue : \A n \in ring[q] : n \in ring[r] => q = r
                     /\ \A q, r \in InHand : worker[q].seq = worker[r].seq => q = r

\* One queue serves the VL-ID in order.
OrderInv ==
    InOrder =>
        /\ home \in Queue
        /\ \A q \in Queue : q # home => ring[q] = {} /\ worker[q].pc \notin Hands
        /\ \A n \in ring[home], m \in hist.since : m < n
        /\ home \in InHand => \A m \in hist.since : m <= worker[home].seq

\* What is not an external packet of the new workers is not tracked here.
ElseInv ==
    flow = "raw" \/ mode = "legacy" => hist.since = {} /\ \A q \in Queue : worker[q].pc \notin Hands

\* The record holds what was counted, but for what the workers still have in hand.
BoundsHold ==
    /\ \A n \in hist.since : gvs.min <= n \/ Holding(n, Hands)
    /\ \A n \in hist.since : gvs.max >= n \/ Holding(n, Hands \ {"min"})
    /\ \A q \in Queue : worker[q].pc \in Tracking => worker[q].seq \in hist.since
    /\ gvs.min \in hist.since \cup {UINT64_MAX} /\ gvs.max \in hist.since \cup {0}
SeenHolds ==
    /\ gvs.init => gvs.min # UINT64_MAX
    /\ \A q \in Queue : worker[q].pc \in {"set", "max", "min"} => gvs.min # UINT64_MAX
    /\ gvs.min # UINT64_MAX => gvs.init \/ \E q \in Queue : worker[q].pc = "set"
CountHolds ==
    /\ Cardinality(hist.since) <= gvs.count + Cardinality(InHand)
    /\ Single => Cardinality(hist.since) = gvs.count + Cardinality(InHand)
SettledHolds ==
    InOrder => gvs.min \in Settled \cup {UINT64_MAX} /\ gvs.max \in Settled \cup {0}

TrackInv == ~hist.raced /\ ~Clearing => BoundsHold /\ SeenHolds /\ CountHolds /\ SettledHolds

\* The record while it is being cleared.
ClearInv ==
    ~hist.raced /\ Clearing =>
        /\ \A q \in Queue : worker[q].pc \notin Tracking
        /\ gvs.min = UINT64_MAX
        /\ main.pc \in {"count", "init"} => gvs.max = 0
        /\ main.pc = "init" => gvs.count = 0

\* What a report has loaded so far.
ReportInv ==
    main.pc = "report" /\ ~hist.raced /\ InOrder =>
        /\ main.load \in {<<"max", "count">>, <<"count">>} => main.loaded.min \in Settled \cup {UINT64_MAX}
        /\ main.load = <<"count">> => main.loaded.max \in Settled \cup {0}

LossParts == PlacesInv /\ OrderInv /\ ElseInv /\ TrackInv /\ ClearInv /\ ReportInv

-----------------------------------------------------------------------------
\* The numbers that were taken are finitely many, and smaller than the initial minimum.
LEMMA SinceIs ==
    ASSUME PortTypes, PlacesInv, ElseInv
    PROVE  /\ hist.since \in SUBSET Nat /\ IsFiniteSet(hist.since) /\ Cardinality(hist.since) \in Nat
           /\ \A n \in hist.since : n <= MaxPackets - 1 /\ n < UINT64_MAX
<1>1. hist.since \in SUBSET Nat /\ sent \in Nat /\ sent <= MaxPackets /\ MaxPackets \in Nat
      /\ UINT64_MAX = MaxPackets + 1
  BY FreshIs DEF PortTypes, HistTypes, ConfTypes
<1>2. \A n \in hist.since : n \in Nat /\ n < sent
  BY <1>1 DEF PlacesInv, ElseInv, PortTypes, ConfTypes
<1>3. hist.since \in SUBSET (0..(sent - 1))
  BY <1>1, <1>2
<1>4. IsFiniteSet(hist.since) /\ Cardinality(hist.since) \in Nat
  BY <1>1, <1>3, NumbersBelow
<1>5. \A n \in hist.since : n <= MaxPackets - 1 /\ n < UINT64_MAX
  BY <1>1, <1>2
<1> QED
  BY <1>1, <1>4, <1>5

\* The workers are finitely many.
LEMMA HandsAre == IsFiniteSet(InHand) /\ Cardinality(InHand) \in Nat /\ InHand \subseteq Queue
<1>1. IsFiniteSet(Queue) /\ InHand \in SUBSET Queue
  BY RawPortAssumption DEF InHand
<1> QED
  BY <1>1, FS_Subset, FS_CardinalityType

\* Nothing is lost at first.
LEMMA LossInit == Init => LossParts /\ ~hist.phantom
<1> SUFFICES ASSUME Init PROVE LossParts /\ ~hist.phantom
  OBVIOUS
<1>1. /\ hist.since = {} /\ hist.raced = FALSE /\ hist.phantom = FALSE
      /\ \A q \in Queue : ring[q] = {} /\ worker[q].pc = "poll"
      /\ gvs = Fresh /\ placed = {} /\ main.pc = "loop" /\ main.load = <<>>
      /\ (mode = "one" => home \in Queue)
  BY DEF Init
<1>2. InHand = {} /\ Cardinality(InHand) = 0 /\ Cardinality(hist.since) = 0 /\ ~Clearing
  BY <1>1, FS_EmptySet DEF InHand, Clearing
<1>3. PlacesInv /\ OrderInv /\ ElseInv
  BY <1>1, <1>2 DEF PlacesInv, OrderInv, ElseInv, Hands, Tracking, InOrder
<1>4. TrackInv
  BY <1>1, <1>2, FreshIs DEF TrackInv, BoundsHold, SeenHolds, CountHolds, SettledHolds, Tracking
<1>5. ClearInv /\ ReportInv
  BY <1>1, <1>2 DEF ClearInv, ReportInv
<1> QED
  BY <1>1, <1>3, <1>4, <1>5 DEF LossParts

-----------------------------------------------------------------------------
\* A step that takes no packet into the hand and lays none down.
HandsSame ==
    /\ \A q \in Queue : worker[q].pc \in Hands \/ worker'[q].pc \in Hands =>
         worker'[q].pc = worker[q].pc /\ worker'[q].seq = worker[q].seq
    /\ UNCHANGED <<flow, mode, home, gvs>>
    /\ hist'.since = hist.since /\ hist'.raced = hist.raced

\* The hands of the workers stay when no worker moves in or out of them.
LEMMA HandsFrame ==
    ASSUME HandsSame
    PROVE  /\ InHand' = InHand /\ Settled' = Settled
           /\ \A n : \A pcs \in SUBSET Hands : Holding(n, pcs)' <=> Holding(n, pcs)
           /\ \A q \in Queue, pc \in Hands : worker'[q].pc = pc <=> worker[q].pc = pc
<1>1. \A q \in Queue, pc \in Hands : worker'[q].pc = pc <=> worker[q].pc = pc
  BY DEF HandsSame
<1>2. "count" \in Hands
  BY DEF Hands
<1>3. InHand' = InHand
  BY <1>1, <1>2 DEF InHand
<1>4. ASSUME NEW n, NEW pcs \in SUBSET Hands PROVE Holding(n, pcs)' <=> Holding(n, pcs)
  BY DEF HandsSame, Holding
<1>5. Settled' = Settled
  BY <1>2, <1>4 DEF Settled, HandsSame
<1> QED
  BY <1>1, <1>3, <1>4, <1>5

\* The record stays in order when neither it nor the hands change.
LEMMA TrackFrame ==
    ASSUME HandsSame, Clearing' <=> Clearing, TrackInv
    PROVE  TrackInv'
<1> SUFFICES ASSUME ~hist.raced, ~Clearing
             PROVE  (BoundsHold /\ SeenHolds /\ CountHolds /\ SettledHolds)'
  BY DEF TrackInv, HandsSame
<1>1. BoundsHold /\ SeenHolds /\ CountHolds /\ SettledHolds
  BY DEF TrackInv
<1>2. /\ InHand' = InHand /\ Settled' = Settled
      /\ \A n : Holding(n, Hands)' <=> Holding(n, Hands)
      /\ \A n : Holding(n, Hands \ {"min"})' <=> Holding(n, Hands \ {"min"})
      /\ \A q \in Queue, pc \in Hands : worker'[q].pc = pc <=> worker[q].pc = pc
  BY HandsFrame
<1>3. Tracking \subseteq Hands /\ {"set", "max", "min"} \subseteq Hands /\ Hands' = Hands /\ Tracking' = Tracking
  BY DEF Hands, Tracking
<1>4. gvs' = gvs /\ hist'.since = hist.since /\ flow' = flow /\ mode' = mode
  BY DEF HandsSame
<1>5. BoundsHold'
  <2>1. \A q \in Queue : worker'[q].pc \in Tracking => worker'[q].seq \in hist'.since
    BY <1>1, <1>3, <1>4 DEF BoundsHold, HandsSame
  <2> QED
    BY <1>1, <1>2, <1>4, <2>1 DEF BoundsHold
<1>6. SeenHolds'
  BY <1>1, <1>2, <1>3, <1>4 DEF SeenHolds
<1>7. CountHolds' /\ SettledHolds'
  BY <1>1, <1>2, <1>4 DEF CountHolds, SettledHolds, Single, InOrder
<1> QED
  BY <1>5, <1>6, <1>7

\* So does a record that is being cleared.
LEMMA ClearFrame ==
    ASSUME HandsSame, Clearing' => main'.pc = main.pc, ClearInv
    PROVE  ClearInv'
<1> SUFFICES ASSUME ~hist.raced, Clearing' PROVE ClearInv'
  BY DEF ClearInv, HandsSame
<1>1. main'.pc = main.pc /\ Clearing
  BY DEF Clearing
<1>2. \A q \in Queue : worker'[q].pc \notin Tracking
  BY <1>1 DEF ClearInv, HandsSame, Hands
<1> QED
  BY <1>1, <1>2 DEF ClearInv, HandsSame

\* The places, when the rings and the hands stay as they are.
LEMMA PlacesFrame ==
    ASSUME HandsSame, UNCHANGED <<sent, placed, ring>>, PlacesInv, OrderInv, ElseInv
    PROVE  PlacesInv' /\ OrderInv' /\ ElseInv'
<1>1. InHand' = InHand /\ \A q \in InHand : worker'[q].seq = worker[q].seq
  BY HandsFrame DEF InHand, HandsSame, Hands
<1>2. \A q \in Queue : worker'[q].pc \in Hands <=> worker[q].pc \in Hands
  BY DEF HandsSame
<1>3. PlacesInv'
  BY <1>1 DEF PlacesInv, HandsSame, Single
<1>4. OrderInv'
  BY <1>1, <1>2 DEF OrderInv, HandsSame, InOrder, Hands, Tracking
<1>5. ElseInv'
  BY <1>2 DEF ElseInv, HandsSame, Hands, Tracking
<1> QED
  BY <1>3, <1>4, <1>5

\* Steps that do not touch what is tracked.
LEMMA QuietStep ==
    ASSUME HandsSame, UNCHANGED <<sent, placed, ring, main>>, LossParts
    PROVE  LossParts'
<1>1. Clearing' <=> Clearing
  BY DEF Clearing
<1>2. PlacesInv' /\ OrderInv' /\ ElseInv' /\ TrackInv' /\ ClearInv'
  BY <1>1, PlacesFrame, TrackFrame, ClearFrame DEF LossParts
<1>3. ReportInv'
  BY HandsFrame DEF LossParts, ReportInv, HandsSame, InOrder
<1> QED
  BY <1>2, <1>3 DEF LossParts

\* Locking, adding, checking and stopping are such steps.
LEMMA StatsLoss ==
    ASSUME NEW q \in Queue, PortTypes, LossParts,
           Flush(q) \/ NoFlush(q) \/ Lock(q) \/ AddUnlock(q) \/ Check(q) \/ Leave(q)
    PROVE  LossParts' /\ hist'.phantom = hist.phantom
<1> USE DEF PortTypes
<1>0. Keep /\ UNCHANGED <<ring, gvs, main>>
  BY DEF Flush, NoFlush, Lock, AddUnlock, Check, Leave
<1>1. hist'.since = hist.since /\ hist'.raced = hist.raced /\ hist'.phantom = hist.phantom
  <2>1. CASE Check(q)
    BY <2>1 DEF Check, HistTypes
  <2> QED
    BY <2>1 DEF Flush, NoFlush, Lock, AddUnlock, Leave
<1>2. \A r \in Queue : r # q => worker'[r] = worker[r]
  <2>1. CASE Flush(q) \/ NoFlush(q) \/ Leave(q)
    BY <2>1, GotoIs DEF Flush, NoFlush, Leave, WorkerPc
  <2> QED
    BY <2>1, LockIs, AddIs, CheckIs
<1>3. worker[q].pc \notin Hands /\ worker'[q].pc \notin Hands
  <2>1. CASE Flush(q) \/ NoFlush(q) \/ Leave(q)
    <3>1. worker[q].pc \in {"flush", "poll"}
      BY <2>1 DEF Flush, NoFlush, Leave, FlushDue, Now
    <3>2. worker'[q].pc \in {"lock", "poll", "done"}
      BY <2>1, GotoIs DEF Flush, NoFlush, Leave, WorkerPc
    <3> QED
      BY <3>1, <3>2 DEF Hands, Tracking
  <2>2. CASE Lock(q)
    <3>1. worker[q].pc \in {"lock", "lock2"} /\ worker'[q].pc \in {"add", "add2"}
      BY <2>2, LockIs DEF Lock
    <3> QED
      BY <3>1 DEF Hands, Tracking
  <2>3. CASE AddUnlock(q)
    <3>1. worker[q].pc \in {"add", "add2"} /\ worker'[q].pc \in {"check", "poll"}
      BY <2>3, AddIs DEF AddUnlock
    <3> QED
      BY <3>1 DEF Hands, Tracking
  <2>4. CASE Check(q)
    <3>1. worker[q].pc = "check" /\ worker'[q].pc \in {"lock2", "poll"}
      BY <2>4, CheckIs DEF Check, Now
    <3> QED
      BY <3>1 DEF Hands, Tracking
  <2> QED
    BY <2>1, <2>2, <2>3, <2>4
<1>4. HandsSame
  BY <1>0, <1>1, <1>2, <1>3 DEF HandsSame, Keep
<1> QED
  BY <1>0, <1>1, <1>4, QuietStep DEF Keep

\* The senders add new numbers to the rings, and hands and record stay as they are.
LEMMA SenderLoss == PortTypes /\ LossParts /\ Sender => LossParts' /\ hist'.phantom = hist.phantom
<1> SUFFICES ASSUME PortTypes, LossParts, Sender PROVE LossParts' /\ hist'.phantom = hist.phantom
  OBVIOUS
<1>1. UNCHANGED <<flow, mode, home, gvs, worker, main>>
  BY DEF Sender, ExtSend, RawPlace, RawKick
<1>2. hist'.since = hist.since /\ hist'.raced = hist.raced /\ hist'.phantom = hist.phantom
  BY DEF Sender, ExtSend, RawPlace, RawKick, Emit, PortTypes, HistTypes
<1>3. HandsSame
  BY <1>1, <1>2 DEF HandsSame
<1>4. Clearing' <=> Clearing
  BY <1>1 DEF Clearing
<1>5. TrackInv' /\ ClearInv' /\ InHand' = InHand
  BY <1>1, <1>3, <1>4, TrackFrame, ClearFrame, HandsFrame DEF LossParts
<1>6. ReportInv'
  BY <1>1, <1>2, <1>3, HandsFrame DEF LossParts, ReportInv, InOrder
<1>7. ElseInv'
  BY <1>1, <1>2 DEF LossParts, ElseInv, Hands, Tracking
<1>8. PlacesInv' /\ OrderInv'
  <2>1. CASE ExtSend
    <3>1. PICK lost \in SUBSET {sent}, to \in [{sent} -> Deliveries] :
            ring' = [q \in Queue |-> ring[q] \cup {n \in {sent} \ lost : q \in to[n]}]
      BY <2>1 DEF ExtSend, Emit
    <3>2. flow = "ext" /\ sent' = sent + 1 /\ placed' = placed /\ sent \in Nat
      BY <2>1 DEF ExtSend, PortTypes, ConfTypes
    <3>3. /\ \A q \in Queue : \A n \in ring'[q] : n \in ring[q] \/ (n = sent /\ q \in to[sent])
          /\ to[sent] \in Deliveries
      BY <3>1
    <3>4. /\ \A q \in Queue : \A n \in ring[q] : n < sent /\ n \in Nat /\ n # sent
          /\ \A n \in hist.since : n < sent /\ n \in Nat /\ n # sent
      <4>1. /\ \A q \in Queue : \A n \in ring[q] : n < sent /\ n \in Nat
            /\ \A n \in hist.since : n < sent /\ n \in Nat
        BY <3>2, NumbersAre DEF LossParts, PlacesInv, PortTypes, ConfTypes, HistTypes
      <4> QED
        BY <3>2, <4>1
    <3>5. PlacesInv'
      <4>1. placed' = {} /\ \A q \in InHand' : worker'[q].seq \in hist'.since
        BY <1>1, <1>2, <1>5, <3>2 DEF LossParts, PlacesInv
      <4>2. /\ \A q \in Queue : \A n \in ring'[q] : n < sent'
            /\ \A n \in hist'.since : n < sent'
        BY <1>2, <3>2, <3>3, <3>4
      <4>3. ASSUME Single
            PROVE  /\ \A q \in Queue : \A n \in ring'[q] : n \notin hist'.since
                   /\ \A q, r \in Queue : \A n \in ring'[q] : n \in ring'[r] => q = r
                   /\ \A q, r \in InHand' : worker'[q].seq = worker'[r].seq => q = r
        <5>1. /\ \A q \in Queue : \A n \in ring[q] : n \notin hist.since
              /\ \A q, r \in Queue : \A n \in ring[q] : n \in ring[r] => q = r
              /\ \A q, r \in InHand : worker[q].seq = worker[r].seq => q = r
          BY <3>2, <4>3 DEF LossParts, PlacesInv
        <5>2. \A q, r : q \in to[sent] /\ r \in to[sent] => q = r
          BY <3>3, <4>3 DEF Deliveries, Single
        <5> QED
          BY <1>1, <1>2, <1>5, <3>3, <3>4, <5>1, <5>2
      <4> QED
        BY <1>1, <4>1, <4>2, <4>3 DEF PlacesInv, Single
    <3>6. OrderInv'
      <4> SUFFICES ASSUME InOrder PROVE OrderInv'
        BY <1>1 DEF OrderInv, InOrder
      <4>1. /\ home \in Queue
            /\ \A q \in Queue : q # home => ring[q] = {} /\ worker[q].pc \notin Hands
            /\ \A n \in ring[home], m \in hist.since : m < n
            /\ home \in InHand => \A m \in hist.since : m <= worker[home].seq
        BY DEF LossParts, OrderInv
      <4>2. to[sent] = {home}
        BY <3>3 DEF Deliveries, InOrder
      <4>3. \A q \in Queue : q # home => ring'[q] = {}
        BY <3>3, <4>1, <4>2
      <4>4. \A n \in ring'[home], m \in hist.since : m < n
        BY <3>3, <3>4, <4>1
      <4> QED
        BY <1>1, <1>2, <1>5, <4>1, <4>3, <4>4 DEF OrderInv, InOrder, Hands, Tracking
    <3> QED
      BY <3>5, <3>6
  <2>2. CASE RawPlace \/ RawKick
    <3>1. flow = "raw"
      BY <2>2 DEF RawPlace, RawKick, LossParts, PlacesInv, PortTypes, ConfTypes
    <3> QED
      BY <1>1, <3>1 DEF PlacesInv, OrderInv, InOrder
  <2> QED
    BY <2>1, <2>2 DEF Sender
<1> QED
  BY <1>2, <1>5, <1>6, <1>7, <1>8 DEF LossParts

\* A packet that is counted elsewhere.
LEMMA TakeElseLoss ==
    ASSUME NEW q \in Queue, PortTypes, LossParts, TakeRaw(q) \/ TakeLegacy(q)
    PROVE  LossParts' /\ hist'.phantom = hist.phantom
<1> USE DEF PortTypes
<1>1. /\ NextFrame(q) /\ Keep /\ UNCHANGED <<gvs, main>> /\ (flow = "raw" \/ mode = "legacy")
      /\ ring' = [ring EXCEPT ![q] = @ \ {Min(ring[q])}] /\ ring[q] # {}
  BY DEF TakeRaw, TakeLegacy, NextFrame
<1>2. hist'.since = hist.since /\ hist'.raced = hist.raced /\ hist'.phantom = hist.phantom
  BY DEF TakeRaw, TakeLegacy, HistTypes
<1>3. /\ worker[q].pc = "poll" /\ worker'[q].pc \in {"lock", "flush"}
      /\ \A r \in Queue : r # q => worker'[r] = worker[r]
  <2>1. Min(ring[q]) \in Nat
    BY <1>1, NextNumber
  <2>2. CASE TakeRaw(q)
    <3>1. Counted(q, Min(ring[q]), 0, "lock")
      BY <2>2 DEF TakeRaw
    <3> QED
      BY <1>1, <2>1, <3>1, CountedIs DEF NextFrame, Now, WorkerPc
  <2>3. CASE TakeLegacy(q)
    <3>1. Counted(q, Min(ring[q]), GapAt(Min(ring[q])), "flush")
      BY <2>3 DEF TakeLegacy
    <3>2. GapAt(Min(ring[q])) \in Nat
      BY <2>1, GapIs
    <3> QED
      BY <1>1, <2>1, <3>1, <3>2, CountedIs DEF NextFrame, Now, WorkerPc
  <2> QED
    BY <2>2, <2>3
<1>4. HandsSame
  BY <1>1, <1>2, <1>3 DEF HandsSame, Keep, Hands, Tracking
<1>5. Clearing' <=> Clearing
  BY <1>1 DEF Clearing
<1>6. TrackInv' /\ ClearInv'
  BY <1>1, <1>4, <1>5, TrackFrame, ClearFrame DEF LossParts
<1>7. ReportInv'
  BY <1>1, <1>2, <1>4, HandsFrame DEF LossParts, ReportInv, InOrder, Keep
<1>8. ElseInv' /\ OrderInv'
  BY <1>1, <1>2, <1>4 DEF LossParts, ElseInv, OrderInv, InOrder, HandsSame, Hands, Tracking, Keep
<1>9. PlacesInv'
  <2> SUFFICES ASSUME flow = "ext" PROVE PlacesInv'
    BY <1>1 DEF PlacesInv, Keep
  <2>1. mode = "legacy" /\ ~Single /\ hist.since = {} /\ InHand' = InHand /\ InHand = {}
    BY <1>1, <1>4, HandsFrame DEF LossParts, ElseInv, Single, InHand, Hands
  <2>2. \A r \in Queue : ring'[r] \subseteq ring[r]
    BY <1>1 DEF ConfTypes
  <2> QED
    BY <1>1, <1>2, <2>1, <2>2 DEF LossParts, PlacesInv, Keep, Single
<1> QED
  BY <1>2, <1>6, <1>7, <1>8, <1>9 DEF LossParts

\* A packet that is taken into the hand.
LEMMA TakeExtLoss ==
    ASSUME NEW q \in Queue, PortTypes, LossParts, TakeExt(q)
    PROVE  LossParts' /\ hist'.phantom = hist.phantom
<1> USE DEF PortTypes
<1> DEFINE n == Min(ring[q])
<1>1. /\ Keep /\ UNCHANGED <<gvs, main>> /\ flow = "ext" /\ mode # "legacy" /\ worker[q].pc = "poll"
      /\ ring' = [ring EXCEPT ![q] = @ \ {n}]
      /\ n \in ring[q] /\ n \in Nat /\ \A m \in ring[q] : n <= m
      /\ hist' = [hist EXCEPT !.takes = @ + 1, !.since = @ \cup {n}] /\ Counted(q, n, 0, "count")
  BY NextNumber DEF TakeExt, NextFrame, Now
<1> HIDE DEF n
<1>2. /\ hist'.since = hist.since \cup {n} /\ hist'.raced = hist.raced /\ hist'.phantom = hist.phantom
  BY <1>1 DEF HistTypes
<1>3. /\ worker'[q].pc = "count" /\ worker'[q].seq = n
      /\ \A r \in Queue : r # q => worker'[r] = worker[r]
  BY <1>1, CountedIs DEF WorkerPc
<1>4. /\ InHand' = InHand \cup {q} /\ q \notin InHand
  BY <1>1, <1>3 DEF InHand
<1>5. UNCHANGED <<flow, mode, home, sent, placed>> /\ (Clearing' <=> Clearing)
  BY <1>1 DEF Keep, Clearing
<1>6. \A r \in Queue : ring'[r] \subseteq ring[r] /\ (r # q => ring'[r] = ring[r]) /\ n \notin ring'[q]
  BY <1>1 DEF ConfTypes
<1>7. PlacesInv /\ OrderInv /\ ElseInv /\ TrackInv /\ ClearInv /\ ReportInv
  BY DEF LossParts
<1>8. PlacesInv'
  <2>1. /\ placed' = {}
        /\ \A r \in Queue : \A m \in ring'[r] : m < sent'
        /\ \A m \in hist'.since : m < sent'
        /\ \A r \in InHand' : worker'[r].seq \in hist'.since
    <3>1. /\ placed = {}
          /\ \A r \in Queue : \A m \in ring[r] : m < sent
          /\ \A m \in hist.since : m < sent
          /\ \A r \in InHand : worker[r].seq \in hist.since
      BY <1>1, <1>7 DEF PlacesInv
    <3>2. \A r \in InHand' : worker'[r].seq \in hist'.since
      BY <1>2, <1>3, <1>4, <3>1, HandsAre
    <3> QED
      BY <1>1, <1>2, <1>5, <1>6, <3>1, <3>2
  <2>2. ASSUME Single
        PROVE  /\ \A r \in Queue : \A m \in ring'[r] : m \notin hist'.since
               /\ \A r, t \in Queue : \A m \in ring'[r] : m \in ring'[t] => r = t
               /\ \A r, t \in InHand' : worker'[r].seq = worker'[t].seq => r = t
    <3>1. /\ \A r \in Queue : \A m \in ring[r] : m \notin hist.since
          /\ \A r, t \in Queue : \A m \in ring[r] : m \in ring[t] => r = t
          /\ \A r, t \in InHand : worker[r].seq = worker[t].seq => r = t
          /\ \A r \in InHand : worker[r].seq \in hist.since
      BY <1>1, <1>7, <2>2 DEF PlacesInv
    <3>2. n \notin hist.since
      BY <1>1, <3>1
    <3>3. \A r \in InHand : r # q /\ worker'[r].seq = worker[r].seq
      BY <1>3, <1>4, HandsAre
    <3>4. \A r, t \in InHand' : worker'[r].seq = worker'[t].seq => r = t
      BY <1>3, <1>4, <3>1, <3>2, <3>3
    <3>5. \A r \in Queue : \A m \in ring'[r] : m \notin hist'.since
      BY <1>1, <1>2, <1>6, <3>1
    <3>6. \A r, t \in Queue : \A m \in ring'[r] : m \in ring'[t] => r = t
      BY <1>6, <3>1
    <3> QED
      BY <3>4, <3>5, <3>6
  <2> QED
    BY <1>5, <2>1, <2>2 DEF PlacesInv, Single
<1>9. OrderInv'
  <2> SUFFICES ASSUME InOrder PROVE OrderInv'
    BY <1>5 DEF OrderInv, InOrder
  <2>1. /\ home \in Queue
        /\ \A r \in Queue : r # home => ring[r] = {} /\ worker[r].pc \notin Hands
        /\ \A k \in ring[home], m \in hist.since : m < k
    BY <1>7 DEF OrderInv
  <2>2. q = home
    BY <1>1, <2>1
  <2>3. \A k \in ring'[home], m \in hist'.since : m < k
    <3>1. \A k \in ring'[home] : k \in ring[home] /\ k # n /\ k \in Nat /\ n <= k
      BY <1>1, <1>6, <2>1, <2>2, NumbersAre DEF ConfTypes
    <3> QED
      BY <1>1, <1>2, <2>1, <3>1
  <2>4. \A m \in hist'.since : m <= worker'[home].seq
    <3>1. \A m \in hist.since : m \in Nat /\ m < n
      BY <1>1, <2>1, <2>2 DEF HistTypes
    <3> QED
      BY <1>1, <1>2, <1>3, <2>2, <3>1
  <2>5. \A r \in Queue : r # home => ring'[r] = {} /\ worker'[r].pc \notin Hands
    BY <1>3, <1>6, <2>1, <2>2
  <2> QED
    BY <1>5, <2>1, <2>3, <2>4, <2>5 DEF OrderInv, InOrder, Hands, Tracking
<1>10. ElseInv'
  BY <1>1, <1>5 DEF ElseInv
<1>11. Settled \subseteq Settled' \/ ~InOrder
  <2> SUFFICES ASSUME InOrder, NEW m \in Settled PROVE m \in Settled'
    OBVIOUS
  <2>1. n \notin hist.since
    BY <1>1, <1>7 DEF PlacesInv, Single, InOrder
  <2>2. m \in hist.since /\ m # n /\ ~Holding(m, {"count"})
    BY <2>1 DEF Settled
  <2>3. ~Holding(m, {"count"})'
    BY <1>3, <2>2 DEF Holding
  <2> QED
    BY <1>2, <2>2, <2>3 DEF Settled
<1>12. TrackInv'
  <2> SUFFICES ASSUME ~hist.raced, ~Clearing
               PROVE  (BoundsHold /\ SeenHolds /\ CountHolds /\ SettledHolds)'
    BY <1>2, <1>5 DEF TrackInv
  <2>1. BoundsHold /\ SeenHolds /\ CountHolds /\ SettledHolds
    BY <1>7 DEF TrackInv
  <2>2. \A m : Holding(m, Hands) => Holding(m, Hands)'
    BY <1>1, <1>3 DEF Holding, Hands, Tracking
  <2>3. \A m : Holding(m, Hands \ {"min"}) => Holding(m, Hands \ {"min"})'
    BY <1>1, <1>3 DEF Holding, Hands, Tracking
  <2>4. \A m : m = n => Holding(m, Hands)' /\ Holding(m, Hands \ {"min"})'
    <3>1. "count" \in Hands /\ "count" \in Hands \ {"min"} /\ Hands' = Hands
      BY DEF Hands, Tracking
    <3> QED
      BY <1>3, <3>1 DEF Holding
  <2>5. BoundsHold'
    <3>1. \A r \in Queue : worker'[r].pc \in Tracking => worker'[r].seq \in hist'.since
      BY <1>2, <1>3, <2>1 DEF BoundsHold, Tracking
    <3>2. \A m \in hist'.since : gvs'.min <= m \/ Holding(m, Hands)'
      BY <1>1, <1>2, <2>1, <2>2, <2>4 DEF BoundsHold
    <3>3. \A m \in hist'.since : gvs'.max >= m \/ Holding(m, Hands \ {"min"})'
      BY <1>1, <1>2, <2>1, <2>3, <2>4 DEF BoundsHold
    <3>4. gvs'.min \in hist'.since \cup {UINT64_MAX} /\ gvs'.max \in hist'.since \cup {0}
      BY <1>1, <1>2, <2>1 DEF BoundsHold
    <3> QED
      BY <3>1, <3>2, <3>3, <3>4 DEF BoundsHold
  <2>6. SeenHolds'
    BY <1>1, <1>3, <2>1 DEF SeenHolds
  <2>7. CountHolds'
    <3>1. /\ Cardinality(InHand') = Cardinality(InHand) + 1 /\ Cardinality(InHand) \in Nat
      BY <1>4, HandsAre, FS_AddElement
    <3>2. /\ IsFiniteSet(hist.since) /\ Cardinality(hist.since) \in Nat
          /\ Cardinality(hist.since \cup {n})
               = IF n \in hist.since THEN Cardinality(hist.since) ELSE Cardinality(hist.since) + 1
      BY <1>7, SinceIs, FS_AddElement
    <3>3. Single => n \notin hist.since
      BY <1>1, <1>7 DEF PlacesInv
    <3>4. gvs'.count = gvs.count /\ gvs.count \in Nat
      BY <1>1 DEF GvsTypes, Gvs
    <3> QED
      BY <1>2, <1>5, <2>1, <3>1, <3>2, <3>3, <3>4 DEF CountHolds, Single
  <2>8. SettledHolds'
    BY <1>1, <1>5, <1>11, <2>1 DEF SettledHolds, InOrder
  <2> QED
    BY <2>5, <2>6, <2>7, <2>8
<1>13. ClearInv'
  <2>1. Tracking' = Tracking /\ "count" \notin Tracking
    BY DEF Tracking
  <2> QED
    BY <1>1, <1>2, <1>3, <1>5, <1>7, <2>1 DEF ClearInv
<1>14. ReportInv'
  BY <1>1, <1>2, <1>5, <1>7, <1>11 DEF ReportInv, InOrder
<1> QED
  BY <1>2, <1>8, <1>9, <1>10, <1>12, <1>13, <1>14 DEF LossParts

\* A packet is counted: it leaves the hand, and the bounds are not raised yet.
LEMMA CountLoss ==
    ASSUME NEW q \in Queue, PortTypes, LossParts, Count(q)
    PROVE  LossParts' /\ hist'.phantom = hist.phantom
<1> USE DEF PortTypes
<1>1. /\ worker[q].pc = "count" /\ Race /\ Keep /\ UNCHANGED <<ring, main>>
      /\ gvs' = [gvs EXCEPT !.count = @ + 1] /\ Goto(q, "first")
  BY DEF Count, Now
<1>2. /\ hist'.since = hist.since /\ hist'.phantom = hist.phantom /\ hist'.raced = (hist.raced \/ Clearing)
  BY <1>1, RaceIs
<1>3. /\ worker'[q].pc = "first" /\ worker'[q].seq = worker[q].seq
      /\ \A r \in Queue : r # q => worker'[r] = worker[r]
  BY <1>1, GotoIs DEF WorkerPc
<1>4. InHand' = InHand \ {q} /\ q \in InHand
  BY <1>1, <1>3 DEF InHand
<1>5. UNCHANGED <<flow, mode, home, sent, placed, ring, main>> /\ (Clearing' <=> Clearing)
  BY <1>1 DEF Keep, Clearing
<1>6. /\ gvs'.count = gvs.count + 1 /\ gvs'.min = gvs.min /\ gvs'.max = gvs.max /\ gvs'.init = gvs.init
      /\ gvs.count \in Nat
  BY <1>1 DEF GvsTypes, Gvs
<1>7. PlacesInv /\ OrderInv /\ ElseInv /\ TrackInv /\ ClearInv /\ ReportInv
  BY DEF LossParts
<1>8. flow = "ext" /\ mode # "legacy" /\ worker[q].seq \in hist.since
  BY <1>1, <1>4, <1>7 DEF ElseInv, Hands, PlacesInv, ConfTypes
<1>9. \A r \in InHand' : r \in InHand /\ worker'[r].seq = worker[r].seq
  BY <1>3, <1>4, HandsAre
<1>10. PlacesInv'
  BY <1>2, <1>5, <1>7, <1>9 DEF PlacesInv, Single
<1>11. OrderInv'
  <2> SUFFICES ASSUME InOrder PROVE OrderInv'
    BY <1>5 DEF OrderInv, InOrder
  <2>1. q = home
    BY <1>1, <1>7 DEF OrderInv, Hands
  <2>2. home \notin InHand'
    BY <1>4, <2>1
  <2> QED
    BY <1>2, <1>3, <1>5, <1>7, <2>1, <2>2 DEF OrderInv, InOrder, Hands, Tracking
<1>12. ElseInv'
  BY <1>5, <1>8 DEF ElseInv
<1>13. Settled \subseteq Settled'
  <2>1. \A m : Holding(m, {"count"})' => Holding(m, {"count"})
    BY <1>1, <1>3 DEF Holding
  <2> QED
    BY <1>2, <2>1 DEF Settled
<1>14. TrackInv'
  <2> SUFFICES ASSUME ~hist.raced, ~Clearing
               PROVE  (BoundsHold /\ SeenHolds /\ CountHolds /\ SettledHolds)'
    BY <1>2, <1>5 DEF TrackInv
  <2>1. BoundsHold /\ SeenHolds /\ CountHolds /\ SettledHolds
    BY <1>7 DEF TrackInv
  <2>2. \A m : Holding(m, Hands) => Holding(m, Hands)'
    BY <1>1, <1>3 DEF Holding, Hands, Tracking
  <2>3. \A m : Holding(m, Hands \ {"min"}) => Holding(m, Hands \ {"min"})'
    BY <1>1, <1>3 DEF Holding, Hands, Tracking
  <2>4. BoundsHold'
    <3>1. \A r \in Queue : worker'[r].pc \in Tracking => worker'[r].seq \in hist'.since
      BY <1>2, <1>3, <1>8, <2>1 DEF BoundsHold, Tracking
    <3> QED
      BY <1>2, <1>6, <2>1, <2>2, <2>3, <3>1 DEF BoundsHold
  <2>5. SeenHolds'
    BY <1>1, <1>3, <1>6, <2>1 DEF SeenHolds
  <2>6. CountHolds'
    <3>1. Cardinality(InHand') = Cardinality(InHand) - 1 /\ Cardinality(InHand) \in Nat
      BY <1>4, HandsAre, FS_RemoveElement
    <3>2. Cardinality(hist.since) \in Nat
      BY <1>7, SinceIs
    <3> QED
      BY <1>2, <1>5, <1>6, <2>1, <3>1, <3>2 DEF CountHolds, Single
  <2>7. SettledHolds'
    BY <1>5, <1>6, <1>13, <2>1 DEF SettledHolds, InOrder
  <2> QED
    BY <2>4, <2>5, <2>6, <2>7
<1>15. ClearInv'
  BY <1>2, <1>5 DEF ClearInv
<1>16. ReportInv'
  BY <1>2, <1>5, <1>7, <1>13 DEF ReportInv, InOrder
<1> QED
  BY <1>2, <1>10, <1>11, <1>12, <1>14, <1>15, <1>16 DEF LossParts

-----------------------------------------------------------------------------
\* A worker goes from one store of the tracking to the next, or is done with them.
Tracks(q, pc) ==
    /\ worker[q].pc \in Tracking /\ Race /\ Keep /\ UNCHANGED <<ring, main>> /\ Goto(q, pc)
    /\ gvs'.count = gvs.count

\* What those steps have in common.
LEMMA TracksLoss ==
    ASSUME NEW q \in Queue, PortTypes, LossParts, NEW pc \in {"cas", "set", "max", "min", "flush"},
           Tracks(q, pc)
    PROVE  /\ hist'.since = hist.since /\ hist'.phantom = hist.phantom
           /\ worker'[q].pc = pc /\ worker'[q].seq = worker[q].seq /\ worker[q].seq \in Nat
           /\ \A r \in Queue : r # q => worker'[r] = worker[r]
           /\ InHand' = InHand /\ Settled' = Settled
           /\ PlacesInv' /\ OrderInv' /\ ElseInv' /\ ClearInv' /\ ReportInv'
           /\ ~hist'.raced /\ ~Clearing' =>
                /\ BoundsHold /\ SeenHolds /\ CountHolds /\ SettledHolds /\ CountHolds'
                /\ worker[q].seq \in hist.since /\ (InOrder => worker[q].seq \in Settled)
           /\ BoundsHold' /\ SeenHolds' /\ CountHolds' /\ SettledHolds' => TrackInv'
<1> USE DEF PortTypes
<1>1. /\ worker[q].pc \in Tracking /\ Race /\ Keep /\ UNCHANGED <<ring, main>> /\ Goto(q, pc)
      /\ gvs'.count = gvs.count
  BY DEF Tracks
<1>2. /\ hist'.since = hist.since /\ hist'.phantom = hist.phantom /\ hist'.raced = (hist.raced \/ Clearing)
  BY <1>1, RaceIs
<1>3. /\ worker'[q].pc = pc /\ worker'[q].seq = worker[q].seq /\ worker[q].seq \in Nat
      /\ \A r \in Queue : r # q => worker'[r] = worker[r]
  <2>1. pc \in WorkerPc /\ pc \notin {"poll", "lock"}
    BY DEF WorkerPc
  <2> QED
    BY <1>1, <2>1, GotoIs DEF WorkerTypes, WorkerType
<1>4. InHand' = InHand /\ q \notin InHand
  BY <1>1, <1>3 DEF InHand, Tracking
<1>5. UNCHANGED <<flow, mode, home, sent, placed, ring, main>> /\ (Clearing' <=> Clearing)
  BY <1>1 DEF Keep, Clearing
<1>6. PlacesInv /\ OrderInv /\ ElseInv /\ TrackInv /\ ClearInv /\ ReportInv
  BY DEF LossParts
<1>7. \A r \in InHand' : r \in InHand /\ worker'[r].seq = worker[r].seq
  BY <1>3, <1>4, HandsAre
<1>8. PlacesInv'
  BY <1>2, <1>5, <1>6, <1>7 DEF PlacesInv, Single
<1>9. OrderInv'
  <2> SUFFICES ASSUME InOrder PROVE OrderInv'
    BY <1>5 DEF OrderInv, InOrder
  <2>1. q = home
    BY <1>1, <1>6 DEF OrderInv, Hands
  <2>2. home \notin InHand'
    BY <1>4, <2>1
  <2> QED
    BY <1>2, <1>3, <1>5, <1>6, <2>1, <2>2 DEF OrderInv, InOrder, Hands, Tracking
<1>10. flow = "ext" /\ mode # "legacy" /\ ElseInv'
  BY <1>1, <1>5, <1>6 DEF ElseInv, Hands, ConfTypes
<1>11. Settled' = Settled
  <2>1. \A m : Holding(m, {"count"})' <=> Holding(m, {"count"})
    BY <1>1, <1>3 DEF Holding, Tracking
  <2> QED
    BY <1>2, <2>1 DEF Settled
<1>12. ClearInv'
  BY <1>2, <1>5 DEF ClearInv
<1>13. ReportInv'
  BY <1>2, <1>5, <1>6, <1>11 DEF ReportInv, InOrder
<1>14. ASSUME ~hist'.raced, ~Clearing'
       PROVE  /\ BoundsHold /\ SeenHolds /\ CountHolds /\ SettledHolds /\ CountHolds'
              /\ worker[q].seq \in hist.since /\ (InOrder => worker[q].seq \in Settled)
  <2>1. BoundsHold /\ SeenHolds /\ CountHolds /\ SettledHolds
    BY <1>2, <1>5, <1>6, <1>14 DEF TrackInv
  <2>2. CountHolds'
    BY <1>1, <1>2, <1>4, <1>5, <2>1 DEF CountHolds, Single
  <2>3. worker[q].seq \in hist.since
    BY <1>1, <2>1 DEF BoundsHold
  <2>4. ASSUME InOrder PROVE worker[q].seq \in Settled
    <3>1. \A r \in Queue : r # q => worker[r].pc # "count"
      BY <1>1, <1>6, <2>4 DEF OrderInv, Hands
    <3>2. ~Holding(worker[q].seq, {"count"})
      BY <1>1, <3>1 DEF Holding, Tracking
    <3> QED
      BY <2>3, <3>2 DEF Settled
  <2> QED
    BY <2>1, <2>2, <2>3, <2>4
<1>15. BoundsHold' /\ SeenHolds' /\ CountHolds' /\ SettledHolds' => TrackInv'
  BY DEF TrackInv
<1> QED
  BY <1>2, <1>3, <1>4, <1>8, <1>9, <1>10, <1>11, <1>12, <1>13, <1>14, <1>15

\* The bounds after such a step, from what it does to the hand and to the record.
LEMMA BoundsStep ==
    ASSUME NEW q \in Queue, BoundsHold, NEW S, hist.since = S, hist'.since = S, S \in SUBSET Nat,
           gvs \in Gvs, gvs' \in Gvs,
           worker[q].pc \in Tracking, worker'[q].seq = worker[q].seq,
           \A r \in Queue : r # q => worker'[r] = worker[r],
           \A n \in S : gvs.min <= n => gvs'.min <= n,
           \A n \in S : gvs.max >= n => gvs'.max >= n,
           worker'[q].pc \in Hands \/ gvs'.min <= worker[q].seq,
           worker'[q].pc \in Hands \ {"min"} \/ gvs'.max >= worker[q].seq,
           gvs'.min \in S \cup {UINT64_MAX}, gvs'.max \in S \cup {0}
    PROVE  BoundsHold'
<1>1. ASSUME NEW n \in S PROVE gvs'.min <= n \/ Holding(n, Hands)'
  <2>1. CASE gvs.min <= n
    BY <1>1, <2>1
  <2>2. CASE Holding(n, Hands)
    <3>1. PICK r \in Queue : worker[r].pc \in Hands /\ worker[r].seq = n
      BY <2>2 DEF Holding
    <3> QED
      BY <3>1 DEF Holding, Hands, Tracking
  <2> QED
    BY <2>1, <2>2 DEF BoundsHold
<1>2. ASSUME NEW n \in S PROVE gvs'.max >= n \/ Holding(n, Hands \ {"min"})'
  <2>1. CASE gvs.max >= n
    BY <1>2, <2>1
  <2>2. CASE Holding(n, Hands \ {"min"})
    <3>1. PICK r \in Queue : worker[r].pc \in Hands \ {"min"} /\ worker[r].seq = n
      BY <2>2 DEF Holding
    <3> QED
      BY <3>1 DEF Holding, Hands, Tracking
  <2> QED
    BY <2>1, <2>2 DEF BoundsHold
<1>3. \A r \in Queue : worker'[r].pc \in Tracking => worker'[r].seq \in S
  BY DEF BoundsHold, Tracking
<1> QED
  BY <1>1, <1>2, <1>3 DEF BoundsHold

\* The steps of tracking keep the loss real.
LEMMA TrackLoss ==
    ASSUME NEW q \in Queue, PortTypes, LossParts,
           LoadInitialized(q) \/ CasMin(q) \/ SetInitialized(q) \/ RaiseMax(q) \/ LowerMin(q)
    PROVE  LossParts' /\ hist'.phantom = hist.phantom
<1> DEFINE s == worker[q].seq
<1>0. gvs \in Gvs /\ gvs' \in Gvs
  BY TrackTypes DEF PortTypes, GvsTypes
<1>1. PICK pc \in {"cas", "set", "max", "min", "flush"} :
        /\ Tracks(q, pc)
        /\ \/ pc = (IF gvs.init THEN "max" ELSE "cas") /\ gvs' = gvs /\ worker[q].pc = "first"
           \/ pc = "set" /\ gvs.min = UINT64_MAX /\ gvs' = [gvs EXCEPT !.min = s] /\ worker[q].pc = "cas"
           \/ pc = "max" /\ gvs.min # UINT64_MAX /\ gvs' = gvs /\ worker[q].pc = "cas"
           \/ pc = "max" /\ gvs' = [gvs EXCEPT !.init = TRUE] /\ worker[q].pc = "set"
           \/ pc = "min" /\ gvs' = [gvs EXCEPT !.max = IF s > @ THEN s ELSE @] /\ worker[q].pc = "max"
           \/ pc = "flush" /\ gvs' = [gvs EXCEPT !.min = IF s < @ THEN s ELSE @] /\ worker[q].pc = "min"
  <2>1. CASE LoadInitialized(q)
    BY <1>0, <2>1 DEF LoadInitialized, Now, Tracks, Tracking, Gvs
  <2>2. CASE CasMin(q)
    BY <1>0, <2>2 DEF CasMin, Now, Tracks, Tracking, Gvs
  <2>3. CASE SetInitialized(q)
    BY <1>0, <2>3 DEF SetInitialized, Now, Tracks, Tracking, Gvs
  <2>4. CASE RaiseMax(q)
    BY <1>0, <2>4 DEF RaiseMax, Now, Tracks, Tracking, Gvs
  <2>5. CASE LowerMin(q)
    BY <1>0, <2>5 DEF LowerMin, Now, Tracks, Tracking, Gvs
  <2> QED
    BY <2>1, <2>2, <2>3, <2>4, <2>5
<1>2. /\ hist'.since = hist.since /\ hist'.phantom = hist.phantom
      /\ worker'[q].pc = pc /\ worker'[q].seq = s /\ s \in Nat
      /\ \A r \in Queue : r # q => worker'[r] = worker[r]
      /\ InHand' = InHand /\ Settled' = Settled
      /\ PlacesInv' /\ OrderInv' /\ ElseInv' /\ ClearInv' /\ ReportInv'
      /\ ~hist'.raced /\ ~Clearing' =>
           /\ BoundsHold /\ SeenHolds /\ CountHolds /\ SettledHolds /\ CountHolds'
           /\ s \in hist.since /\ (InOrder => s \in Settled)
      /\ BoundsHold' /\ SeenHolds' /\ CountHolds' /\ SettledHolds' => TrackInv'
  BY <1>1, TracksLoss
<1>3. TrackInv'
  <2> SUFFICES ASSUME ~hist'.raced, ~Clearing' PROVE TrackInv'
    BY DEF TrackInv
  <2> DEFINE S == hist.since
  <2>1. BoundsHold /\ SeenHolds /\ CountHolds /\ SettledHolds /\ CountHolds' /\ s \in S
        /\ (InOrder => s \in Settled)
    BY <1>2
  <2>2. S \in SUBSET Nat /\ \A n \in S : n < UINT64_MAX
    BY SinceIs DEF LossParts
  <2>3. UINT64_MAX \in Nat
    BY FreshIs
  <2>4. flow' = flow /\ mode' = mode /\ InOrder' = InOrder
    BY <1>1 DEF Tracks, Keep, InOrder
  <2>5. /\ gvs.min \in S \cup {UINT64_MAX} /\ gvs.max \in S \cup {0}
        /\ gvs.min \in Nat /\ gvs.max \in Nat /\ gvs'.min \in Nat /\ gvs'.max \in Nat
    BY <1>0, <2>1 DEF BoundsHold, Gvs
  <2> HIDE DEF s, S
  <2>6. CASE pc = (IF gvs.init THEN "max" ELSE "cas") /\ gvs' = gvs /\ worker[q].pc = "first"
    <3>1. worker'[q].pc \in Hands \ {"min"} /\ worker[q].pc \in Tracking
      BY <1>2, <2>6 DEF Hands, Tracking
    <3>2. BoundsHold'
      BY <1>0, <1>2, <2>1, <2>2, <2>5, <2>6, <3>1, BoundsStep DEF S, s
    <3>3. SeenHolds'
      BY <1>2, <2>1, <2>6 DEF SeenHolds
    <3>4. SettledHolds'
      BY <1>2, <2>1, <2>4, <2>6 DEF SettledHolds
    <3> QED
      BY <1>2, <2>1, <3>2, <3>3, <3>4
  <2>7. CASE pc = "set" /\ gvs.min = UINT64_MAX /\ gvs' = [gvs EXCEPT !.min = s] /\ worker[q].pc = "cas"
    <3>1. worker'[q].pc \in Hands \ {"min"} /\ worker[q].pc \in Tracking
      BY <1>2, <2>7 DEF Hands, Tracking
    <3>2. gvs'.min = s /\ gvs'.max = gvs.max /\ gvs'.init = gvs.init
      BY <1>0, <2>7 DEF Gvs
    <3>3. \A n \in S : gvs.min <= n => gvs'.min <= n
      BY <2>2, <2>3, <2>7
    <3>4. BoundsHold'
      BY <1>0, <1>2, <2>1, <2>2, <2>5, <3>1, <3>2, <3>3, BoundsStep DEF S, s
    <3>5. SeenHolds'
      <4>1. gvs'.min # UINT64_MAX
        BY <2>1, <2>2, <2>3, <3>2
      <4> QED
        BY <1>2, <2>7, <4>1 DEF SeenHolds
    <3>6. SettledHolds'
      BY <1>2, <2>1, <2>4, <3>2 DEF SettledHolds
    <3> QED
      BY <1>2, <2>1, <3>4, <3>5, <3>6
  <2>8. CASE pc = "max" /\ gvs.min # UINT64_MAX /\ gvs' = gvs /\ worker[q].pc = "cas"
    <3>1. worker'[q].pc \in Hands \ {"min"} /\ worker[q].pc \in Tracking
      BY <1>2, <2>8 DEF Hands, Tracking
    <3>2. BoundsHold'
      BY <1>0, <1>2, <2>1, <2>2, <2>5, <2>8, <3>1, BoundsStep DEF S, s
    <3>3. SeenHolds'
      BY <1>2, <2>1, <2>8 DEF SeenHolds
    <3>4. SettledHolds'
      BY <1>2, <2>1, <2>4, <2>8 DEF SettledHolds
    <3> QED
      BY <1>2, <2>1, <3>2, <3>3, <3>4
  <2>9. CASE pc = "max" /\ gvs' = [gvs EXCEPT !.init = TRUE] /\ worker[q].pc = "set"
    <3>1. worker'[q].pc \in Hands \ {"min"} /\ worker[q].pc \in Tracking
      BY <1>2, <2>9 DEF Hands, Tracking
    <3>2. gvs'.min = gvs.min /\ gvs'.max = gvs.max /\ gvs'.init = TRUE
      BY <1>0, <2>9 DEF Gvs
    <3>3. BoundsHold'
      BY <1>0, <1>2, <2>1, <2>2, <2>5, <3>1, <3>2, BoundsStep DEF S, s
    <3>4. SeenHolds'
      BY <1>2, <2>1, <2>9, <3>2 DEF SeenHolds
    <3>5. SettledHolds'
      BY <1>2, <2>1, <2>4, <3>2 DEF SettledHolds
    <3> QED
      BY <1>2, <2>1, <3>3, <3>4, <3>5
  <2>10. CASE pc = "min" /\ gvs' = [gvs EXCEPT !.max = IF s > @ THEN s ELSE @] /\ worker[q].pc = "max"
    <3>1. worker'[q].pc \in Hands /\ worker[q].pc \in Tracking
      BY <1>2, <2>10 DEF Hands, Tracking
    <3>2. gvs'.max = (IF s > gvs.max THEN s ELSE gvs.max) /\ gvs'.min = gvs.min /\ gvs'.init = gvs.init
      BY <1>0, <2>10 DEF Gvs
    <3>3. /\ gvs'.max >= s /\ gvs'.max >= gvs.max
          /\ gvs'.max = s \/ gvs'.max = gvs.max
      BY <1>2, <2>5, <3>2
    <3>4. \A n \in S : gvs.max >= n => gvs'.max >= n
      BY <2>2, <2>5, <3>3
    <3>5. BoundsHold'
      BY <1>0, <1>2, <2>1, <2>2, <2>5, <3>1, <3>2, <3>3, <3>4, BoundsStep DEF S, s
    <3>6. SeenHolds'
      BY <1>2, <2>1, <2>10, <3>2 DEF SeenHolds
    <3>7. SettledHolds'
      BY <1>2, <2>1, <2>4, <3>2, <3>3 DEF SettledHolds
    <3> QED
      BY <1>2, <2>1, <3>5, <3>6, <3>7
  <2>11. CASE pc = "flush" /\ gvs' = [gvs EXCEPT !.min = IF s < @ THEN s ELSE @] /\ worker[q].pc = "min"
    <3>1. worker'[q].pc \notin Hands /\ worker[q].pc \in Tracking /\ worker[q].pc = "min"
      BY <1>2, <2>11 DEF Hands, Tracking
    <3>2. gvs'.min = (IF s < gvs.min THEN s ELSE gvs.min) /\ gvs'.max = gvs.max /\ gvs'.init = gvs.init
      BY <1>0, <2>11 DEF Gvs
    <3>3. /\ gvs'.min <= s /\ gvs'.min <= gvs.min
          /\ gvs'.min = s \/ gvs'.min = gvs.min
      BY <1>2, <2>5, <3>2
    <3>4. \A n \in S : gvs.min <= n => gvs'.min <= n
      BY <2>2, <2>5, <3>3
    <3>5. BoundsHold'
      <4>1. ASSUME NEW n \in S PROVE gvs'.min <= n \/ Holding(n, Hands)'
        <5>1. CASE gvs.min <= n
          BY <3>4, <4>1, <5>1
        <5>2. CASE Holding(n, Hands)
          <6>1. PICK r \in Queue : worker[r].pc \in Hands /\ worker[r].seq = n
            BY <5>2 DEF Holding
          <6>2. CASE r = q
            BY <3>3, <6>1, <6>2 DEF s
          <6>3. CASE r # q
            BY <1>2, <6>1, <6>3 DEF Holding, Hands, Tracking
          <6> QED
            BY <6>2, <6>3
        <5> QED
          BY <2>1, <5>1, <5>2 DEF BoundsHold, S
      <4>2. ASSUME NEW n \in S PROVE gvs'.max >= n \/ Holding(n, Hands \ {"min"})'
        <5>1. CASE gvs.max >= n
          BY <3>2, <5>1
        <5>2. CASE Holding(n, Hands \ {"min"})
          <6>1. PICK r \in Queue : worker[r].pc \in Hands \ {"min"} /\ worker[r].seq = n
            BY <5>2 DEF Holding
          <6>2. r # q
            BY <3>1, <6>1
          <6> QED
            BY <1>2, <6>1, <6>2 DEF Holding, Hands, Tracking
        <5> QED
          BY <2>1, <5>1, <5>2 DEF BoundsHold, S
      <4>3. \A r \in Queue : worker'[r].pc \in Tracking => worker'[r].seq \in S
        BY <1>2, <2>1, <2>11, <3>1 DEF BoundsHold, Tracking, S, Hands
      <4> QED
        BY <1>2, <2>1, <2>5, <3>2, <3>3, <4>1, <4>2, <4>3 DEF BoundsHold, S
    <3>6. SeenHolds'
      <4>1. gvs.min # UINT64_MAX /\ gvs.min < UINT64_MAX
        BY <2>1, <2>2, <2>3, <2>5, <3>1 DEF SeenHolds
      <4>2. gvs'.min # UINT64_MAX
        BY <2>3, <2>5, <3>3, <4>1
      <4> QED
        BY <1>2, <2>1, <2>11, <3>1, <3>2, <4>1, <4>2 DEF SeenHolds
    <3>7. SettledHolds'
      BY <1>2, <2>1, <2>4, <3>2, <3>3 DEF SettledHolds
    <3> QED
      BY <1>2, <2>1, <3>5, <3>6, <3>7
  <2> QED
    BY <1>1, <2>6, <2>7, <2>8, <2>9, <2>10, <2>11
<1> QED
  BY <1>2, <1>3 DEF LossParts

\* The lock of the statistics, and the stop, have nothing to do with what is tracked.
LEMMA ResetLoss ==
    ASSUME PortTypes, LossParts, Stop \/ ResetLock \/ ResetWipe \/ ResetSpinInit \/ ResetUnlock
    PROVE  LossParts' /\ hist'.phantom = hist.phantom
<1> USE DEF PortTypes
<1>1. UNCHANGED <<flow, mode, home, sent, placed, ring, gvs, worker>>
  BY DEF Stop, ResetLock, ResetWipe, ResetSpinInit, ResetUnlock, KeepMain
<1>2. hist'.since = hist.since /\ hist'.raced = hist.raced /\ hist'.phantom = hist.phantom
  BY DEF Stop, ResetLock, ResetWipe, ResetSpinInit, ResetUnlock, HistTypes
<1>3. HandsSame
  BY <1>1, <1>2 DEF HandsSame
<1>4. CASE Stop
  <2>1. main' = main
    BY <1>4 DEF Stop
  <2> QED
    BY <1>1, <1>2, <1>3, <2>1, QuietStep
<1>5. CASE ~Stop
  <2>1. main.pc \notin {"max", "count", "init"} /\ main'.pc \in {"wipe", "spin_init", "unlock", "min"}
    BY <1>5 DEF ResetLock, ResetWipe, ResetSpinInit, ResetUnlock, MainAt, MainTo, MainTypes
  <2>2. ~Clearing /\ ~Clearing' /\ main'.pc # "report"
    BY <2>1 DEF Clearing
  <2>3. PlacesInv' /\ OrderInv' /\ ElseInv' /\ TrackInv' /\ ClearInv'
    BY <1>1, <1>3, <2>2, PlacesFrame, TrackFrame, ClearFrame DEF LossParts
  <2> QED
    BY <1>2, <2>2, <2>3 DEF LossParts, ReportInv
<1> QED
  BY <1>4, <1>5

\* The record is cleared under running workers: what is in hand is counted afterwards.
LEMMA ClearingLoss ==
    ASSUME PortTypes, LossParts, ResetTracking
    PROVE  LossParts' /\ hist'.phantom = hist.phantom
<1> USE DEF PortTypes
<1> DEFINE S == {worker[q].seq : q \in InHand}
<1>1. /\ main.pc \in {"min", "max", "count", "init"}
      /\ main'.pc = (CASE main.pc = "min" -> "max" [] main.pc = "max" -> "count"
                       [] main.pc = "count" -> "init" [] main.pc = "init" -> "loop")
      /\ gvs' = [gvs EXCEPT ![main.pc] = Fresh[main.pc]]
      /\ UNCHANGED <<flow, mode, home, sent, placed, ring, worker>>
  BY DEF ResetTracking, Cleared, KeepMain, MainTypes
<1>2. /\ hist'.since = S /\ hist'.phantom = hist.phantom
      /\ hist'.raced = (hist.raced \/ \E q \in Queue : worker[q].pc \in Tracking)
  <2> DEFINE b == \E q \in Queue : worker[q].pc \in Tracking
  <2>1. hist' = [hist EXCEPT !.raced = @ \/ b, !.since = S]
    BY DEF ResetTracking
  <2>2. b \in BOOLEAN
    OBVIOUS
  <2> HIDE DEF S, b
  <2>3. hist'.since = S /\ hist'.phantom = hist.phantom /\ hist'.raced = (hist.raced \/ b)
    BY <2>1, <2>2 DEF HistTypes
  <2> QED
    BY <2>3 DEF b
<1>3. InHand' = InHand
  BY <1>1 DEF InHand
<1>4. PlacesInv /\ OrderInv /\ ElseInv /\ TrackInv /\ ClearInv
  BY DEF LossParts
<1>5. \A n \in S : \E q \in InHand : n = worker[q].seq
  OBVIOUS
<1>6. \A q \in InHand : worker[q].seq \in S
  OBVIOUS
<1>7. flow = "ext" => S \subseteq hist.since
  BY <1>4 DEF PlacesInv
<1>8. flow = "raw" \/ mode = "legacy" => S = {}
  <2>1. flow = "raw" \/ mode = "legacy" => InHand = {}
    BY <1>4 DEF ElseInv, InHand, Hands
  <2> QED
    BY <2>1
<1>9. \A n \in S : Holding(n, {"count"})
  BY <1>5 DEF Holding, InHand
<1>10. Cardinality(S) <= Cardinality(InHand) /\ (Single => Cardinality(S) = Cardinality(InHand))
  <2> DEFINE f == [q \in InHand |-> worker[q].seq]
  <2>1. f \in Surjection(InHand, S)
    BY DEF Surjection
  <2>2. Single => f \in Injection(InHand, S)
    <3>1. Single => \A q, r \in InHand : worker[q].seq = worker[r].seq => q = r
      BY <1>4 DEF PlacesInv, Single
    <3>2. f \in [InHand -> S]
      OBVIOUS
    <3> QED
      BY <3>1, <3>2 DEF Injection, IsInjective
  <2> HIDE DEF f, S
  <2>3. IsFiniteSet(InHand)
    BY HandsAre
  <2>4. Cardinality(S) <= Cardinality(InHand) /\ (Cardinality(S) = Cardinality(InHand) <=> f \in Injection(InHand, S))
    BY <2>1, <2>3, FS_Surjection
  <2> QED
    BY <2>2, <2>4
<1> HIDE DEF S
<1>11. PlacesInv'
  BY <1>1, <1>2, <1>3, <1>4, <1>6, <1>7 DEF PlacesInv, Single
<1>12. OrderInv'
  BY <1>1, <1>2, <1>3, <1>4, <1>7 DEF OrderInv, InOrder, Hands, Tracking
<1>13. ElseInv'
  BY <1>1, <1>2, <1>4, <1>8 DEF ElseInv, Hands, Tracking
<1>14. ReportInv'
  BY <1>1 DEF ReportInv
<1>15. gvs \in Gvs
  BY DEF GvsTypes
<1>16. ClearInv'
  <2> SUFFICES ASSUME ~hist'.raced, Clearing' PROVE ClearInv'
    BY DEF ClearInv
  <2>1. \A q \in Queue : worker'[q].pc \notin Tracking
    BY <1>1, <1>2
  <2>2. CASE main.pc = "min"
    <3>1. gvs'.min = UINT64_MAX /\ main'.pc = "max"
      BY <1>1, <1>15, <2>2, FreshIs DEF Gvs
    <3> QED
      BY <2>1, <3>1 DEF ClearInv, Tracking
  <2>3. CASE main.pc \in {"max", "count"}
    <3>1. gvs.min = UINT64_MAX /\ (main.pc = "count" => gvs.max = 0)
      BY <1>2, <1>4, <2>3 DEF ClearInv, Clearing
    <3>2. CASE main.pc = "max"
      <4>1. gvs'.min = UINT64_MAX /\ main'.pc = "count" /\ gvs'.max = 0
        BY <1>1, <1>15, <3>1, <3>2, FreshIs DEF Gvs
      <4> QED
        BY <2>1, <4>1 DEF ClearInv, Tracking
    <3>3. CASE main.pc = "count"
      <4>1. gvs'.min = UINT64_MAX /\ main'.pc = "init" /\ gvs'.max = 0 /\ gvs'.count = 0
        BY <1>1, <1>15, <3>1, <3>3, FreshIs DEF Gvs
      <4> QED
        BY <2>1, <4>1 DEF ClearInv, Tracking
    <3> QED
      BY <2>3, <3>2, <3>3
  <2> QED
    BY <1>1, <2>2, <2>3 DEF Clearing
<1>17. TrackInv'
  <2> SUFFICES ASSUME ~hist'.raced, ~Clearing'
               PROVE  (BoundsHold /\ SeenHolds /\ CountHolds /\ SettledHolds)'
    BY DEF TrackInv
  <2>1. main.pc = "init"
    BY <1>1 DEF Clearing
  <2>2. gvs.min = UINT64_MAX /\ gvs.max = 0 /\ gvs.count = 0 /\ \A q \in Queue : worker[q].pc \notin Tracking
    BY <1>2, <1>4, <2>1 DEF ClearInv, Clearing
  <2>3. gvs'.min = UINT64_MAX /\ gvs'.max = 0 /\ gvs'.count = 0 /\ gvs'.init = FALSE
    BY <1>1, <1>15, <2>1, <2>2, FreshIs DEF Gvs
  <2>4. \A q \in Queue : worker'[q].pc \notin Tracking
    BY <1>1, <2>2
  <2>5. \A n \in S : Holding(n, Hands)' /\ Holding(n, Hands \ {"min"})'
    BY <1>1, <1>9 DEF Holding, Hands, Tracking
  <2>6. BoundsHold'
    BY <1>2, <2>3, <2>4, <2>5 DEF BoundsHold, Tracking
  <2>7. SeenHolds'
    BY <2>3, <2>4 DEF SeenHolds, Tracking
  <2>8. CountHolds'
    <3>1. Cardinality(InHand) \in Nat
      BY HandsAre
    <3> QED
      BY <1>1, <1>2, <1>3, <1>10, <2>3, <3>1 DEF CountHolds, Single
  <2>9. SettledHolds'
    BY <2>3 DEF SettledHolds
  <2> QED
    BY <2>6, <2>7, <2>8, <2>9
<1> QED
  BY <1>2, <1>11, <1>12, <1>13, <1>14, <1>16, <1>17 DEF LossParts

-----------------------------------------------------------------------------
\* The loss of a range, when R of its numbers were taken and all but h of them were counted.
LEMMA RangeLoss ==
    ASSUME NEW g \in Gvs, g.min <= g.max, NEW h \in Nat,
           Cardinality(hist.since \cap (g.min..g.max)) <= g.count + h
    PROVE  Loss(g) <= Cardinality(Uncounted(g.min, g.max)) + h
<1> DEFINE lo == g.min
           hi == g.max
           c == g.count
           A == lo..hi
           R == hist.since \cap A
           U == Uncounted(lo, hi)
           e == hi - lo + 1
<1>1. lo \in Nat /\ hi \in Nat /\ c \in Nat /\ lo <= hi
  BY DEF Gvs
<1> HIDE DEF lo, hi, c
<1>2. IsFiniteSet(A) /\ Cardinality(A) = e
  BY <1>1, FS_Interval
<1>3. U = A \ R /\ R \in SUBSET A
  BY DEF Uncounted
<1> HIDE DEF A, R, U
<1>4. /\ IsFiniteSet(R) /\ Cardinality(R) \in Nat /\ Cardinality(A) \in Nat
      /\ IsFiniteSet(U) /\ Cardinality(U) \in Nat
      /\ Cardinality(U) = Cardinality(A) - Cardinality(R)
  <2>1. A \cap R = R
    BY <1>3
  <2>2. IsFiniteSet(R)
    BY <1>2, <1>3, FS_Subset
  <2>3. IsFiniteSet(U) /\ Cardinality(U) = Cardinality(A) - Cardinality(A \cap R)
    BY <1>2, <1>3, <2>2, FS_Difference
  <2> QED
    BY <1>2, <2>1, <2>2, <2>3, FS_CardinalityType
<1> DEFINE w == e % Wrap
<1>5. e \in Nat /\ w \in Nat /\ w <= e
  <2>1. e \in Nat
    BY <1>1
  <2>2. Wrap \in Nat /\ Wrap > 0
    BY FreshIs DEF Wrap
  <2> HIDE DEF e
  <2> QED
    BY <2>1, <2>2
<1>6. Loss(g) = IF w > c THEN w - c ELSE 0
  BY DEF Loss, lo, hi, c
<1>7. Cardinality(R) <= c + h
  BY DEF R, A, lo, hi, c
<1> HIDE DEF w, e
<1>8. Loss(g) <= Cardinality(U) + h
  BY <1>1, <1>2, <1>4, <1>5, <1>6, <1>7
<1> QED
  BY <1>8 DEF U, lo, hi

\* A range that ends with a counted number holds no number that is still in hand in order.
LEMMA LastLoad ==
    ASSUME PortTypes, LossParts, ~hist.raced, ~Clearing, NEW lo \in Nat, NEW hi \in Nat, lo <= hi,
           InOrder => lo \in Settled \cup {UINT64_MAX} /\ hi \in Settled \cup {0}
    PROVE  Cardinality(hist.since \cap (lo..hi))
             <= gvs.count + (IF mode # "one" THEN Cardinality(InHand) ELSE 0)
<1> DEFINE S == hist.since
           R == S \cap (lo..hi)
<1>1. /\ S \in SUBSET Nat /\ IsFiniteSet(S) /\ Cardinality(S) \in Nat
      /\ \A n \in S : n < UINT64_MAX
  BY SinceIs DEF LossParts
<1>2. Cardinality(S) <= gvs.count + Cardinality(InHand)
  BY DEF LossParts, TrackInv, CountHolds
<1>3. Cardinality(InHand) \in Nat /\ gvs.count \in Nat
  BY HandsAre DEF PortTypes, GvsTypes, Gvs
<1>4. IsFiniteSet(R) /\ Cardinality(R) \in Nat /\ Cardinality(R) <= Cardinality(S)
  <2>1. R \in SUBSET S
    OBVIOUS
  <2> QED
    BY <1>1, <2>1, FS_Subset, FS_CardinalityType
<1>5. CASE mode # "one"
  <2>1. Cardinality(R) <= gvs.count + Cardinality(InHand)
    <3> HIDE DEF R, S
    <3> QED
      BY <1>1, <1>2, <1>3, <1>4
  <2> QED
    BY <1>5, <2>1
<1>6. CASE mode = "one" /\ InHand = {}
  <2>1. Cardinality(R) <= gvs.count
    <3>1. Cardinality(InHand) = 0
      BY <1>6, FS_EmptySet
    <3> HIDE DEF R, S
    <3> QED
      BY <1>1, <1>2, <1>3, <1>4, <3>1
  <2> QED
    BY <1>3, <1>6, <2>1
<1>7. CASE mode = "one" /\ InHand # {}
  <2>1. flow = "ext"
    BY <1>7 DEF LossParts, ElseInv, InHand, Hands, PortTypes, ConfTypes
  <2>2. InOrder
    BY <1>7, <2>1 DEF InOrder
  <2>3. InHand = {home} /\ home \in Queue
    BY <1>7, <2>2 DEF LossParts, OrderInv, InHand, Hands
  <2> DEFINE s == worker[home].seq
  <2>4. s \in S /\ \A m \in S : m <= s
    BY <2>1, <2>2, <2>3 DEF LossParts, OrderInv, PlacesInv
  <2>5. s \notin Settled
    BY <2>3 DEF Settled, Holding, InHand
  <2>6. Settled \subseteq S
    BY DEF Settled
  <2> HIDE DEF s, S
  <2>7. s > hi
    <3>1. lo \in S /\ lo # s
      <4>1. CASE hi \in Settled
        <5>1. hi < UINT64_MAX /\ lo < UINT64_MAX
          BY <1>1, <2>6, <4>1, FreshIs
        <5>2. lo \in Settled
          BY <2>2, <5>1, FreshIs
        <5> QED
          BY <2>5, <2>6, <5>2
      <4>2. CASE hi = 0
        <5>1. lo # UINT64_MAX
          BY <4>2, FreshIs
        <5>2. lo \in Settled
          BY <2>2, <5>1
        <5> QED
          BY <2>5, <2>6, <5>2
      <4> QED
        BY <2>2, <4>1, <4>2
    <3>2. s \in Nat /\ lo < s
      BY <1>1, <2>4, <3>1
    <3>3. CASE hi \in Settled
      <4>1. hi \in S /\ hi # s
        BY <2>5, <2>6, <3>3
      <4> QED
        BY <1>1, <2>4, <4>1
    <3>4. CASE hi = 0
      BY <3>2, <3>4
    <3> QED
      BY <2>2, <3>3, <3>4
  <2>8. R \in SUBSET (S \ {s})
    <3>1. \A n \in R : n # s
      BY <1>1, <2>4, <2>7
    <3> QED
      BY <3>1
  <2>9. IsFiniteSet(S \ {s}) /\ Cardinality(S \ {s}) = Cardinality(S) - 1
    BY <1>1, <2>4, FS_RemoveElement
  <2>10. Cardinality(R) <= Cardinality(S \ {s})
    BY <2>8, <2>9, FS_Subset
  <2>11. Cardinality(InHand) = 1
    BY <2>3, FS_Singleton
  <2> HIDE DEF R
  <2>12. Cardinality(R) <= gvs.count
    BY <1>1, <1>2, <1>3, <1>4, <2>9, <2>10, <2>11
  <2> QED
    BY <1>3, <1>7, <2>12 DEF R, S
<1> QED
  BY <1>5, <1>6, <1>7

\* A report starts, or loads one more word of the record.
LEMMA ReportLoss ==
    ASSUME PortTypes, LossParts, ~hist.phantom, Report \/ Load
    PROVE  LossParts' /\ ~hist'.phantom
<1> USE DEF PortTypes
<1>1. UNCHANGED <<flow, mode, home, sent, placed, ring, gvs, worker>>
  BY DEF Report, Load, KeepMain
<1>2. hist'.since = hist.since /\ hist'.raced = hist.raced
  BY DEF Report, Load, HistTypes
<1>3. HandsSame
  BY <1>1, <1>2 DEF HandsSame
<1>4. main.pc \in {"loop", "report"} /\ main'.pc \in {"loop", "report"}
  BY DEF Report, Load, MainAt, MainTypes
<1>5. ~Clearing /\ ~Clearing'
  BY <1>4 DEF Clearing
<1>6. PlacesInv' /\ OrderInv' /\ ElseInv' /\ TrackInv' /\ ClearInv'
  BY <1>1, <1>3, <1>5, PlacesFrame, TrackFrame, ClearFrame DEF LossParts
<1>7. Settled' = Settled
  BY <1>3, HandsFrame
<1>8. CASE Report
  <2>1. main'.load = <<"min", "max", "count">> /\ hist' = hist
    BY <1>8 DEF Report, LoadOrder, MainTypes
  <2>2. <<"min", "max", "count">> \notin {<<"max", "count">>, <<"count">>}
    OBVIOUS
  <2>3. ReportInv'
    BY <2>1, <2>2 DEF ReportInv
  <2> QED
    BY <1>6, <2>1, <2>3 DEF LossParts
<1>9. CASE Load
  <2> DEFINE key == Head(main.load)
             now == [main.loaded EXCEPT ![key] = gvs[key]]
             last == Len(main.load) = 1
  <2>1. /\ main.pc = "report"
        /\ main' = [main EXCEPT !.loaded = IF last THEN Fresh ELSE now, !.load = Tail(@),
                                !.pc = IF last THEN "loop" ELSE "report"]
        /\ hist' = [hist EXCEPT !.phantom = @ \/
                     /\ last /\ now.min <= now.max /\ ~hist.raced
                     /\ Loss(now) > Cardinality(Uncounted(now.min, now.max))
                                    + IF mode # "one" THEN Cardinality(InHand) ELSE 0]
    BY <1>9 DEF Load, MainAt
  <2>2. \/ main.load = <<"min", "max", "count">> \/ main.load = <<"max", "count">>
        \/ main.load = <<"count">>
    BY <2>1 DEF MainTypes, Loads
  <2>3. /\ main.load \in Loads /\ main.loaded \in Gvs /\ gvs \in Gvs
        /\ main'.load = Tail(main.load) /\ main'.loaded = IF last THEN Fresh ELSE now
        /\ main'.pc = IF last THEN "loop" ELSE "report"
    BY <2>1 DEF MainTypes, GvsTypes
  <2>4. ~hist.raced /\ InOrder => gvs.min \in Settled \cup {UINT64_MAX} /\ gvs.max \in Settled \cup {0}
    BY <1>5 DEF LossParts, TrackInv, SettledHolds
  <2>5. ReportInv /\ InOrder' = InOrder
    BY <1>1 DEF LossParts, InOrder
  <2>6. <<"min", "max", "count">> \notin {<<"max", "count">>, <<"count">>} /\ <<"max", "count">> # <<"count">>
    OBVIOUS
  <2> HIDE DEF key, now, last
  <2>7. CASE main.load = <<"min", "max", "count">>
    <3>1. key = "min" /\ Tail(main.load) = <<"max", "count">> /\ Len(main.load) = 3
      BY <2>7, LoadsAre DEF key
    <3>2. ~last
      BY <3>1 DEF last
    <3>3. now.min = gvs.min
      BY <2>3, <3>1 DEF now, Gvs
    <3>4. ReportInv'
      BY <1>2, <1>7, <2>3, <2>4, <2>5, <2>6, <3>1, <3>2, <3>3 DEF ReportInv
    <3>5. ~hist'.phantom
      BY <2>1, <3>2 DEF HistTypes
    <3> QED
      BY <1>6, <3>4, <3>5 DEF LossParts
  <2>8. CASE main.load = <<"max", "count">>
    <3>1. key = "max" /\ Tail(main.load) = <<"count">> /\ Len(main.load) = 2
      BY <2>8, LoadsAre DEF key
    <3>2. ~last
      BY <3>1 DEF last
    <3>3. now.min = main.loaded.min /\ now.max = gvs.max
      BY <2>3, <3>1 DEF now, Gvs
    <3>4. ReportInv'
      BY <1>2, <1>7, <2>1, <2>3, <2>4, <2>5, <2>6, <2>8, <3>1, <3>2, <3>3 DEF ReportInv
    <3>5. ~hist'.phantom
      BY <2>1, <3>2 DEF HistTypes
    <3> QED
      BY <1>6, <3>4, <3>5 DEF LossParts
  <2>9. CASE main.load = <<"count">>
    <3>1. key = "count" /\ Len(main.load) = 1
      BY <2>9, LoadsAre DEF key
    <3>2. last
      BY <3>1 DEF last
    <3>3. now \in Gvs /\ now.min = main.loaded.min /\ now.max = main.loaded.max /\ now.count = gvs.count
      BY <2>3, <3>1 DEF now, Gvs
    <3>4. ReportInv'
      BY <2>3, <3>2 DEF ReportInv
    <3> DEFINE h == IF mode # "one" THEN Cardinality(InHand) ELSE 0
    <3>5. h \in Nat
      BY HandsAre
    <3>6. ASSUME now.min <= now.max, ~hist.raced
          PROVE  Loss(now) <= Cardinality(Uncounted(now.min, now.max)) + h
      <4>1. now.min \in Nat /\ now.max \in Nat
        BY <3>3 DEF Gvs
      <4>2. InOrder => now.min \in Settled \cup {UINT64_MAX} /\ now.max \in Settled \cup {0}
        BY <2>1, <2>5, <2>9, <3>3, <3>6 DEF ReportInv
      <4>3. Cardinality(hist.since \cap (now.min..now.max)) <= gvs.count + h
        <5> DEFINE lo == now.min
                   hi == now.max
        <5>1. lo \in Nat /\ hi \in Nat /\ lo <= hi
              /\ (InOrder => lo \in Settled \cup {UINT64_MAX} /\ hi \in Settled \cup {0})
          BY <3>6, <4>1, <4>2
        <5> HIDE DEF lo, hi
        <5>2. Cardinality(hist.since \cap (lo..hi)) <= gvs.count + h
          BY <1>5, <3>6, <5>1, LastLoad
        <5> QED
          BY <5>2 DEF lo, hi
      <4> HIDE DEF h
      <4> QED
        BY <3>3, <3>5, <3>6, <4>3, RangeLoss
    <3>7. ~hist'.phantom
      <4> DEFINE u == Cardinality(Uncounted(now.min, now.max))
                 b == /\ last /\ now.min <= now.max /\ ~hist.raced /\ Loss(now) > u + h
      <4>1. u \in Nat
        <5>1. IsFiniteSet(now.min..now.max)
          <6>1. now.min \in Int /\ now.max \in Int
            BY <3>3 DEF Gvs
          <6> QED
            BY <6>1, FS_Interval
        <5>2. Uncounted(now.min, now.max) \in SUBSET (now.min..now.max)
          BY DEF Uncounted
        <5> QED
          BY <5>1, <5>2, FS_Subset, FS_CardinalityType
      <4>2. Loss(now) \in Nat
        <5>1. now.min \in Nat /\ now.max \in Nat /\ now.count \in Nat
          BY <3>3 DEF Gvs
        <5>2. Wrap \in Nat /\ Wrap > 0
          BY FreshIs DEF Wrap
        <5> DEFINE w == (now.max - now.min + 1) % Wrap
        <5>3. w \in Nat
          BY <5>1, <5>2
        <5>4. Loss(now) = IF w > now.count THEN w - now.count ELSE 0
          BY DEF Loss
        <5> HIDE DEF w
        <5> QED
          BY <5>1, <5>3, <5>4
      <4>3. hist' = [hist EXCEPT !.phantom = @ \/ b]
        BY <2>1
      <4> HIDE DEF u, h
      <4>4. ~b
        BY <3>5, <3>6, <4>1, <4>2 DEF u
      <4> HIDE DEF b
      <4> QED
        BY <4>3, <4>4 DEF HistTypes
    <3> QED
      BY <1>6, <3>4, <3>7 DEF LossParts
  <2> QED
    BY <2>2, <2>7, <2>8, <2>9
<1> QED
  BY <1>8, <1>9

LossInv == PortTypes /\ LossParts /\ NoPhantomLoss

\* Every step keeps the loss real.
LEMMA LossStep == LossInv /\ [Next]_vars => LossInv'
<1> SUFFICES ASSUME LossInv, [Next]_vars PROVE LossParts' /\ ~hist'.phantom
  BY TypesStep DEF LossInv, NoPhantomLoss
<1>0. PortTypes /\ LossParts /\ ~hist.phantom
  BY DEF LossInv, NoPhantomLoss
<1>1. CASE UNCHANGED vars
  <2>1. HandsSame /\ UNCHANGED <<sent, placed, ring, main, hist>>
    BY <1>1 DEF vars, HandsSame
  <2> QED
    BY <1>0, <2>1, QuietStep
<1>2. ASSUME NEW q \in Queue, Worker(q) PROVE LossParts' /\ ~hist'.phantom
  BY <1>0, <1>2, TakeExtLoss, TakeElseLoss, CountLoss, TrackLoss, StatsLoss DEF Worker
<1>3. CASE Main
  BY <1>0, <1>3, ReportLoss, ResetLoss, ClearingLoss DEF Main
<1>4. CASE Sender
  BY <1>0, <1>4, SenderLoss
<1> QED
  BY <1>1, <1>2, <1>3, <1>4 DEF Next

\* At rest the record is what was taken.
LEMMA SettlesNow == LossInv => LossSettles
<1> SUFFICES ASSUME LossInv, Quiet, flow = "ext", mode \in {"one", "spread"}, ~hist.raced, hist.since # {}
             PROVE  /\ gvs.init
                    /\ gvs.min = Min(hist.since) /\ gvs.max = Max(hist.since)
                    /\ Loss(gvs) = Cardinality(Uncounted(gvs.min, gvs.max))
  BY DEF LossSettles
<1> DEFINE S == hist.since
           lo == gvs.min
           hi == gvs.max
           c == gvs.count
<1>1. PortTypes /\ LossParts /\ main.pc = "loop" /\ \A q \in Queue : worker[q].pc \in {"poll", "done"}
  BY DEF LossInv, Quiet, MainAt
<1>2. BoundsHold /\ SeenHolds /\ CountHolds
  BY <1>1 DEF LossParts, TrackInv, Clearing
<1>3. S \in SUBSET Nat /\ S # {} /\ IsFiniteSet(S) /\ Cardinality(S) \in Nat
      /\ \A n \in S : n <= MaxPackets - 1 /\ n < UINT64_MAX
  BY <1>1, SinceIs DEF LossParts
<1>4. \A n, pcs : pcs \subseteq Hands => ~Holding(n, pcs)
  BY <1>1 DEF Holding, Hands, Tracking
<1>5. InHand = {} /\ Cardinality(InHand) = 0
  BY <1>1, FS_EmptySet DEF InHand
<1>6. gvs \in Gvs /\ lo \in Nat /\ hi \in Nat /\ c \in Nat
  BY <1>1 DEF PortTypes, GvsTypes, Gvs
<1>7. Cardinality(S) = c
  BY <1>2, <1>5, <1>6 DEF CountHolds, Single
<1>8. \A n \in S : lo <= n /\ hi >= n
  BY <1>2, <1>4 DEF BoundsHold
<1>9. lo \in S \cup {UINT64_MAX} /\ hi \in S \cup {0}
  BY <1>2 DEF BoundsHold
<1>10. gvs.init
  <2>1. gvs.min # UINT64_MAX
    BY <1>3, <1>6, <1>8, FreshIs
  <2> QED
    BY <1>1, <1>2, <2>1 DEF SeenHolds
<1> HIDE DEF S, lo, hi, c
<1>11. lo \in S
  <2>1. PICK n \in S : n \in Nat /\ lo <= n /\ n < UINT64_MAX
    BY <1>3, <1>8
  <2>2. lo # UINT64_MAX
    BY <1>6, <2>1, FreshIs
  <2> QED
    BY <1>9, <2>2
<1>12. hi \in S
  <2>1. PICK n \in S : n \in Nat /\ n <= hi
    BY <1>3, <1>8
  <2> QED
    BY <1>9, <2>1
<1>13. lo = Min(S) /\ hi = Max(S)
  BY <1>3, <1>6, <1>8, <1>11, <1>12, MinIs, MaxIs
<1> DEFINE A == lo..hi
           U == Uncounted(lo, hi)
           e == hi - lo + 1
<1>14. lo <= hi /\ hi <= MaxPackets - 1
  BY <1>3, <1>8, <1>11, <1>12
<1>15. IsFiniteSet(A) /\ Cardinality(A) = e
  BY <1>6, <1>14, FS_Interval
<1>16. U = A \ S /\ A \cap S = S
  BY <1>3, <1>6, <1>8 DEF Uncounted, S
<1>17. Cardinality(U) = e - c /\ c <= e
  <2>1. IsFiniteSet(S) /\ S \in SUBSET A
    BY <1>3, <1>16
  <2>2. Cardinality(S) <= Cardinality(A)
    BY <1>15, <2>1, FS_Subset
  <2>3. Cardinality(A \ S) = Cardinality(A) - Cardinality(A \cap S)
    BY <1>15, FS_Difference
  <2> QED
    BY <1>7, <1>15, <1>16, <2>2, <2>3
<1> HIDE DEF A, U
<1>18. e % Wrap = e /\ e \in Nat
  <2>1. e \in Nat /\ e < Wrap /\ Wrap \in Nat
    BY <1>6, <1>14, FreshIs DEF Wrap
  <2> HIDE DEF e
  <2> QED
    BY <2>1
<1>19. Loss(gvs) = IF e > c THEN e - c ELSE 0
  BY <1>18 DEF Loss, lo, hi, c
<1> HIDE DEF e
<1>20. Loss(gvs) = Cardinality(U)
  BY <1>6, <1>17, <1>18, <1>19
<1> QED
  BY <1>10, <1>13, <1>20 DEF U, lo, hi, S

\* The loss of a VL-ID that is printed is a loss: while traffic runs it is never more than what is
\* missing, and once traffic rests it is exactly what is missing, for any number of queues and
\* packets and however their workers, the report and the clearing interleave.
THEOREM LossesAreReal == Spec => []LossIsReal
<1>1. Init => LossInv
  BY TypesInit, LossInit DEF LossInv, NoPhantomLoss
<1>2. LossInv => LossIsReal
  BY SettlesNow DEF LossInv, LossIsReal
<1> QED
  BY <1>1, <1>2, LossStep, PTL DEF Spec

(* Sums over the queues *)

Pick(s) == CHOOSE x \in s : TRUE
Total(f) == FoldFunction(Plus, NoStats, f)

\* The partial sums of f: over the sets of queues, one queue after the other.
Adds(f, g, s) == IF s = {} THEN NoStats ELSE Plus(f[Pick(s)], g[s \ {Pick(s)}])
Partial(f) == CHOOSE g : g = [s \in SUBSET DOMAIN f |-> Adds(f, g, s)]

\* FoldFunction is the partial sum over all of them.
LEMMA TotalIs == ASSUME NEW f PROVE Total(f) = Partial(f)[DOMAIN f]
BY DEF Total, FoldFunction, FoldFunctionOnSet, MapThenFoldSet, Partial, Adds, Pick

\* Plus is a sum.
LEMMA PlusIs ==
    ASSUME NEW a \in Stats, NEW b \in Stats, NEW c \in Stats
    PROVE  /\ Plus(a, b) \in Stats /\ Plus(a, Plus(b, c)) = Plus(b, Plus(a, c))
           /\ Plus(NoStats, NoStats) = NoStats /\ NoStats \in Stats
           /\ Plus(a, b).rx = a.rx + b.rx /\ Plus(a, b).lost = a.lost + b.lost
BY DEF Stats, Plus, NoStats

\* Sets of queues are finite: a family of them has a smallest member.
LEMMA SetsOfQueues ==
    /\ \A s \in SUBSET Queue : IsFiniteSet(s) /\ Cardinality(s) \in Nat /\ Cardinality(s) <= Cardinality(Queue)
    /\ \A s \in SUBSET Queue : \A x \in s :
         s \ {x} \in SUBSET Queue /\ Cardinality(s \ {x}) = Cardinality(s) - 1
    /\ Cardinality(Queue) \in Nat
<1>1. IsFiniteSet(Queue)
  BY RawPortAssumption
<1>2. ASSUME NEW s \in SUBSET Queue
      PROVE  IsFiniteSet(s) /\ Cardinality(s) \in Nat /\ Cardinality(s) <= Cardinality(Queue)
  BY <1>1, FS_Subset, FS_CardinalityType
<1>3. ASSUME NEW s \in SUBSET Queue, NEW x \in s PROVE Cardinality(s \ {x}) = Cardinality(s) - 1
  BY <1>2, FS_RemoveElement
<1> QED
  BY <1>1, <1>2, <1>3, FS_CardinalityType

\* A family of sets of queues has a smallest member.
LEMMA SmallestSet ==
    ASSUME NEW C \in SUBSET (SUBSET Queue), C # {}
    PROVE  \E s \in C : \A t \in C : Cardinality(s) <= Cardinality(t)
<1> DEFINE N == {Cardinality(s) : s \in C}
<1>1. N \in SUBSET Nat /\ N # {}
  BY SetsOfQueues
<1>2. PICK m \in N : \A k \in N : m <= k
  BY <1>1, LeastNatural
<1> QED
  BY <1>2

\* A queue is picked from the set.
LEMMA PickIs == ASSUME NEW s, s # {} PROVE Pick(s) \in s
BY DEF Pick

\* There are partial sums: of the sets of one queue, of two, and so on.
Upto(n) == {s \in SUBSET Queue : Cardinality(s) <= n}
SumsUpto(f, g, n) == g \in [Upto(n) -> Stats] /\ \A s \in Upto(n) : g[s] = Adds(f, g, s)

\* Sums of n queues give sums of n + 1.
LEMMA SumsGrow ==
    ASSUME NEW f \in [Queue -> Stats], NEW n \in Nat, NEW g, SumsUpto(f, g, n)
    PROVE  \E h : SumsUpto(f, h, n + 1)
<1> DEFINE h == [s \in Upto(n + 1) |-> Adds(f, g, s)]
<1>1. ASSUME NEW s \in Upto(n + 1), s # {}
      PROVE  Pick(s) \in Queue /\ s \ {Pick(s)} \in Upto(n) /\ s \ {Pick(s)} \in Upto(n + 1)
  <2>1. Pick(s) \in s /\ s \in SUBSET Queue /\ Cardinality(s) \in Nat /\ Cardinality(s) <= n + 1
    BY <1>1, PickIs, SetsOfQueues DEF Upto
  <2>2. s \ {Pick(s)} \in SUBSET Queue /\ Cardinality(s \ {Pick(s)}) = Cardinality(s) - 1
    BY <2>1, SetsOfQueues
  <2>3. Cardinality(s \ {Pick(s)}) <= n /\ Cardinality(s \ {Pick(s)}) <= n + 1
    BY <2>1, <2>2
  <2> QED
    BY <2>1, <2>2, <2>3 DEF Upto
<1>2. \A s \in Upto(n) : s \in Upto(n + 1) /\ h[s] = g[s]
  <2>1. ASSUME NEW s \in Upto(n) PROVE s \in Upto(n + 1)
    BY SetsOfQueues DEF Upto
  <2> QED
    BY <2>1 DEF SumsUpto
<1>3. ASSUME NEW s \in Upto(n + 1) PROVE h[s] \in Stats
  <2>1. CASE s = {}
    BY <2>1, PlusTypes DEF Adds
  <2>2. CASE s # {}
    BY <1>1, <2>2, PlusTypes DEF Adds, SumsUpto
  <2> QED
    BY <2>1, <2>2
<1>4. ASSUME NEW s \in Upto(n + 1) PROVE h[s] = Adds(f, h, s)
  <2>1. CASE s = {}
    BY <2>1 DEF Adds
  <2>2. CASE s # {}
    <3>1. h[s \ {Pick(s)}] = g[s \ {Pick(s)}]
      BY <1>1, <1>2, <2>2
    <3>2. h[s] = Adds(f, g, s)
      OBVIOUS
    <3> HIDE DEF h
    <3> QED
      BY <2>2, <3>1, <3>2 DEF Adds
  <2> QED
    BY <2>1, <2>2
<1>5. h \in [Upto(n + 1) -> Stats]
  BY <1>3
<1> HIDE DEF h
<1> QED
  BY <1>4, <1>5 DEF SumsUpto

\* There are sums of any number of queues.
LEMMA SumsExist ==
    ASSUME NEW f \in [Queue -> Stats], NEW n \in Nat
    PROVE  \E g : SumsUpto(f, g, n)
<1> DEFINE C == {k \in Nat : ~\E g : SumsUpto(f, g, k)}
<1> SUFFICES ASSUME C # {} PROVE FALSE
  BY DEF C
<1>1. PICK m \in C : \A k \in C : m <= k
  BY LeastNatural
<1>2. m # 0
  <2> DEFINE g == [s \in Upto(0) |-> NoStats]
  <2>1. ASSUME NEW s \in Upto(0) PROVE s = {}
    BY SetsOfQueues, FS_EmptySet DEF Upto
  <2>2. g \in [Upto(0) -> Stats]
    BY PlusTypes
  <2>3. \A s \in Upto(0) : g[s] = Adds(f, g, s)
    BY <2>1 DEF Adds
  <2> HIDE DEF g
  <2>4. SumsUpto(f, g, 0)
    BY <2>2, <2>3 DEF SumsUpto
  <2> QED
    BY <2>4
<1>3. m - 1 \in Nat /\ (m - 1) + 1 = m /\ ~(m <= m - 1)
  BY <1>2
<1>4. PICK g : SumsUpto(f, g, m - 1)
  BY <1>1, <1>3
<1>5. \E h : SumsUpto(f, h, m)
  BY <1>3, <1>4, SumsGrow
<1> QED
  BY <1>5

\* The partial sums are what they are defined to be.
LEMMA PartialIs ==
    ASSUME NEW f \in [Queue -> Stats]
    PROVE  /\ \A s \in SUBSET Queue : Partial(f)[s] \in Stats /\ Partial(f)[s] = Adds(f, Partial(f), s)
           /\ Total(f) = Partial(f)[Queue]
<1> DEFINE P == Partial(f)
<1>1. \E g : g = [s \in SUBSET DOMAIN f |-> Adds(f, g, s)]
  <2>1. PICK g : SumsUpto(f, g, Cardinality(Queue))
    BY SumsExist, SetsOfQueues
  <2>2. Upto(Cardinality(Queue)) = SUBSET DOMAIN f
    BY SetsOfQueues DEF Upto
  <2>3. g = [s \in SUBSET DOMAIN f |-> Adds(f, g, s)]
    <3>1. g = [s \in Upto(Cardinality(Queue)) |-> g[s]]
      BY <2>1 DEF SumsUpto
    <3> QED
      BY <2>1, <2>2, <3>1 DEF SumsUpto
  <2> QED
    BY <2>3
<1>2. P = [s \in SUBSET DOMAIN f |-> Adds(f, P, s)]
  BY <1>1 DEF Partial
<1> HIDE DEF P
<1>3. \A s \in SUBSET Queue : P[s] = Adds(f, P, s)
  BY <1>2
<1>4. \A s \in SUBSET Queue : P[s] \in Stats
  <2> DEFINE C == {s \in SUBSET Queue : P[s] \notin Stats}
  <2> SUFFICES ASSUME C # {} PROVE FALSE
    OBVIOUS
  <2>1. PICK s \in C : \A t \in C : Cardinality(s) <= Cardinality(t)
    BY SmallestSet
  <2>2. s # {}
    BY <1>3, <2>1, PlusTypes DEF Adds
  <2> DEFINE t == s \ {Pick(s)}
  <2>3. Pick(s) \in s /\ Pick(s) \in Queue /\ s \in SUBSET Queue
    BY <2>1, <2>2, PickIs
  <2>4. t \in SUBSET Queue /\ Cardinality(t) = Cardinality(s) - 1 /\ Cardinality(s) \in Nat
    BY <2>3, SetsOfQueues
  <2>5. P[t] \in Stats
    <3>1. t \notin C
      BY <2>1, <2>4
    <3> QED
      BY <2>4, <3>1
  <2>6. P[s] = Plus(f[Pick(s)], P[t])
    BY <1>3, <2>2, <2>3 DEF Adds
  <2> QED
    BY <2>1, <2>3, <2>5, <2>6, PlusTypes
<1> QED
  BY <1>3, <1>4, TotalIs DEF P

\* Any queue may be taken out first.
LEMMA TakeOut ==
    ASSUME NEW f \in [Queue -> Stats], NEW s \in SUBSET Queue, NEW q \in s
    PROVE  Partial(f)[s] = Plus(f[q], Partial(f)[s \ {q}])
<1> DEFINE P == Partial(f)
           C == {u \in SUBSET Queue : \E x \in u : P[u] # Plus(f[x], P[u \ {x}])}
<1>0. \A u \in SUBSET Queue : P[u] \in Stats /\ P[u] = Adds(f, P, u)
  BY PartialIs
<1> HIDE DEF P
<1> SUFFICES ASSUME C # {} PROVE FALSE
  BY DEF P
<1>1. PICK u \in C : \A t \in C : Cardinality(u) <= Cardinality(t)
  BY SmallestSet
<1>2. PICK x \in u : P[u] # Plus(f[x], P[u \ {x}])
  BY <1>1
<1> DEFINE y == Pick(u)
<1>3. y \in u /\ u \in SUBSET Queue /\ P[u] = Plus(f[y], P[u \ {y}])
  BY <1>0, <1>1, <1>2, PickIs DEF Adds
<1> HIDE DEF y
<1>4. x # y
  BY <1>2, <1>3
<1>5. /\ u \ {y} \in SUBSET Queue /\ u \ {y} \notin C /\ u \ {x} \in SUBSET Queue /\ u \ {x} \notin C
  <2>1. ASSUME NEW z \in u PROVE u \ {z} \in SUBSET Queue /\ u \ {z} \notin C
    <3>1. Cardinality(u \ {z}) = Cardinality(u) - 1 /\ Cardinality(u) \in Nat /\ u \ {z} \in SUBSET Queue
      BY <1>3, SetsOfQueues
    <3>2. ~(Cardinality(u) <= Cardinality(u \ {z}))
      BY <3>1
    <3> HIDE DEF C
    <3> QED
      BY <1>1, <3>1, <3>2
  <2> QED
    BY <1>2, <1>3, <2>1
<1>6. P[u \ {y}] = Plus(f[x], P[(u \ {y}) \ {x}])
  BY <1>2, <1>4, <1>5
<1>7. P[u \ {x}] = Plus(f[y], P[(u \ {x}) \ {y}])
  BY <1>3, <1>4, <1>5
<1>8. (u \ {y}) \ {x} = (u \ {x}) \ {y} /\ (u \ {y}) \ {x} \in SUBSET Queue
  BY <1>5
<1> DEFINE r == P[(u \ {y}) \ {x}]
<1>9. f[x] \in Stats /\ f[y] \in Stats /\ r \in Stats
  BY <1>0, <1>2, <1>3, <1>8
<1>10. Plus(f[y], Plus(f[x], r)) = Plus(f[x], Plus(f[y], r))
  BY <1>9, PlusIs
<1> QED
  BY <1>2, <1>3, <1>6, <1>7, <1>8, <1>10

\* Partial sums without q do not depend on what q adds.
LEMMA WithoutQueue ==
    ASSUME NEW f \in [Queue -> Stats], NEW g \in [Queue -> Stats], NEW q \in Queue,
           \A r \in Queue : r # q => f[r] = g[r], NEW s \in SUBSET (Queue \ {q})
    PROVE  Partial(f)[s] = Partial(g)[s]
<1> DEFINE P == Partial(f)
           R == Partial(g)
           C == {u \in SUBSET (Queue \ {q}) : P[u] # R[u]}
<1>0. \A u \in SUBSET Queue : P[u] = Adds(f, P, u) /\ R[u] = Adds(g, R, u)
  BY PartialIs
<1> HIDE DEF P, R
<1> SUFFICES ASSUME C # {} PROVE FALSE
  BY DEF P, R
<1>1. C \in SUBSET (SUBSET Queue)
  OBVIOUS
<1>2. PICK u \in C : \A t \in C : Cardinality(u) <= Cardinality(t)
  BY <1>1, SmallestSet
<1>3. u # {}
  BY <1>0, <1>2 DEF Adds
<1> DEFINE x == Pick(u)
<1>4. x \in u /\ x \in Queue /\ x # q /\ u \in SUBSET Queue
  BY <1>2, <1>3, PickIs
<1>5. P[u] = Plus(f[x], P[u \ {x}]) /\ R[u] = Plus(g[x], R[u \ {x}])
  BY <1>0, <1>3, <1>4 DEF Adds
<1> HIDE DEF x
<1>6. u \ {x} \in SUBSET (Queue \ {q}) /\ u \ {x} \notin C
  BY <1>1, <1>2, <1>4, SetsOfQueues
<1> QED
  BY <1>2, <1>4, <1>5, <1>6

\* When one queue adds something else, the rest of the sum stays.
LEMMA TotalStep ==
    ASSUME NEW f \in [Queue -> Stats], NEW g \in [Queue -> Stats], NEW q \in Queue,
           \A r \in Queue : r # q => f[r] = g[r]
    PROVE  \E rest \in Stats : Total(f) = Plus(f[q], rest) /\ Total(g) = Plus(g[q], rest)
<1> DEFINE rest == Partial(f)[Queue \ {q}]
<1>1. rest \in Stats /\ Total(f) = Partial(f)[Queue] /\ Total(g) = Partial(g)[Queue]
  BY PartialIs
<1>2. rest = Partial(g)[Queue \ {q}]
  BY WithoutQueue
<1>3. Partial(f)[Queue] = Plus(f[q], rest)
  BY TakeOut
<1>4. Partial(g)[Queue] = Plus(g[q], Partial(g)[Queue \ {q}])
  BY TakeOut
<1> HIDE DEF rest
<1> QED
  BY <1>1, <1>2, <1>3, <1>4

\* The sum over the queues is a record of counts.
LEMMA TotalType == ASSUME NEW f \in [Queue -> Stats] PROVE Total(f) \in Stats
BY PartialIs

\* The sum of nothing.
LEMMA TotalZero ==
    ASSUME NEW f \in [Queue -> Stats], \A q \in Queue : f[q] = NoStats
    PROVE  Total(f) = NoStats
<1> DEFINE P == Partial(f)
           C == {u \in SUBSET Queue : P[u] # NoStats}
<1>0. (\A u \in SUBSET Queue : P[u] = Adds(f, P, u)) /\ Total(f) = P[Queue]
  BY PartialIs
<1> HIDE DEF P
<1> SUFFICES ASSUME C # {} PROVE FALSE
  BY <1>0
<1>1. PICK u \in C : \A t \in C : Cardinality(u) <= Cardinality(t)
  BY SmallestSet
<1>2. u # {}
  BY <1>0, <1>1 DEF Adds
<1>3. Pick(u) \in u /\ u \in SUBSET Queue
  BY <1>1, <1>2, PickIs
<1>4. P[u] = Plus(f[Pick(u)], P[u \ {Pick(u)}])
  BY <1>0, <1>2, <1>3 DEF Adds
<1>5. u \ {Pick(u)} \in SUBSET Queue /\ u \ {Pick(u)} \notin C
  BY <1>1, <1>3, SetsOfQueues
<1>6. P[u] = Plus(NoStats, NoStats)
  BY <1>3, <1>4, <1>5
<1> QED
  BY <1>1, <1>6, PlusIs, PlusTypes

(* The statistics and their lock *)

Locals == [q \in Queue |-> worker[q].add]

\* What is counted anywhere: in the statistics, cleared from them, or in the locals of q and of the
\* other workers.
EverywhereParts ==
    /\ Locals \in [Queue -> Stats] /\ Everywhere \in Stats /\ Total(Locals) \in Stats
    /\ Everywhere.rx = stats.sum.rx + hist.wiped.rx + Total(Locals).rx
    /\ Everywhere.lost = stats.sum.lost + hist.wiped.lost + Total(Locals).lost
    /\ stats.sum \in Stats /\ hist.wiped \in Stats

\* What is counted anywhere, by its parts.
LEMMA EverywhereIs == PortTypes => EverywhereParts
<1> SUFFICES ASSUME PortTypes PROVE EverywhereParts
  OBVIOUS
<1>1. Locals \in [Queue -> Stats] /\ stats.sum \in Stats /\ hist.wiped \in Stats
  BY DEF PortTypes, WorkerTypes, WorkerType, StatsTypes, HistTypes, Locals
<1>2. Total(Locals) \in Stats
  BY <1>1, TotalType
<1>3. Everywhere = Plus(Plus(stats.sum, hist.wiped), Total(Locals))
  BY DEF Everywhere, Locals, Total
<1>4. Plus(stats.sum, hist.wiped) \in Stats
  BY <1>1, PlusTypes
<1> DEFINE t == Total(Locals)
           s == stats.sum
           w == hist.wiped
<1> HIDE DEF t, s, w
<1>5. Everywhere = Plus(Plus(s, w), t) /\ s \in Stats /\ w \in Stats /\ t \in Stats
  BY <1>1, <1>2, <1>3 DEF t, s, w
<1>6. Everywhere \in Stats /\ Everywhere.rx = s.rx + w.rx + t.rx /\ Everywhere.lost = s.lost + w.lost + t.lost
  <2>1. Everywhere.rx = Plus(s, w).rx + t.rx /\ Everywhere.lost = Plus(s, w).lost + t.lost /\ Everywhere \in Stats
    BY <1>5, PlusTypes DEF Plus
  <2>2. Plus(s, w).rx = s.rx + w.rx /\ Plus(s, w).lost = s.lost + w.lost
    BY DEF Plus
  <2> QED
    BY <2>1, <2>2
<1> QED
  BY <1>1, <1>2, <1>6 DEF t, s, w, EverywhereParts

\* A step of one worker changes what is counted by as much as its own parts change.
LEMMA EverywhereMoves ==
    ASSUME PortTypes, PortTypes', NEW q \in Queue,
           \A r \in Queue : r # q => worker'[r].add = worker[r].add
    PROVE  \E rest \in Stats :
             /\ Everywhere.rx = stats.sum.rx + hist.wiped.rx + worker[q].add.rx + rest.rx
             /\ Everywhere'.rx = stats'.sum.rx + hist'.wiped.rx + worker'[q].add.rx + rest.rx
             /\ Everywhere.lost = stats.sum.lost + hist.wiped.lost + worker[q].add.lost + rest.lost
             /\ Everywhere'.lost = stats'.sum.lost + hist'.wiped.lost + worker'[q].add.lost + rest.lost
<1> DEFINE f == Locals
           g == Locals'
<1>1. /\ f \in [Queue -> Stats] /\ g \in [Queue -> Stats]
      /\ Everywhere.rx = stats.sum.rx + hist.wiped.rx + Total(f).rx
      /\ Everywhere.lost = stats.sum.lost + hist.wiped.lost + Total(f).lost
      /\ Everywhere'.rx = stats'.sum.rx + hist'.wiped.rx + Total(g).rx
      /\ Everywhere'.lost = stats'.sum.lost + hist'.wiped.lost + Total(g).lost
      /\ stats.sum \in Stats /\ hist.wiped \in Stats /\ stats'.sum \in Stats /\ hist'.wiped \in Stats
  <2>1. Total(Locals)' = Total(g)
    BY DEF Total
  <2>2. EverywhereParts'
    BY EverywhereIs, PTL
  <2>3. EverywhereParts
    BY EverywhereIs
  <2> QED
    BY <2>1, <2>2, <2>3 DEF EverywhereParts
<1>2. f[q] = worker[q].add /\ g[q] = worker'[q].add /\ \A r \in Queue : r # q => f[r] = g[r]
  BY DEF Locals
<1> HIDE DEF f, g
<1>3. PICK rest \in Stats : Total(f) = Plus(f[q], rest) /\ Total(g) = Plus(g[q], rest)
  BY <1>1, <1>2, TotalStep
<1>4. f[q] \in Stats /\ g[q] \in Stats
  BY <1>1
<1>5. /\ Total(f).rx = f[q].rx + rest.rx /\ Total(f).lost = f[q].lost + rest.lost
      /\ Total(g).rx = g[q].rx + rest.rx /\ Total(g).lost = g[q].lost + rest.lost
  BY <1>3, <1>4 DEF Plus
<1>6. \A a \in Stats : a.rx \in Nat /\ a.lost \in Nat
  BY DEF Stats
<1>7. /\ Everywhere.rx = stats.sum.rx + hist.wiped.rx + f[q].rx + rest.rx
      /\ Everywhere'.rx = stats'.sum.rx + hist'.wiped.rx + g[q].rx + rest.rx
      /\ Everywhere.lost = stats.sum.lost + hist.wiped.lost + f[q].lost + rest.lost
      /\ Everywhere'.lost = stats'.sum.lost + hist'.wiped.lost + g[q].lost + rest.lost
  BY <1>1, <1>3, <1>4, <1>5, <1>6
<1> QED
  BY <1>2, <1>7

\* What is counted stays when nothing is added.
LEMMA EverywhereStays ==
    ASSUME PortTypes, PortTypes', \A r \in Queue : worker'[r].add = worker[r].add,
           stats'.sum = stats.sum, hist'.wiped = hist.wiped
    PROVE  Everywhere' = Everywhere
<1>1. Locals' = Locals
  BY DEF Locals
<1>2. Total(Locals)' = Total(Locals)
  BY <1>1 DEF Total
<1> QED
  BY <1>2 DEF Everywhere, Total, Locals

Adding == {"add", "add2"}

\* Between the lock and the unlock a worker holds what the statistics hold, and it is alone: until
\* the clearing frees a lock that is not its own.
LockInv ==
    /\ main.warm /\ main.pc \in {"loop", "report", "wipe"} => hist.wiped = NoStats
    /\ main.warm /\ main.pc \in {"loop", "report"} => ~hist.stolen
    /\ main.pc \in {"wipe", "spin_init", "unlock"} => main.warm /\ ~hist.stolen
    /\ ~hist.stolen =>
         /\ \A q, r \in Queue : worker[q].pc \in Adding /\ worker[r].pc \in Adding => q = r
         /\ \A q \in Queue : worker[q].pc \in Adding => worker[q].read = stats.sum
         /\ stats.locked <=> main.pc \in {"wipe", "spin_init"} \/ \E q \in Queue : worker[q].pc \in Adding
         /\ main.pc \in {"wipe", "spin_init"} => \A q \in Queue : worker[q].pc \notin Adding
    /\ \A q \in Queue : worker[q].pc = "check" => worker[q].add = NoStats

\* Nothing is added and nobody takes or frees the lock.
LEMMA LockFrame ==
    ASSUME LockInv, NEW q \in Queue, \A r \in Queue : r # q => worker'[r] = worker[r],
           worker[q].pc \notin Adding, worker'[q].pc \notin Adding,
           worker'[q].pc # "check" \/ worker'[q] = worker[q],
           UNCHANGED <<stats, main>>, hist'.wiped = hist.wiped, hist'.stolen = hist.stolen
    PROVE  LockInv'
<1>1. \A r \in Queue : worker'[r].pc \in Adding => worker'[r] = worker[r] /\ worker[r].pc \in Adding
  OBVIOUS
<1>2. \A r \in Queue : worker[r].pc \in Adding => worker'[r] = worker[r] /\ worker'[r].pc \in Adding
  OBVIOUS
<1>3. \A r \in Queue : worker'[r].pc = "check" => worker'[r] = worker[r]
  OBVIOUS
<1> QED
  BY <1>1, <1>2, <1>3 DEF LockInv, Adding

\* The lock is free at first, and nothing is counted.
LEMMA LockInit == PortTypes /\ Init => LockInv /\ Everywhere = NoStats
<1> SUFFICES ASSUME PortTypes, Init PROVE LockInv /\ Everywhere = NoStats
  OBVIOUS
<1>1. /\ \A q \in Queue : worker[q].pc = "poll" /\ worker[q].add = NoStats
      /\ stats.sum = NoStats /\ stats.locked = FALSE /\ hist.wiped = NoStats /\ hist.stolen = FALSE
      /\ main.pc = "loop" /\ main.warm = TRUE
  BY DEF Init
<1>2. Total(Locals) = NoStats
  <2>1. Locals \in [Queue -> Stats] /\ \A q \in Queue : Locals[q] = NoStats
    BY <1>1, EverywhereIs DEF Locals, EverywhereParts
  <2> QED
    BY <2>1, TotalZero
<1>3. Everywhere = Plus(Plus(NoStats, NoStats), NoStats)
  BY <1>1, <1>2 DEF Everywhere, Total, Locals
<1>4. Everywhere = NoStats
  BY <1>3, PlusIs, PlusTypes
<1>5. LockInv
  BY <1>1 DEF LockInv, Adding
<1> QED
  BY <1>4, <1>5

\* Every step keeps the lock as LockInv has it.
LEMMA LockSteps ==
    ASSUME PortTypes, LockInv, [Next]_vars
    PROVE  LockInv'
<1> USE DEF PortTypes
<1>1. CASE UNCHANGED vars
  BY <1>1 DEF vars, LockInv
<1>2. CASE Sender
  <2>1. UNCHANGED <<worker, stats, main>> /\ hist'.wiped = hist.wiped /\ hist'.stolen = hist.stolen
    BY <1>2 DEF Sender, ExtSend, RawPlace, RawKick, Emit, HistTypes
  <2> QED
    BY <2>1 DEF LockInv
<1>3. ASSUME NEW q \in Queue, TakeExt(q) \/ TakeRaw(q) \/ TakeLegacy(q) PROVE LockInv'
  <2>1. /\ worker[q].pc = "poll" /\ UNCHANGED <<stats, main>> /\ hist'.wiped = hist.wiped
        /\ hist'.stolen = hist.stolen
    BY <1>3 DEF TakeExt, TakeRaw, TakeLegacy, NextFrame, Now, HistTypes
  <2>2. worker'[q].pc \in {"count", "lock", "flush"} /\ \A r \in Queue : r # q => worker'[r] = worker[r]
    <3>1. Min(ring[q]) \in Nat
      BY <1>3, NextNumber DEF TakeExt, TakeRaw, TakeLegacy, NextFrame
    <3>2. GapAt(Min(ring[q])) \in Nat
      BY <3>1, GapIs
    <3> DEFINE n == Min(ring[q])
    <3>3. PICK lost \in Nat, pc \in {"count", "lock", "flush"} : Counted(q, n, lost, pc)
      BY <1>3, <3>2 DEF TakeExt, TakeRaw, TakeLegacy
    <3>4. n \in Nat /\ pc \in WorkerPc
      BY <3>1 DEF WorkerPc
    <3> HIDE DEF n
    <3> QED
      BY <3>3, <3>4, CountedIs
  <2> QED
    BY <2>1, <2>2, LockFrame DEF Adding
<1>4. ASSUME NEW q \in Queue,
             Count(q) \/ LoadInitialized(q) \/ CasMin(q) \/ SetInitialized(q) \/ RaiseMax(q) \/ LowerMin(q)
      PROVE  LockInv'
  <2>1. Race /\ UNCHANGED <<stats, main>> /\ worker[q].pc \in {"count"} \cup Tracking
    BY <1>4 DEF Count, LoadInitialized, CasMin, SetInitialized, RaiseMax, LowerMin, Now, Tracking
  <2>2. hist'.wiped = hist.wiped /\ hist'.stolen = hist.stolen
    BY <2>1, RaceIs
  <2>3. \E pc \in {"first", "max", "cas", "set", "min", "flush"} : Goto(q, pc)
    BY <1>4 DEF Count, LoadInitialized, CasMin, SetInitialized, RaiseMax, LowerMin
  <2>4. worker'[q].pc \in {"first", "max", "cas", "set", "min", "flush"}
        /\ \A r \in Queue : r # q => worker'[r] = worker[r]
    BY <2>3, GotoIs DEF WorkerPc
  <2> QED
    BY <2>1, <2>2, <2>4, LockFrame DEF Adding, Tracking
<1>5. ASSUME NEW q \in Queue, Flush(q) \/ NoFlush(q) \/ Leave(q) PROVE LockInv'
  <2>1. UNCHANGED <<stats, main, hist>> /\ worker[q].pc \in {"poll", "flush"}
    BY <1>5 DEF Flush, NoFlush, Leave, FlushDue, Now
  <2>2. worker'[q].pc \in {"lock", "poll", "done"} /\ \A r \in Queue : r # q => worker'[r] = worker[r]
    BY <1>5, GotoIs DEF Flush, NoFlush, Leave, WorkerPc
  <2> QED
    BY <2>1, <2>2, LockFrame DEF Adding
<1>6. ASSUME NEW q \in Queue, Check(q) PROVE LockInv'
  <2>1. UNCHANGED <<stats, main>> /\ worker[q].pc = "check" /\ hist'.wiped = hist.wiped
        /\ hist'.stolen = hist.stolen
    BY <1>6 DEF Check, Now, HistTypes
  <2>2. worker'[q].pc \in {"lock2", "poll"} /\ \A r \in Queue : r # q => worker'[r] = worker[r]
    BY <1>6, CheckIs
  <2> QED
    BY <2>1, <2>2, LockFrame DEF Adding
<1>7. ASSUME NEW q \in Queue, Lock(q) PROVE LockInv'
  <2>1. /\ worker[q].pc \in {"lock", "lock2"} /\ worker'[q].pc \in Adding /\ worker'[q].read = stats.sum
        /\ \A r \in Queue : r # q => worker'[r] = worker[r]
    BY <1>7, LockIs DEF Lock, Adding
  <2>2. ~stats.locked /\ stats'.locked = TRUE /\ stats'.sum = stats.sum /\ UNCHANGED <<main, hist>>
    BY <1>7 DEF Lock, StatsTypes
  <2>3. ~hist.stolen => main.pc \notin {"wipe", "spin_init"} /\ \A r \in Queue : worker[r].pc \notin Adding
    BY <2>2 DEF LockInv
  <2>4. "check" \notin Adding
    BY DEF Adding
  <2> HIDE DEF PortTypes
  <2> QED
    BY <2>1, <2>2, <2>3, <2>4 DEF LockInv
<1>8. ASSUME NEW q \in Queue, AddUnlock(q) PROVE LockInv'
  <2>1. /\ worker[q].pc \in Adding /\ worker'[q].pc \in {"check", "poll"} /\ worker'[q].add = NoStats
        /\ \A r \in Queue : r # q => worker'[r] = worker[r]
    BY <1>8, AddIs DEF AddUnlock, Adding
  <2>2. stats'.locked = FALSE /\ UNCHANGED <<main, hist>>
    BY <1>8 DEF AddUnlock
  <2>3. ~hist.stolen => main.pc \notin {"wipe", "spin_init"} /\ \A r \in Queue : worker'[r].pc \notin Adding
    <3>1. "check" \notin Adding /\ "poll" \notin Adding
      BY DEF Adding
    <3> QED
      BY <2>1, <3>1 DEF LockInv
  <2> HIDE DEF PortTypes
  <2> QED
    BY <2>1, <2>2, <2>3 DEF LockInv
<1>9. CASE Main
  <2>1. worker' = worker
    BY <1>9 DEF Main, Report, Load, ResetLock, ResetWipe, ResetSpinInit, ResetUnlock, ResetTracking, Stop, KeepMain
  <2>2. CASE Stop
    BY <2>2 DEF Stop, LockInv
  <2>3. CASE Report \/ Load
    <3>1. /\ main.pc \in {"loop", "report"} /\ main'.pc \in {"loop", "report"} /\ main'.warm = main.warm
          /\ stats' = stats /\ hist'.wiped = hist.wiped /\ hist'.stolen = hist.stolen
      BY <2>3 DEF Report, Load, MainAt, MainTypes, HistTypes
    <3> HIDE DEF PortTypes
    <3> QED
      BY <2>1, <3>1 DEF LockInv
  <2>4. CASE ResetLock
    <3>1. /\ main.pc = "loop" /\ main.warm /\ main'.pc = "wipe" /\ main'.warm = main.warm
          /\ ~stats.locked /\ stats'.locked = TRUE /\ stats'.sum = stats.sum /\ hist' = hist
      BY <2>4 DEF ResetLock, MainAt, MainTo, MainTypes, StatsTypes
    <3> HIDE DEF PortTypes
    <3> QED
      BY <2>1, <3>1 DEF LockInv
  <2>5. CASE ResetWipe
    <3>1. /\ main.pc = "wipe" /\ main'.pc = "spin_init" /\ main'.warm = main.warm
          /\ stats'.locked = TRUE /\ hist'.stolen = hist.stolen
      BY <2>5 DEF ResetWipe, MainAt, MainTo, MainTypes, HistTypes
    <3> HIDE DEF PortTypes
    <3> QED
      BY <2>1, <3>1 DEF LockInv
  <2>6. CASE ResetSpinInit
    <3>1. /\ main.pc = "spin_init" /\ main'.pc = "unlock" /\ main'.warm = main.warm
          /\ stats'.locked = FALSE /\ stats'.sum = stats.sum /\ hist' = hist
      BY <2>6 DEF ResetSpinInit, MainAt, MainTo, MainTypes, StatsTypes
    <3> HIDE DEF PortTypes
    <3> QED
      BY <2>1, <3>1 DEF LockInv
  <2>7. CASE ResetUnlock
    <3>1. /\ main.pc = "unlock" /\ main'.pc = "min" /\ main'.warm = main.warm
          /\ stats'.locked = FALSE /\ stats'.sum = stats.sum /\ hist'.stolen = stats.locked
          /\ hist'.wiped = hist.wiped
      BY <2>7 DEF ResetUnlock, MainAt, MainTo, MainTypes, StatsTypes, HistTypes
    <3> HIDE DEF PortTypes
    <3> QED
      BY <2>1, <3>1 DEF LockInv
  <2>8. CASE ResetTracking
    <3>1. /\ main.pc \in {"min", "max", "count", "init"} /\ main'.pc \in {"max", "count", "init", "loop"}
          /\ main'.warm = FALSE
          /\ stats' = stats /\ hist'.wiped = hist.wiped /\ hist'.stolen = hist.stolen
      <4>1. main.pc \in {"min", "max", "count", "init"} /\ Cleared[main.pc] \in {"max", "count", "init", "loop"}
        BY <2>8 DEF ResetTracking, Cleared
      <4>2. hist'.wiped = hist.wiped /\ hist'.stolen = hist.stolen
        BY <2>8 DEF ResetTracking, HistTypes
      <4> QED
        BY <2>8, <4>1, <4>2 DEF ResetTracking, MainTypes
    <3> HIDE DEF PortTypes
    <3> QED
      BY <2>1, <3>1 DEF LockInv
  <2> QED
    BY <1>9, <2>2, <2>3, <2>4, <2>5, <2>6, <2>7, <2>8 DEF Main
<1> QED
  BY <1>1, <1>2, <1>3, <1>4, <1>5, <1>6, <1>7, <1>8, <1>9 DEF Next, Worker

(* The gaps *)

\* Raw-socket packets and the legacy worker's are followed by an expected number, and served in
\* order where there is one queue for them.
Follows == flow = "raw" \/ mode = "legacy"
Serial == mode \in {"one", "legacy"}
Unchecked == {"lock", "add", "check"}

\* A raw-socket packet is counted and checked one by one; no other packet is checked.
Steady(q) ==
    IF flow = "raw"
    THEN /\ worker[q].pc \in Unchecked \cup {"poll", "lock2", "add2", "done"}
         /\ worker[q].pc \in Unchecked => worker[q].seq \in hist.taken
    ELSE worker[q].pc # "check"
FlowInv == (flow = "ext" => placed = {}) /\ \A q \in Queue : Steady(q)

SerialInv ==
    Follows /\ Serial =>
        /\ home \in Queue
        /\ \A q \in Queue : q # home => ring[q] = {} /\ (flow = "raw" => worker[q].pc \in {"poll", "done"})
        /\ \A n \in hist.taken : n < sent /\ (\A m \in ring[home] \cup placed : n < m)
        /\ \A n \in ring[home] : n < sent /\ (\A m \in placed : n < m)
        /\ \A n \in placed : n < sent

\* What the numbers K, the highest of them M, have shown.
Holes(K, M) == {n \in hist.first..M : n \notin K}
TopIs(K, M) ==
    /\ M \in K /\ \A n \in K : n <= M
    /\ hist.first \in K /\ source.expected <= M + 1
    /\ Cardinality(Holes(K, M)) <= Everywhere.lost
    /\ Serial => source.expected = M + 1 /\ Cardinality(Holes(K, M)) = Everywhere.lost

\* K are the numbers whose gap has been counted.
CheckedIs(K) ==
    /\ \A n \in hist.taken : n \in K \/ (flow = "raw" /\ Holding(n, Unchecked))
    /\ Serial /\ flow = "raw" =>
         \A q \in Queue : worker[q].pc \in Unchecked => \A n \in K : n < worker[q].seq
    /\ source.init <=> K # {}
    /\ IF K = {} THEN Everywhere.lost = 0 ELSE \E M \in K : TopIs(K, M)

GapsInv == Follows /\ ~hist.stolen => \E K \in SUBSET hist.taken : CheckedIs(K)
CountsInv == ~hist.stolen => Everywhere.rx = hist.takes

GapInv == FlowInv /\ SerialInv /\ GapsInv /\ CountsInv

-----------------------------------------------------------------------------
\* Numbers that were taken are finitely many.
LEMMA TakenIs ==
    ASSUME HistTypes, NEW K \in SUBSET hist.taken
    PROVE  K \in SUBSET Nat /\ IsFiniteSet(K) /\ K \in SUBSET Number
BY NumbersAre DEF HistTypes

\* The holes are finitely many.
LEMMA HolesAre ==
    ASSUME HistTypes, NEW M \in Nat, NEW K
    PROVE  /\ IsFiniteSet(Holes(K, M)) /\ Cardinality(Holes(K, M)) \in Nat
           /\ Holes(K, M) \in SUBSET (hist.first..M)
<1>1. hist.first \in Nat
  BY DEF HistTypes
<1>2. IsFiniteSet(hist.first..M)
  BY <1>1, FS_Interval
<1>3. Holes(K, M) \in SUBSET (hist.first..M)
  BY DEF Holes
<1> QED
  BY <1>2, <1>3, FS_Subset, FS_CardinalityType

\* A number is checked: its gap is added, and it is followed by the next.
LEMMA GapAdded ==
    ASSUME GvsTypes, HistTypes, HistTypes', NEW K \in SUBSET hist.taken, NEW s \in Nat,
           source.init <=> K # {}, Follow(s), hist'.first = First(s), UNCHANGED mode,
           IF K = {} THEN Everywhere.lost = 0 ELSE \E M \in K : TopIs(K, M),
           Serial => \A n \in K : n < s,
           Everywhere.lost \in Nat, Everywhere'.lost = Everywhere.lost + GapAt(s)
    PROVE  source'.init /\ \E M \in K \cup {s} : TopIs(K \cup {s}, M)'
<1> DEFINE T == K \cup {s}
           x == source.expected
           l == Everywhere.lost
           j == Everywhere'.lost
           a == hist.first
           b == hist'.first
<1>1. /\ source' = [init |-> TRUE, expected |-> s + 1] /\ source'.init /\ source'.expected = s + 1
      /\ x \in Nat /\ source.init \in BOOLEAN /\ K \in SUBSET Nat /\ l \in Nat
      /\ a \in Nat /\ b \in Nat /\ Serial' = Serial
  BY TakenIs DEF Follow, GvsTypes, HistTypes, Serial
<1>2. j = l + GapAt(s)
  OBVIOUS
<1>3. \A M : TopIs(T, M)' <=>
        /\ M \in T /\ \A n \in T : n <= M
        /\ b \in T /\ s + 1 <= M + 1
        /\ Cardinality({n \in b..M : n \notin T}) <= j
        /\ Serial => s + 1 = M + 1 /\ Cardinality({n \in b..M : n \notin T}) = j
  <2>1. \A M : Holes(T, M)' = {n \in b..M : n \notin T}
    BY DEF Holes
  <2> QED
    BY <1>1, <2>1 DEF TopIs
<1>4. CASE K = {}
  <2>1. GapAt(s) = 0 /\ b = s /\ l = 0
    BY <1>1, <1>4 DEF GapAt, First
  <2>2. T = {s}
    BY <1>4
  <2> HIDE DEF T, b, j, l
  <2>3. {n \in b..s : n \notin T} = {}
    BY <2>1, <2>2
  <2>4. Cardinality({n \in b..s : n \notin T}) = 0
    BY <2>3, FS_EmptySet
  <2>5. j = 0
    BY <1>2, <2>1
  <2>6. TopIs(T, s)'
    <3>1. s \in T /\ (\A n \in T : n <= s) /\ b \in T /\ s + 1 <= s + 1
      BY <2>1, <2>2
    <3>2. /\ Cardinality({n \in b..s : n \notin T}) <= j
          /\ Cardinality({n \in b..s : n \notin T}) = j
      BY <2>4, <2>5
    <3> QED
      BY <1>3, <3>1, <3>2
  <2> QED
    BY <1>1, <2>2, <2>6 DEF T
<1>5. CASE K # {}
  <2>1. PICK M \in K : TopIs(K, M)
    BY <1>5
  <2> DEFINE H == Holes(K, M)
             c == Cardinality(H)
  <2>2. /\ M \in Nat /\ (\A n \in K : n \in Nat /\ n <= M) /\ a \in K /\ x <= M + 1 /\ a <= M
        /\ c <= l /\ (Serial => x = M + 1 /\ c = l) /\ b = a
    BY <1>1, <1>5, <2>1 DEF TopIs, First
  <2>3. GapAt(s) = IF s > x THEN s - x ELSE 0
    BY <1>1, <1>5 DEF GapAt
  <2>4. IsFiniteSet(H) /\ c \in Nat /\ H = {n \in a..M : n \notin K}
    BY <2>2, HolesAre DEF Holes
  <2>5. Serial => s > M
    BY <2>1, <2>2
  <2>6. b \in T /\ s \in T /\ M \in T
    BY <2>1, <2>2
  <2>7. CASE s > M
    <3> DEFINE N == {n \in b..s : n \notin T}
               I == (M + 1)..(s - 1)
    <3>1. N = H \cup I /\ H \cap I = {}
      <4> HIDE DEF H, x, l, j, a, b, c
      <4> QED
        BY <1>1, <2>2, <2>4, <2>7
    <3>2. IsFiniteSet(I) /\ Cardinality(I) = s - 1 - M
      <4>1. M + 1 \in Int /\ s - 1 \in Int
        BY <2>2
      <4>2. IsFiniteSet(I) /\ Cardinality(I) = IF M + 1 > s - 1 THEN 0 ELSE s - 1 - (M + 1) + 1
        BY <4>1, FS_Interval
      <4> HIDE DEF I
      <4> QED
        BY <2>2, <2>7, <4>2
    <3> HIDE DEF N, H, I, T, x, l, j, a, b
    <3>3. Cardinality(N) = c + (s - 1 - M)
      <4>1. Cardinality(N) = Cardinality(H) + Cardinality(I) - Cardinality(H \cap I)
        BY <2>4, <3>1, <3>2, FS_Union
      <4>2. Cardinality(H \cap I) = 0
        BY <3>1, FS_EmptySet
      <4> QED
        BY <2>2, <2>4, <2>7, <3>2, <4>1, <4>2
    <3> HIDE DEF c
    <3>4. Cardinality(N) <= j /\ (Serial => Cardinality(N) = j)
      <4>1. GapAt(s) = s - x
        <5>1. s > x \/ (s = M + 1 /\ x = s)
          BY <1>1, <2>2, <2>7
        <5> QED
          BY <1>1, <2>3, <5>1
      <4> QED
        BY <1>1, <1>2, <2>2, <2>4, <3>3, <4>1
    <3>5. \A n \in T : n <= s
      BY <2>2, <2>7 DEF T
    <3>6. TopIs(T, s)'
      <4>1. Cardinality({n \in b..s : n \notin T}) <= j /\ (Serial => Cardinality({n \in b..s : n \notin T}) = j)
        BY <3>4 DEF N
      <4> QED
        BY <1>3, <2>6, <3>5, <4>1
    <3> QED
      BY <1>1, <2>6, <3>6 DEF T
  <2>8. CASE s <= M
    <3> DEFINE N == {n \in b..M : n \notin T}
    <3>1. ~Serial
      BY <2>2, <2>5, <2>8
    <3>2. N \in SUBSET H
      BY <2>2, <2>4
    <3>3. Cardinality(N) <= c /\ Cardinality(N) \in Nat
      BY <2>4, <3>2, FS_Subset, FS_CardinalityType
    <3> HIDE DEF N, H, T, x, l, j, a, b, c
    <3>4. GapAt(s) \in Nat
      BY <1>1, <2>3
    <3>5. Cardinality(N) <= j
      BY <1>1, <1>2, <2>2, <2>4, <3>3, <3>4
    <3>6. (\A n \in T : n <= M) /\ s + 1 <= M + 1
      BY <2>2, <2>8 DEF T
    <3>7. TopIs(T, M)'
      BY <1>3, <2>6, <3>1, <3>5, <3>6 DEF N
    <3>8. M \in K \cup {s}
      BY <2>1
    <3> QED
      BY <1>1, <3>7, <3>8, Zenon DEF T
  <2>9. s > M \/ s <= M
    BY <2>2
  <2> QED
    BY <2>7, <2>8, <2>9
<1> QED
  BY <1>4, <1>5

\* A step that counts nothing new, checks nothing, and takes nothing into or out of the hand.
LEMMA GapsFrame ==
    ASSUME GapsInv, CountsInv, UNCHANGED <<flow, mode, source>>,
           hist'.first = hist.first, hist'.taken = hist.taken, hist'.takes = hist.takes,
           ~hist'.stolen => ~hist.stolen /\ Everywhere' = Everywhere,
           flow = "raw" => \A q \in Queue : worker[q].pc \in Unchecked \/ worker'[q].pc \in Unchecked =>
             worker[q].pc \in Unchecked /\ worker'[q].pc \in Unchecked /\ worker'[q].seq = worker[q].seq
    PROVE  GapsInv' /\ CountsInv'
<1>1. CountsInv'
  BY DEF CountsInv
<1>2. ASSUME Follows, ~hist'.stolen PROVE \E K \in SUBSET hist.taken : CheckedIs(K)'
  <2>1. PICK K \in SUBSET hist.taken : CheckedIs(K)
    BY <1>2 DEF GapsInv
  <2>2. \A n : flow = "raw" /\ Holding(n, Unchecked) => Holding(n, Unchecked)'
    BY DEF Holding, Unchecked
  <2>3. Everywhere' = Everywhere /\ Serial' = Serial
    BY <1>2 DEF Serial
  <2>4. \A M : TopIs(K, M)' <=> TopIs(K, M)
    <3>1. \A M : Holes(K, M)' = Holes(K, M)
      BY DEF Holes
    <3> QED
      BY <2>3, <3>1 DEF TopIs
  <2>5. Serial /\ flow = "raw" =>
          \A q \in Queue : worker'[q].pc \in Unchecked => \A n \in K : n < worker'[q].seq
    BY <2>1 DEF CheckedIs
  <2>6. CheckedIs(K)'
    BY <2>1, <2>2, <2>3, <2>4, <2>5 DEF CheckedIs, Unchecked
  <2> QED
    BY <2>6
<1>3. Follows' = Follows
  BY DEF Follows
<1> QED
  BY <1>1, <1>2, <1>3 DEF GapsInv

\* A step of one worker that leaves rings and numbers alone.
LEMMA SerialFrame ==
    ASSUME FlowInv, SerialInv, NEW q \in Queue, \A r \in Queue : r # q => worker'[r] = worker[r],
           UNCHANGED <<flow, mode, home, sent, placed, ring>>, hist'.taken = hist.taken,
           Steady(q)',
           flow = "raw" /\ worker[q].pc \in {"poll", "done"} => worker'[q].pc \in {"poll", "done"}
    PROVE  FlowInv' /\ SerialInv'
<1>1. \A r \in Queue : Steady(r)'
  BY DEF FlowInv, Steady
<1>2. FlowInv'
  BY <1>1 DEF FlowInv
<1>3. SerialInv'
  <2> SUFFICES ASSUME Follows, Serial PROVE SerialInv'
    BY DEF SerialInv, Follows, Serial
  <2>1. \A r \in Queue : r # home => ring[r] = {} /\ (flow = "raw" => worker'[r].pc \in {"poll", "done"})
    BY DEF SerialInv
  <2> QED
    BY <2>1 DEF SerialInv
<1> QED
  BY <1>2, <1>3

\* The senders.
LEMMA SenderGaps ==
    ASSUME PortTypes, PortTypes', GapInv, Sender
    PROVE  GapInv'
<1>1. /\ UNCHANGED <<flow, mode, home, source, stats, worker, main>>
      /\ hist'.first = hist.first /\ hist'.taken = hist.taken /\ hist'.takes = hist.takes
      /\ hist'.stolen = hist.stolen /\ hist'.wiped = hist.wiped
  BY DEF Sender, ExtSend, RawPlace, RawKick, Emit, PortTypes, HistTypes
<1>2. Everywhere' = Everywhere
  BY <1>1 DEF Everywhere
<1>3. GapsInv' /\ CountsInv'
  BY <1>1, <1>2, GapsFrame DEF GapInv
<1>4. FlowInv'
  <2>1. flow = "ext" => placed' = {}
    BY DEF GapInv, FlowInv, Sender, ExtSend, RawPlace, RawKick
  <2> QED
    BY <1>1, <2>1 DEF GapInv, FlowInv, Steady, Unchecked
<1>5. SerialInv'
  <2> SUFFICES ASSUME Follows, Serial PROVE SerialInv'
    BY <1>1 DEF SerialInv, Follows, Serial
  <2>1. /\ home \in Queue
        /\ \A q \in Queue : q # home => ring[q] = {} /\ (flow = "raw" => worker[q].pc \in {"poll", "done"})
        /\ \A n \in hist.taken : n < sent /\ (\A m \in ring[home] \cup placed : n < m)
        /\ \A n \in ring[home] : n < sent /\ (\A m \in placed : n < m)
        /\ \A n \in placed : n < sent
    BY DEF GapInv, SerialInv
  <2>2. /\ sent \in Nat /\ hist.taken \in SUBSET Nat /\ placed \in SUBSET Nat
        /\ \A q \in Queue : ring[q] \in SUBSET Nat
    <3>1. Number \subseteq Nat /\ MaxPackets \in Nat
      BY NumbersAre, RawPortAssumption
    <3>2. sent \in 0..MaxPackets /\ hist.taken \in SUBSET Number /\ placed \in SUBSET Number
      BY DEF PortTypes, ConfTypes, HistTypes
    <3>3. \A q \in Queue : ring[q] \in SUBSET Number
      BY DEF PortTypes, ConfTypes
    <3>4. \A S \in SUBSET Number : S \in SUBSET Nat
      BY <3>1
    <3>5. sent \in Nat
      BY <3>1, <3>2
    <3> QED
      BY <3>2, <3>3, <3>4, <3>5
  <2>3. Deliveries = {{home}}
    BY DEF Deliveries, Serial
  <2> DEFINE Parts == /\ \A q \in Queue : q # home => ring'[q] = {}
                      /\ \A n \in hist.taken : n < sent' /\ (\A m \in ring'[home] \cup placed' : n < m)
                      /\ \A n \in ring'[home] : n < sent' /\ (\A m \in placed' : n < m)
                      /\ \A n \in placed' : n < sent'
  <2>4. ASSUME NEW P \in SUBSET Number, Emit(P)
        PROVE  /\ \A q \in Queue : q # home => ring'[q] = {}
               /\ \A n \in ring'[home] : n \in ring[home] \/ n \in P
    <3>1. PICK lost \in SUBSET P, to \in [P -> Deliveries] :
            ring' = [q \in Queue |-> ring[q] \cup {n \in P \ lost : q \in to[n]}]
      BY <2>4 DEF Emit
    <3>2. \A n \in P : to[n] = {home}
      BY <2>3, <3>1
    <3> QED
      BY <2>1, <3>1, <3>2
  <2>5. Parts
    <3>1. CASE ExtSend
      <4>1. sent' = sent + 1 /\ Emit({sent}) /\ placed' = placed /\ flow = "ext" /\ sent < MaxPackets
        BY <3>1 DEF ExtSend
      <4>2. {sent} \in SUBSET Number
        <5>1. MaxPackets \in Nat
          BY RawPortAssumption
        <5>2. sent \in 0..(MaxPackets - 1)
          BY <2>2, <4>1, <5>1
        <5> QED
          BY <5>2 DEF Number
      <4>3. \A n \in ring'[home] : n \in ring[home] \/ n = sent
        BY <2>4, <4>1, <4>2
      <4>4. \A q \in Queue : q # home => ring'[q] = {}
        BY <2>4, <4>1, <4>2
      <4>5. placed = {}
        BY <4>1 DEF GapInv, FlowInv
      <4> QED
        BY <2>1, <2>2, <4>1, <4>3, <4>4, <4>5
    <3>2. CASE RawPlace
      <4>1. sent' = sent + 1 /\ placed' = placed \cup {sent} /\ ring' = ring
        BY <3>2 DEF RawPlace
      <4>2. /\ \A n \in placed' : n \in placed \/ n = sent
            /\ \A n \in Nat : n < sent => n < sent + 1
        BY <2>2, <4>1
      <4>3. \A n \in hist.taken : \A m \in ring[home] \cup placed' : n < m
        BY <2>1, <4>2
      <4> QED
        BY <2>1, <2>2, <4>1, <4>2, <4>3
    <3>3. CASE RawKick
      <4>1. sent' = sent /\ placed' = {} /\ Emit(placed) /\ placed \in SUBSET Number
        BY <3>3 DEF RawKick, PortTypes, ConfTypes
      <4>2. /\ \A q \in Queue : q # home => ring'[q] = {}
            /\ \A n \in ring'[home] : n \in ring[home] \/ n \in placed
        BY <2>4, <4>1
      <4> QED
        BY <2>1, <4>1, <4>2
    <3> QED
      BY <3>1, <3>2, <3>3 DEF Sender
  <2> QED
    BY <1>1, <2>1, <2>5 DEF SerialInv
<1> QED
  BY <1>3, <1>4, <1>5 DEF GapInv

\* What a worker takes is larger than what was taken before, where one queue serves in order.
LEMMA TakeInOrder ==
    ASSUME PortTypes, GapInv, NEW q \in Queue, NextFrame(q), Follows, Serial
    PROVE  /\ q = home /\ \A m \in hist.taken : m < Min(ring[q])
           /\ Min(ring[q]) < sent /\ \A m \in ring'[q] \cup placed : Min(ring[q]) < m
           /\ \A r \in Queue : r # q => ring'[r] = {} /\ (flow = "raw" => worker[r].pc \in {"poll", "done"})
           /\ \A m \in hist.taken : m < sent /\ (\A k \in ring'[q] \cup placed : m < k)
           /\ \A m \in ring'[q] : m < sent /\ (\A k \in placed : m < k)
           /\ \A m \in placed : m < sent
<1> DEFINE n == Min(ring[q])
<1>1. /\ home \in Queue
      /\ \A r \in Queue : r # home => ring[r] = {} /\ (flow = "raw" => worker[r].pc \in {"poll", "done"})
      /\ \A m \in hist.taken : m < sent /\ (\A k \in ring[home] \cup placed : m < k)
      /\ \A m \in ring[home] : m < sent /\ (\A k \in placed : m < k)
      /\ \A m \in placed : m < sent
  BY DEF GapInv, SerialInv
<1>2. /\ n \in ring[q] /\ n \in Nat /\ (\A m \in ring[q] : n <= m)
      /\ ring[q] \subseteq Number /\ Number \subseteq Nat
      /\ ring[q] # {} /\ ring' = [ring EXCEPT ![q] = @ \ {n}] /\ ring \in [Queue -> SUBSET Number]
  BY NextNumber, NumbersAre DEF NextFrame, PortTypes, ConfTypes
<1> HIDE DEF n
<1>3. q = home
  BY <1>1, <1>2
<1>4. ring'[q] = ring[q] \ {n} /\ \A r \in Queue : r # q => ring'[r] = ring[r]
  BY <1>2
<1>5. \A m \in ring'[q] : m \in ring[q] /\ n < m
  BY <1>2, <1>4
<1> QED
  BY <1>1, <1>2, <1>3, <1>4, <1>5 DEF n

\* Taking a packet whose VL-ID is followed keeps the order.
LEMMA TakeOrder ==
    ASSUME PortTypes, GapInv, NEW q \in Queue, NextFrame(q), Follows,
           \A r \in Queue : r # q => worker'[r] = worker[r], Steady(q)',
           hist'.taken = hist.taken \cup {Min(ring[q])}
    PROVE  FlowInv' /\ SerialInv'
<1>1. UNCHANGED <<flow, mode, home, sent, placed>>
  BY DEF NextFrame, Keep
<1>2. \A r \in Queue : Steady(r)'
  BY <1>1 DEF GapInv, FlowInv, Steady
<1>3. FlowInv'
  BY <1>1, <1>2 DEF GapInv, FlowInv
<1>4. ASSUME Serial PROVE SerialInv'
  <2> DEFINE n == Min(ring[q])
  <2>1. /\ q = home /\ (\A m \in hist.taken : m < n)
        /\ n < sent /\ (\A m \in ring'[q] \cup placed : n < m)
        /\ \A r \in Queue : r # q => ring'[r] = {} /\ (flow = "raw" => worker[r].pc \in {"poll", "done"})
        /\ \A m \in hist.taken : m < sent /\ (\A k \in ring'[q] \cup placed : m < k)
        /\ \A m \in ring'[q] : m < sent /\ (\A k \in placed : m < k)
        /\ \A m \in placed : m < sent
    BY <1>4, TakeInOrder
  <2>2. hist'.taken = hist.taken \cup {n}
    OBVIOUS
  <2> HIDE DEF n
  <2> QED
    BY <1>1, <2>1, <2>2 DEF SerialInv
<1>5. Serial' = Serial
  BY <1>1 DEF Serial
<1> QED
  BY <1>3, <1>4, <1>5 DEF SerialInv

\* What a packet adds to the counts.
LEMMA TakeCounts ==
    ASSUME PortTypes, PortTypes', NEW q \in Queue, NEW n \in Nat, NEW lost \in Nat, NEW pc \in WorkerPc,
           Counted(q, n, lost, pc), stats' = stats, hist'.wiped = hist.wiped
    PROVE  /\ Everywhere'.rx = Everywhere.rx + 1 /\ Everywhere'.lost = Everywhere.lost + lost
           /\ Everywhere.lost \in Nat
<1>1. /\ worker'[q].add = Plus(worker[q].add, [rx |-> 1, lost |-> lost])
      /\ \A r \in Queue : r # q => worker'[r] = worker[r]
  BY CountedIs DEF PortTypes
<1>2. worker'[q].add.rx = worker[q].add.rx + 1 /\ worker'[q].add.lost = worker[q].add.lost + lost
  BY <1>1 DEF Plus
<1>3. PICK rest \in Stats :
        /\ Everywhere.rx = stats.sum.rx + hist.wiped.rx + worker[q].add.rx + rest.rx
        /\ Everywhere'.rx = stats'.sum.rx + hist'.wiped.rx + worker'[q].add.rx + rest.rx
        /\ Everywhere.lost = stats.sum.lost + hist.wiped.lost + worker[q].add.lost + rest.lost
        /\ Everywhere'.lost = stats'.sum.lost + hist'.wiped.lost + worker'[q].add.lost + rest.lost
  BY <1>1, EverywhereMoves
<1>4. stats.sum \in Stats /\ hist.wiped \in Stats /\ worker[q].add \in Stats /\ \A a \in Stats : a.rx \in Nat /\ a.lost \in Nat
  <2>1. \A a \in Stats : a.rx \in Nat /\ a.lost \in Nat
    BY DEF Stats
  <2> QED
    BY <2>1 DEF PortTypes, StatsTypes, HistTypes, WorkerTypes, WorkerType
<1>5. stats'.sum.rx = stats.sum.rx /\ stats'.sum.lost = stats.sum.lost /\ hist'.wiped.rx = hist.wiped.rx /\ hist'.wiped.lost = hist.wiped.lost
  OBVIOUS
<1>6. Everywhere'.rx = Everywhere.rx + 1
  BY <1>2, <1>3, <1>4, <1>5
<1>7. Everywhere'.lost = Everywhere.lost + lost
  BY <1>2, <1>3, <1>4, <1>5
<1>8. Everywhere.lost \in Nat
  BY <1>3, <1>4
<1> QED
  BY <1>6, <1>7, <1>8

\* Packets that g_vl_seq tracks are only counted.
LEMMA TakeExtGaps ==
    ASSUME PortTypes, PortTypes', GapInv, NEW q \in Queue, TakeExt(q)
    PROVE  GapInv'
<1> DEFINE n == Min(ring[q])
<1>1. /\ UNCHANGED <<flow, mode, placed, stats>> /\ flow = "ext" /\ mode # "legacy"
      /\ Counted(q, n, 0, "count") /\ n \in Nat /\ "count" \in WorkerPc
      /\ hist'.takes = hist.takes + 1 /\ hist'.wiped = hist.wiped /\ hist'.stolen = hist.stolen
  BY NextNumber DEF TakeExt, NextFrame, Keep, PortTypes, HistTypes, WorkerPc
<1>2. worker'[q].pc = "count" /\ \A r \in Queue : r # q => worker'[r] = worker[r]
  BY <1>1, CountedIs DEF PortTypes
<1>3. Everywhere'.rx = Everywhere.rx + 1
  BY <1>1, TakeCounts
<1>4. CountsInv'
  BY <1>1, <1>3 DEF GapInv, CountsInv
<1>5. \A r \in Queue : Steady(r)'
  BY <1>1, <1>2 DEF GapInv, FlowInv, Steady
<1> QED
  BY <1>1, <1>4, <1>5 DEF GapInv, FlowInv, SerialInv, GapsInv, Follows

\* A raw-socket packet is taken into the hand: its gap is not counted yet.
LEMMA TakeRawGaps ==
    ASSUME PortTypes, PortTypes', GapInv, NEW q \in Queue, TakeRaw(q)
    PROVE  GapInv'
<1>0. PICK n \in Nat : n = Min(ring[q])
  BY NextNumber DEF TakeRaw, TakeLegacy, NextFrame, PortTypes
<1>1. /\ UNCHANGED <<flow, mode, source, stats>> /\ flow = "raw" /\ worker[q].pc = "poll"
      /\ Counted(q, n, 0, "lock") /\ n \in Nat /\ "lock" \in WorkerPc /\ NextFrame(q)
      /\ hist'.takes = hist.takes + 1 /\ hist'.wiped = hist.wiped /\ hist'.stolen = hist.stolen
      /\ hist'.first = hist.first /\ hist'.taken = hist.taken \cup {n}
  BY <1>0 DEF TakeRaw, NextFrame, Keep, PortTypes, HistTypes, WorkerPc, Now
<1>2. worker'[q].pc = "lock" /\ worker'[q].seq = n /\ \A r \in Queue : r # q => worker'[r] = worker[r]
  <2>1. WorkerTypes /\ 0 \in Nat
    BY DEF PortTypes
  <2>2. Counted(q, n, 0, "lock") /\ n \in Nat /\ "lock" \in WorkerPc
    BY <1>1
  <2> QED
    BY <2>1, <2>2 DEF Counted, WorkerTypes, WorkerType
<1>3. Everywhere'.rx = Everywhere.rx + 1 /\ Everywhere'.lost = Everywhere.lost
  BY <1>1, TakeCounts
<1>4. CountsInv'
  BY <1>1, <1>3 DEF GapInv, CountsInv
<1>5. Steady(q)'
  BY <1>1, <1>2 DEF Steady, Unchecked
<1>6. FlowInv' /\ SerialInv'
  BY <1>0, <1>1, <1>2, <1>5, TakeOrder DEF Follows
<1>7. ASSUME ~hist.stolen PROVE \E K \in SUBSET hist'.taken : CheckedIs(K)'
  <2>1. PICK K \in SUBSET hist.taken : CheckedIs(K)
    BY <1>1, <1>7 DEF GapInv, GapsInv, Follows
  <2>2. Serial => \A m \in K : m < n
    BY <1>0, <1>1, TakeInOrder DEF Follows
  <2>3. Serial => \A r \in Queue : r # q => worker[r].pc \in {"poll", "done"}
    BY <1>0, <1>1, TakeInOrder DEF Follows
  <2>4. \A M : TopIs(K, M)' <=> TopIs(K, M)
    <3>1. \A M : Holes(K, M)' = Holes(K, M)
      BY <1>1 DEF Holes
    <3>2. Serial' = Serial
      BY <1>1 DEF Serial
    <3> QED
      BY <1>1, <1>3, <3>1, <3>2 DEF TopIs
  <2>5. \A m \in hist'.taken : m \in K \/ Holding(m, Unchecked)'
    <3>1. Holding(n, Unchecked)'
      BY <1>2 DEF Holding, Unchecked
    <3>2. \A m : Holding(m, Unchecked) => Holding(m, Unchecked)'
      BY <1>1, <1>2 DEF Holding, Unchecked
    <3> QED
      BY <1>1, <2>1, <3>1, <3>2 DEF CheckedIs
  <2>6. Serial => \A r \in Queue : worker'[r].pc \in Unchecked => \A m \in K : m < worker'[r].seq
    BY <1>2, <2>2, <2>3 DEF Unchecked
  <2>7. CheckedIs(K)'
    <3>1. Serial' = Serial /\ Unchecked' = Unchecked
      BY <1>1 DEF Serial, Unchecked
    <3> QED
      BY <1>1, <1>3, <2>1, <2>4, <2>5, <2>6, <3>1 DEF CheckedIs
  <2> QED
    BY <1>1, <2>1, <2>7
<1>8. GapsInv'
  BY <1>1, <1>7 DEF GapsInv
<1> QED
  BY <1>4, <1>6, <1>8 DEF GapInv

\* The legacy worker checks the packet as it takes it.
LEMMA TakeLegacyGaps ==
    ASSUME PortTypes, PortTypes', GapInv, NEW q \in Queue, TakeLegacy(q)
    PROVE  GapInv'
<1>0. PICK n \in Nat : n = Min(ring[q])
  BY NextNumber DEF TakeRaw, TakeLegacy, NextFrame, PortTypes
<1>1. /\ UNCHANGED <<flow, mode, stats>> /\ flow = "ext" /\ mode = "legacy"
      /\ Counted(q, n, GapAt(n), "flush") /\ n \in Nat /\ "flush" \in WorkerPc /\ NextFrame(q) /\ Follow(n)
      /\ hist'.takes = hist.takes + 1 /\ hist'.wiped = hist.wiped /\ hist'.stolen = hist.stolen
      /\ hist'.first = First(n) /\ hist'.taken = hist.taken \cup {n}
  BY <1>0 DEF TakeLegacy, NextFrame, Keep, PortTypes, HistTypes, WorkerPc, Now
<1>2. worker'[q].pc = "flush" /\ \A r \in Queue : r # q => worker'[r] = worker[r]
  <2>1. WorkerTypes /\ GapAt(n) \in Nat
    BY <1>1, GapIs DEF PortTypes
  <2>2. Counted(q, n, GapAt(n), "flush") /\ n \in Nat /\ "flush" \in WorkerPc
    BY <1>1
  <2> QED
    BY <2>1, <2>2 DEF Counted, WorkerTypes, WorkerType
<1>3. /\ Everywhere'.rx = Everywhere.rx + 1 /\ Everywhere'.lost = Everywhere.lost + GapAt(n)
      /\ Everywhere.lost \in Nat
  BY <1>1, TakeCounts, GapIs DEF PortTypes
<1>4. CountsInv'
  BY <1>1, <1>3 DEF GapInv, CountsInv
<1>5. Steady(q)'
  BY <1>1, <1>2 DEF Steady
<1>6. FlowInv' /\ SerialInv'
  BY <1>0, <1>1, <1>2, <1>5, TakeOrder DEF Follows
<1>7. ASSUME ~hist.stolen PROVE \E K \in SUBSET hist'.taken : CheckedIs(K)'
  <2>1. PICK K \in SUBSET hist.taken : CheckedIs(K)
    BY <1>1, <1>7 DEF GapInv, GapsInv, Follows
  <2>2. \A m \in K : m < n
    BY <1>0, <1>1, TakeInOrder DEF Follows, Serial
  <2>3. source'.init /\ \E M \in K \cup {n} : TopIs(K \cup {n}, M)'
    <3>1. /\ source.init <=> K # {}
          /\ IF K = {} THEN Everywhere.lost = 0 ELSE \E M \in K : TopIs(K, M)
      BY <2>1 DEF CheckedIs
    <3> QED
      BY <1>1, <1>3, <2>2, <3>1, GapAdded DEF PortTypes
  <2>4. \A m \in hist'.taken : m \in K \cup {n}
    BY <1>1, <2>1 DEF CheckedIs
  <2>5. CheckedIs(K \cup {n})'
    BY <1>1, <2>3, <2>4 DEF CheckedIs
  <2> QED
    BY <1>1, <2>1, <2>5
<1>8. GapsInv'
  BY <1>1, <1>7 DEF GapsInv
<1> QED
  BY <1>4, <1>6, <1>8 DEF GapInv

\* The steps of a worker that take and check nothing.
LEMMA WorkGaps ==
    ASSUME PortTypes, PortTypes', GapInv, NEW q \in Queue, Keep, UNCHANGED <<ring, source>>,
           hist'.first = hist.first, hist'.taken = hist.taken, hist'.takes = hist.takes,
           hist'.stolen = hist.stolen, ~hist.stolen => Everywhere' = Everywhere,
           \A r \in Queue : r # q => worker'[r] = worker[r],
           worker'[q].pc = "check" => flow = "raw" /\ worker[q].pc = "add",
           flow = "raw" => /\ worker'[q].pc \in Unchecked \cup {"poll", "lock2", "add2", "done"}
                           /\ worker[q].pc \in Unchecked <=> worker'[q].pc \in Unchecked
                           /\ worker[q].pc \in Unchecked => worker'[q].seq = worker[q].seq
                           /\ worker[q].pc \in {"poll", "done"} => worker'[q].pc \in {"poll", "done"}
    PROVE  GapInv'
<1>1. UNCHANGED <<flow, mode, home, sent, placed, ring>>
  BY DEF Keep
<1>2. Steady(q)'
  BY <1>1 DEF Steady, GapInv, FlowInv, Unchecked
<1>3. FlowInv' /\ SerialInv'
  BY <1>1, <1>2, SerialFrame DEF GapInv
<1>4. flow = "raw" => \A r \in Queue : worker[r].pc \in Unchecked \/ worker'[r].pc \in Unchecked =>
        worker[r].pc \in Unchecked /\ worker'[r].pc \in Unchecked /\ worker'[r].seq = worker[r].seq
  OBVIOUS
<1>5. GapsInv' /\ CountsInv'
  BY <1>1, <1>4, GapsFrame DEF GapInv
<1> QED
  BY <1>3, <1>5 DEF GapInv

\* The steps of tracking count and check nothing.
LEMMA GotoGaps ==
    ASSUME PortTypes, PortTypes', GapInv, NEW q \in Queue,
           \/ Count(q) \/ LoadInitialized(q) \/ CasMin(q) \/ SetInitialized(q) \/ RaiseMax(q) \/ LowerMin(q)
           \/ Flush(q) \/ NoFlush(q) \/ Leave(q)
    PROVE  GapInv'
<1>1. Keep /\ UNCHANGED <<ring, source, stats>> /\ (Race \/ hist' = hist)
  BY DEF Count, LoadInitialized, CasMin, SetInitialized, RaiseMax, LowerMin, Flush, NoFlush, Leave
<1>2. /\ hist'.first = hist.first /\ hist'.taken = hist.taken /\ hist'.takes = hist.takes
      /\ hist'.stolen = hist.stolen /\ hist'.wiped = hist.wiped
  BY <1>1, RaceIs DEF PortTypes
<1>3. PICK pc \in {"first", "max", "cas", "set", "min", "flush", "lock", "poll", "done"} : Goto(q, pc)
  BY DEF Count, LoadInitialized, CasMin, SetInitialized, RaiseMax, LowerMin, Flush, NoFlush, Leave
<1>4. /\ worker'[q].pc = pc /\ worker'[q].add = worker[q].add
      /\ \A r \in Queue : r # q => worker'[r] = worker[r]
  BY <1>3, GotoIs DEF PortTypes, WorkerPc
<1>5. Everywhere' = Everywhere
  <2>1. \A r \in Queue : worker'[r].add = worker[r].add
    BY <1>4
  <2> QED
    BY <1>1, <1>2, <2>1, EverywhereStays
<1>6. flow = "raw" => worker[q].pc = "poll" /\ worker'[q].pc = "done"
  <2>1. ASSUME flow = "raw" PROVE Leave(q)
    <3>1. worker[q].pc \in Unchecked \cup {"poll", "lock2", "add2", "done"}
      BY <2>1 DEF GapInv, FlowInv, Steady
    <3> QED
      BY <2>1, <3>1 DEF Unchecked, Count, LoadInitialized, CasMin, SetInitialized, RaiseMax, LowerMin,
                        Flush, NoFlush, Leave, Now, FlushDue
  <2>2. ASSUME flow = "raw" PROVE worker'[q].pc = "done"
    BY <2>1, <2>2, GotoIs DEF PortTypes, WorkerPc, Leave
  <2> QED
    BY <2>1, <2>2 DEF Leave, Now
<1>7. worker'[q].pc # "check"
  BY <1>4
<1> QED
  BY <1>1, <1>2, <1>4, <1>5, <1>6, <1>7, WorkGaps DEF Unchecked

\* The lock is taken: nothing is counted.
LEMMA LockGaps == ASSUME PortTypes, PortTypes', GapInv, NEW q \in Queue, Lock(q) PROVE GapInv'
<1>1. /\ Keep /\ UNCHANGED <<ring, source, hist>> /\ stats'.sum = stats.sum /\ worker[q].pc \in {"lock", "lock2"}
  BY DEF Lock, PortTypes, StatsTypes
<1>2. /\ worker'[q].pc = (IF worker[q].pc = "lock" THEN "add" ELSE "add2")
      /\ worker'[q].seq = worker[q].seq /\ worker'[q].add = worker[q].add
      /\ \A r \in Queue : r # q => worker'[r] = worker[r]
  BY LockIs
<1>3. Everywhere' = Everywhere
  <2>1. \A r \in Queue : worker'[r].add = worker[r].add
    BY <1>2
  <2> QED
    BY <1>1, <2>1, EverywhereStays
<1> QED
  BY <1>1, <1>2, <1>3, WorkGaps DEF Unchecked

\* What a worker adds to the statistics leaves its locals.
LEMMA AddGaps == ASSUME PortTypes, PortTypes', LockInv, GapInv, NEW q \in Queue, AddUnlock(q) PROVE GapInv'
<1>1. /\ Keep /\ UNCHANGED <<ring, source, hist>> /\ worker[q].pc \in {"add", "add2"}
      /\ stats'.sum = Plus(worker[q].read, worker[q].add)
  BY DEF AddUnlock
<1>2. /\ worker'[q].pc = (IF flow = "raw" /\ worker[q].pc = "add" THEN "check" ELSE "poll")
      /\ worker'[q].seq = worker[q].seq /\ worker'[q].add = NoStats
      /\ \A r \in Queue : r # q => worker'[r] = worker[r]
  BY AddIs
<1>3. ASSUME ~hist.stolen PROVE Everywhere' = Everywhere
  <2>1. worker[q].read = stats.sum
    BY <1>1, <1>3 DEF LockInv, Adding
  <2>2. PICK rest \in Stats :
          /\ Everywhere.rx = stats.sum.rx + hist.wiped.rx + worker[q].add.rx + rest.rx
          /\ Everywhere'.rx = stats'.sum.rx + hist'.wiped.rx + worker'[q].add.rx + rest.rx
          /\ Everywhere.lost = stats.sum.lost + hist.wiped.lost + worker[q].add.lost + rest.lost
          /\ Everywhere'.lost = stats'.sum.lost + hist'.wiped.lost + worker'[q].add.lost + rest.lost
    BY <1>2, EverywhereMoves
  <2>3. /\ stats.sum.rx \in Nat /\ hist.wiped.rx \in Nat /\ worker[q].add.rx \in Nat /\ rest.rx \in Nat
        /\ stats.sum.lost \in Nat /\ hist.wiped.lost \in Nat /\ worker[q].add.lost \in Nat /\ rest.lost \in Nat
    <3>1. \A a \in Stats : a.rx \in Nat /\ a.lost \in Nat
      BY DEF Stats
    <3>2. stats.sum \in Stats /\ hist.wiped \in Stats /\ worker[q].add \in Stats
      BY DEF PortTypes, StatsTypes, HistTypes, WorkerTypes, WorkerType
    <3> QED
      BY <3>1, <3>2
  <2>4. /\ stats'.sum.rx = stats.sum.rx + worker[q].add.rx /\ stats'.sum.lost = stats.sum.lost + worker[q].add.lost
        /\ worker'[q].add.rx = 0 /\ worker'[q].add.lost = 0
        /\ hist'.wiped.rx = hist.wiped.rx /\ hist'.wiped.lost = hist.wiped.lost
    BY <1>1, <1>2, <2>1 DEF Plus, NoStats
  <2>5. Everywhere'.rx = Everywhere.rx /\ Everywhere'.lost = Everywhere.lost
    BY <2>2, <2>3, <2>4
  <2>6. Everywhere \in Stats /\ Everywhere' \in Stats
    <3>1. EverywhereParts /\ EverywhereParts'
      BY EverywhereIs, PTL
    <3> QED
      BY <3>1 DEF EverywhereParts
  <2> QED
    BY <2>5, <2>6 DEF Stats
<1>4. ~hist.stolen => Everywhere' = Everywhere
  BY <1>3
<1> QED
  BY <1>1, <1>2, <1>4, WorkGaps DEF Unchecked

\* The check counts the gap of the number and follows it.
LEMMA CheckGaps == ASSUME PortTypes, PortTypes', LockInv, GapInv, NEW q \in Queue, Check(q) PROVE GapInv'
<1>0. PICK s \in Nat : s = worker[q].seq
  BY DEF PortTypes, WorkerTypes, WorkerType
<1>1. /\ UNCHANGED <<flow, mode, home, sent, placed, ring, stats>> /\ worker[q].pc = "check" /\ Follow(s)
      /\ hist'.first = First(s) /\ hist'.taken = hist.taken /\ hist'.takes = hist.takes
      /\ hist'.stolen = hist.stolen /\ hist'.wiped = hist.wiped
  BY <1>0 DEF Check, Keep, Now, PortTypes, HistTypes
<1>2. /\ worker'[q].pc \in {"lock2", "poll"} /\ worker'[q].add = [rx |-> 0, lost |-> GapAt(s)]
      /\ \A r \in Queue : r # q => worker'[r] = worker[r]
  BY <1>0, CheckIs
<1>3. flow = "raw" /\ s \in hist.taken
  BY <1>0, <1>1 DEF GapInv, FlowInv, Steady, Unchecked
<1>4. /\ Everywhere'.rx = Everywhere.rx /\ Everywhere'.lost = Everywhere.lost + GapAt(s)
      /\ Everywhere.lost \in Nat
  <2>1. worker[q].add = NoStats
    BY <1>1 DEF LockInv
  <2>2. PICK rest \in Stats :
          /\ Everywhere.rx = stats.sum.rx + hist.wiped.rx + worker[q].add.rx + rest.rx
          /\ Everywhere'.rx = stats'.sum.rx + hist'.wiped.rx + worker'[q].add.rx + rest.rx
          /\ Everywhere.lost = stats.sum.lost + hist.wiped.lost + worker[q].add.lost + rest.lost
          /\ Everywhere'.lost = stats'.sum.lost + hist'.wiped.lost + worker'[q].add.lost + rest.lost
    BY <1>2, EverywhereMoves
  <2>3. /\ stats.sum.rx \in Nat /\ hist.wiped.rx \in Nat /\ rest.rx \in Nat /\ GapAt(s) \in Nat
        /\ stats.sum.lost \in Nat /\ hist.wiped.lost \in Nat /\ rest.lost \in Nat
    <3>1. \A a \in Stats : a.rx \in Nat /\ a.lost \in Nat
      BY DEF Stats
    <3>2. stats.sum \in Stats /\ hist.wiped \in Stats
      BY DEF PortTypes, StatsTypes, HistTypes
    <3> QED
      BY <3>1, <3>2, GapIs DEF PortTypes
  <2>4. /\ worker[q].add.rx = 0 /\ worker[q].add.lost = 0
        /\ worker'[q].add.rx = 0 /\ worker'[q].add.lost = GapAt(s)
        /\ stats'.sum.rx = stats.sum.rx /\ stats'.sum.lost = stats.sum.lost
        /\ hist'.wiped.rx = hist.wiped.rx /\ hist'.wiped.lost = hist.wiped.lost
    BY <1>1, <1>2, <2>1 DEF NoStats
  <2> QED
    BY <2>2, <2>3, <2>4
<1>5. Steady(q)'
  BY <1>1, <1>2, <1>3 DEF Steady, Unchecked
<1>6. FlowInv' /\ SerialInv'
  BY <1>1, <1>2, <1>5, SerialFrame DEF GapInv
<1>7. CountsInv'
  BY <1>1, <1>4 DEF GapInv, CountsInv
<1>8. ASSUME ~hist.stolen PROVE \E K \in SUBSET hist'.taken : CheckedIs(K)'
  <2>1. PICK K \in SUBSET hist.taken : CheckedIs(K)
    BY <1>3, <1>8 DEF GapInv, GapsInv, Follows
  <2>2. Serial => \A m \in K : m < s
    BY <1>0, <1>1, <1>3, <2>1 DEF CheckedIs, Unchecked
  <2>3. Serial => \A r \in Queue : r # q => worker[r].pc \in {"poll", "done"}
    BY <1>1, <1>3 DEF GapInv, SerialInv, Follows
  <2>4. source'.init /\ \E M \in K \cup {s} : TopIs(K \cup {s}, M)'
    <3>1. /\ source.init <=> K # {}
          /\ IF K = {} THEN Everywhere.lost = 0 ELSE \E M \in K : TopIs(K, M)
      BY <2>1 DEF CheckedIs
    <3> QED
      BY <1>1, <1>4, <2>2, <3>1, GapAdded DEF PortTypes
  <2>5. \A m \in hist.taken : m \in K \cup {s} \/ Holding(m, Unchecked)'
    BY <1>0, <1>2, <1>3, <2>1 DEF CheckedIs, Holding
  <2>6. Serial => \A r \in Queue : worker'[r].pc \notin Unchecked
    BY <1>2, <2>3 DEF Unchecked
  <2>7. CheckedIs(K \cup {s})'
    <3>1. Serial' = Serial
      BY <1>1 DEF Serial
    <3> QED
      BY <1>1, <1>3, <2>4, <2>5, <2>6, <3>1 DEF CheckedIs, Unchecked
  <2> QED
    BY <1>1, <1>3, <2>1, <2>7
<1>9. GapsInv'
  BY <1>1, <1>8 DEF GapsInv
<1> QED
  BY <1>6, <1>7, <1>9 DEF GapInv

\* The main thread moves what is counted, or leaves it.
LEMMA MainGaps == ASSUME PortTypes, PortTypes', LockInv, GapInv, Main PROVE GapInv'
<1> USE DEF PortTypes
<1>1. UNCHANGED <<flow, mode, home, sent, placed, ring, source, worker>>
  BY DEF Main, Report, Load, ResetLock, ResetWipe, ResetSpinInit, ResetUnlock, ResetTracking, Stop, KeepMain
<1>2. hist'.first = hist.first /\ hist'.taken = hist.taken /\ hist'.takes = hist.takes
  BY DEF Main, Report, Load, ResetLock, ResetWipe, ResetSpinInit, ResetUnlock, ResetTracking, Stop, HistTypes
<1>3. \A r \in Queue : worker'[r].add = worker[r].add
  BY <1>1
<1>4. ~hist'.stolen => ~hist.stolen /\ Everywhere' = Everywhere
  <2>1. CASE ResetWipe
    <3>1. stats'.sum = NoStats /\ hist'.wiped = stats.sum /\ hist'.stolen = hist.stolen
      BY <2>1 DEF ResetWipe, HistTypes
    <3>2. hist.wiped = NoStats
      BY <2>1 DEF ResetWipe, MainAt, LockInv
    <3>3. Plus(NoStats, stats.sum) = Plus(stats.sum, NoStats)
      <4>1. stats.sum \in Stats
        BY DEF StatsTypes
      <4> HIDE DEF PortTypes
      <4> QED
        BY <4>1 DEF Stats, Plus, NoStats
    <3>4. Everywhere = Plus(Plus(stats.sum, NoStats), Total(Locals)) /\ Everywhere' = Plus(Plus(NoStats, stats.sum), Total(Locals))
      BY <1>1, <3>1, <3>2 DEF Everywhere, Total, Locals
    <3> QED
      BY <3>1, <3>3, <3>4
  <2>2. CASE ResetUnlock
    <3>1. stats'.sum = stats.sum /\ hist'.wiped = hist.wiped /\ ~hist.stolen
      BY <2>2 DEF ResetUnlock, MainAt, LockInv, StatsTypes, HistTypes
    <3> QED
      BY <1>3, <3>1, EverywhereStays
  <2>3. CASE Report \/ Load \/ ResetLock \/ ResetSpinInit \/ ResetTracking \/ Stop
    <3>1. stats'.sum = stats.sum /\ hist'.wiped = hist.wiped /\ hist'.stolen = hist.stolen
      BY <2>3 DEF Report, Load, ResetLock, ResetSpinInit, ResetTracking, Stop, StatsTypes, HistTypes
    <3> QED
      BY <1>3, <3>1, EverywhereStays
  <2> QED
    BY <2>1, <2>2, <2>3 DEF Main
<1> HIDE DEF PortTypes
<1>5. GapsInv' /\ CountsInv'
  BY <1>1, <1>2, <1>4, GapsFrame DEF GapInv
<1>6. FlowInv'
  BY <1>1, <1>2 DEF GapInv, FlowInv, Steady, Unchecked
<1>7. SerialInv'
  <2>1. Follows' = Follows /\ Serial' = Serial
    BY <1>1 DEF Follows, Serial
  <2> QED
    BY <1>1, <1>2, <2>1 DEF GapInv, SerialInv
<1> QED
  BY <1>5, <1>6, <1>7 DEF GapInv

GapsAll == PortTypes /\ LockInv /\ GapInv

\* Nothing is counted at first.
LEMMA GapInit == Init => GapsAll
<1> SUFFICES ASSUME Init PROVE GapsAll
  OBVIOUS
<1>1. PortTypes /\ LockInv /\ Everywhere = NoStats
  BY TypesInit, LockInit
<1>2. /\ placed = {} /\ hist.taken = {} /\ hist.takes = 0 /\ source.init = FALSE /\ sent = 0
      /\ \A q \in Queue : ring[q] = {} /\ worker[q].pc = "poll"
      /\ (mode \in {"one", "legacy"} => home \in Queue)
  BY DEF Init
<1>3. Everywhere.rx = 0 /\ Everywhere.lost = 0
  BY <1>1 DEF NoStats
<1>4. FlowInv
  BY <1>2 DEF FlowInv, Steady, Unchecked
<1>5. SerialInv
  BY <1>2 DEF SerialInv, Serial
<1>6. GapsInv
  <2>1. CheckedIs({})
    BY <1>2, <1>3 DEF CheckedIs
  <2> QED
    BY <2>1 DEF GapsInv
<1>7. CountsInv
  BY <1>2, <1>3 DEF CountsInv
<1> QED
  BY <1>1, <1>4, <1>5, <1>6, <1>7 DEF GapsAll, GapInv

\* Every step keeps what is counted and checked.
LEMMA GapStep == GapsAll /\ [Next]_vars => GapsAll'
<1> SUFFICES ASSUME GapsAll, [Next]_vars PROVE GapsAll'
  OBVIOUS
<1>1. PortTypes /\ PortTypes' /\ LockInv /\ LockInv' /\ GapInv
  BY TypesStep, LockSteps DEF GapsAll
<1>2. GapInv'
  <2>1. CASE UNCHANGED vars
    <3>1. UNCHANGED <<flow, mode, home, sent, placed, ring, source, stats, worker, hist>>
      BY <2>1 DEF vars
    <3>2. Everywhere' = Everywhere
      BY <3>1 DEF Everywhere
    <3>3. GapsInv' /\ CountsInv'
      BY <1>1, <3>1, <3>2, GapsFrame DEF GapInv
    <3>4. FlowInv' /\ SerialInv'
      BY <1>1, <3>1 DEF GapInv, FlowInv, Steady, Unchecked, SerialInv, Follows, Serial
    <3> QED
      BY <3>3, <3>4 DEF GapInv
  <2>2. CASE Sender
    BY <1>1, <2>2, SenderGaps
  <2>3. CASE Main
    BY <1>1, <2>3, MainGaps
  <2>4. ASSUME NEW q \in Queue, Worker(q) PROVE GapInv'
    BY <1>1, <2>4, TakeExtGaps, TakeRawGaps, TakeLegacyGaps, GotoGaps, LockGaps, AddGaps, CheckGaps DEF Worker
  <2> QED
    BY <2>1, <2>2, <2>3, <2>4 DEF Next
<1> QED
  BY <1>1, <1>2 DEF GapsAll

\* At rest every number that was taken has been checked.
LEMMA GapsNow == GapsAll => GapsNotHidden
<1> SUFFICES ASSUME GapsAll, ~hist.stolen, \A q \in Queue : worker[q].pc \in {"poll", "done"}
             PROVE  /\ Everywhere.rx = hist.takes
                    /\ Quiet /\ (flow = "raw" \/ mode = "legacy") /\ hist.taken # {} =>
                         LET holes == {n \in hist.first..Max(hist.taken) : n \notin hist.taken}
                         IN /\ Everywhere.lost >= Cardinality(holes)
                            /\ mode \in {"one", "legacy"} => Everywhere.lost = Cardinality(holes)
  BY DEF GapsNotHidden
<1>1. Everywhere.rx = hist.takes
  BY DEF GapsAll, GapInv, CountsInv
<1>2. ASSUME Follows, hist.taken # {}
      PROVE  LET holes == {n \in hist.first..Max(hist.taken) : n \notin hist.taken}
             IN /\ Everywhere.lost >= Cardinality(holes)
                /\ mode \in {"one", "legacy"} => Everywhere.lost = Cardinality(holes)
  <2>1. PICK K \in SUBSET hist.taken : CheckedIs(K)
    BY <1>2 DEF GapsAll, GapInv, GapsInv
  <2>2. K = hist.taken
    BY <2>1 DEF CheckedIs, Holding, Unchecked
  <2>3. PICK M \in K : TopIs(K, M)
    BY <1>2, <2>1, <2>2 DEF CheckedIs
  <2>4. K \in SUBSET Nat /\ IsFiniteSet(K) /\ M \in Nat /\ \A n \in K : n <= M
    BY <2>3, TakenIs DEF GapsAll, PortTypes, TopIs
  <2>5. Max(hist.taken) = M
    BY <2>2, <2>4, MaxIs
  <2>6. {n \in hist.first..Max(hist.taken) : n \notin hist.taken} = Holes(K, M)
    BY <2>2, <2>5 DEF Holes
  <2>7. Everywhere.lost \in Nat /\ Cardinality(Holes(K, M)) \in Nat
    <3>1. Everywhere \in Stats
      BY EverywhereIs DEF GapsAll, EverywhereParts
    <3> QED
      BY <2>4, <3>1, HolesAre DEF GapsAll, PortTypes, Stats
  <2>8. Everywhere.lost >= Cardinality(Holes(K, M)) /\ (Serial => Everywhere.lost = Cardinality(Holes(K, M)))
    BY <2>3, <2>7 DEF TopIs
  <2> QED
    BY <2>6, <2>8 DEF Serial
<1> QED
  BY <1>1, <1>2 DEF Follows

\* Every packet that a worker took is counted once, and every hole in the numbers of a raw-socket
\* VL-ID is counted as lost, for any number of queues and packets and however the workers interleave.
THEOREM GapsAreCounted == Spec => []GapsNotHidden
<1> QED
  BY GapInit, GapStep, GapsNow, PTL DEF Spec

-----------------------------------------------------------------------------
(* Pacing *)

\* The part of the state that the pacing rests on.
ClocksOK ==
    /\ bucket \in BOOLEAN /\ kind \in {"dpdk", "raw"} /\ clock \in Int
    /\ next_send_time \in [Clock -> Int] /\ earliest \in [Clock -> Int]

IInv == ClocksOK /\ NoBurst

\* Whole periods, skipped from a, lead to less than a period before b, and not beyond it.
LEMMA WholePeriods ==
    ASSUME NEW a \in Int, NEW b \in Int, NEW d \in Nat \ {0}, a <= b
    PROVE  /\ a + ((b - a) \div d) * d \in Int
           /\ a + ((b - a) \div d) * d <= b
           /\ a + ((b - a) \div d) * d > b - d
<1> DEFINE n == b - a
           q == n \div d
           r == n % d
<1>1. n \in Nat
  OBVIOUS
<1>2. q \in Int /\ r \in 0..(d - 1) /\ n = d * q + r
  BY <1>1
<1>3. d * q = q * d /\ q * d \in Int
  BY <1>2
<1>4. q * d <= n /\ q * d > n - d
  BY <1>1, <1>2, <1>3
<1> HIDE DEF q, r
<1>5. a + q * d \in Int /\ a + q * d <= b /\ a + q * d > b - d
  BY <1>3, <1>4
<1> QED
  BY <1>5 DEF q

\* What is skipped leaves the slot where it was, or where it is not late by more than a delay.
LEMMA Skipping ==
    ASSUME ClocksOK, NEW c \in Clock, clock >= next_send_time[c]
    PROVE  /\ SkippedTo(c) \in Int
           /\ SkippedTo(c) >= next_send_time[c]
           /\ SkippedTo(c) >= clock - Limit
<1> USE PacingAssumption
<1>0. /\ DELAY \in Nat \ {0} /\ Limit \in Nat /\ Limit >= DELAY
      /\ next_send_time[c] \in Int /\ clock \in Int
  BY DEF Limit, ClocksOK
<1>1. CASE ~Behind(c)
  BY <1>0, <1>1 DEF SkippedTo, Behind
<1>2. CASE Behind(c) /\ bucket
  <2> DEFINE a == next_send_time[c]
             s == a + ((clock - a) \div DELAY) * DELAY
  <2>1. s \in Int /\ s <= clock /\ s > clock - DELAY
    BY <1>0, WholePeriods
  <2>2. a + Limit < clock
    BY <1>2 DEF Behind
  <2>3. s >= a
    BY <1>0, <2>1, <2>2
  <2>4. SkippedTo(c) = s
    BY <1>2 DEF SkippedTo
  <2> HIDE DEF s
  <2> QED
    BY <1>0, <2>1, <2>3, <2>4
<1>3. CASE Behind(c) /\ ~bucket
  BY <1>0, <1>3 DEF SkippedTo
<1> QED
  BY <1>1, <1>2, <1>3

\* Taking a slot keeps the invariant.
LEMMA TakeKeeps ==
    ASSUME IInv, NEW c \in Clock, clock >= next_send_time[c], Take(c),
           UNCHANGED <<bucket, kind, clock>>
    PROVE  IInv'
<1> USE PacingAssumption
<1> DEFINE s == SkippedTo(c)
<1>1. /\ DELAY \in Nat \ {0} /\ Limit \in Nat /\ Limit' = Limit
      /\ clock \in Int /\ next_send_time[c] \in Int /\ earliest[c] \in Int
  BY DEF IInv, ClocksOK, Limit
<1>2. s \in Int /\ s >= next_send_time[c] /\ s >= clock - Limit
  BY Skipping DEF IInv
<1>3. next_send_time' = [next_send_time EXCEPT ![c] = s + DELAY]
  BY DEF Take
<1> HIDE DEF s
<1>4. CASE earliest' = [earliest EXCEPT ![c] = @ + DELAY]
  <2>1. ClocksOK'
    BY <1>1, <1>2, <1>3, <1>4 DEF IInv, ClocksOK
  <2>2. ASSUME NEW d \in Clock PROVE next_send_time'[d] >= earliest'[d] + DELAY - Limit
    BY <1>1, <1>2, <1>3, <1>4, <2>2 DEF IInv, ClocksOK, NoBurst
  <2> QED
    BY <1>1, <2>1, <2>2 DEF IInv, NoBurst
<1>5. CASE earliest' = [earliest EXCEPT ![c] = clock]
  <2>1. ClocksOK'
    BY <1>1, <1>2, <1>3, <1>5 DEF IInv, ClocksOK
  <2>2. ASSUME NEW d \in Clock PROVE next_send_time'[d] >= earliest'[d] + DELAY - Limit
    BY <1>1, <1>2, <1>3, <1>5, <2>2 DEF IInv, ClocksOK, NoBurst
  <2> QED
    BY <1>1, <2>1, <2>2 DEF IInv, NoBurst
<1> QED
  BY <1>4, <1>5 DEF Take

\* The first slots are times.
LEMMA FirstSlotsAreTimes == \A c \in Clock : FirstSlot(c) \in Int
<1> USE PacingAssumption
<1> SUFFICES ASSUME NEW c \in Clock PROVE FirstSlot(c) \in Int
  OBVIOUS
<1>1. c \in Int /\ STAGGER \in Int /\ DELAY \div Clocks \in Int
  BY DEF Clock
<1>2. c * STAGGER \in Int /\ c * (DELAY \div Clocks) \in Int
  BY <1>1
<1> QED
  BY <1>2 DEF FirstSlot

\* The initial slots: as if each clock had taken one a delay before its first.
LEMMA InitHolds == PacingInit => IInv
<1> USE PacingAssumption
<1> SUFFICES ASSUME PacingInit PROVE IInv
  OBVIOUS
<1>1. \A c \in Clock : FirstSlot(c) \in Int
  BY FirstSlotsAreTimes
<1>2. ClocksOK
  BY <1>1 DEF PacingInit, ClocksOK
<1>3. ASSUME NEW c \in Clock PROVE next_send_time[c] >= earliest[c] + DELAY - Limit
  BY <1>1 DEF PacingInit, Limit
<1> QED
  BY <1>2, <1>3 DEF IInv, NoBurst

\* Every step keeps the invariant; only the actions that take a slot touch its parts.
LEMMA StepKeeps == IInv /\ [PacingNext]_pacingVars => IInv'
<1> SUFFICES ASSUME IInv, [PacingNext]_pacingVars PROVE IInv'
  OBVIOUS
<1>1. CASE Tick
  BY <1>1, PacingAssumption DEF Tick, IInv, ClocksOK, NoBurst, Limit
<1>2. CASE RawTurn
  BY <1>2 DEF RawTurn, IInv, ClocksOK, NoBurst, Limit
<1>3. CASE RawRound
  BY <1>3 DEF RawRound, IInv, ClocksOK, NoBurst, Limit
<1>4. ASSUME NEW c \in Clock, DpdkSlot(c) PROVE IInv'
  BY <1>4, TakeKeeps DEF DpdkSlot
<1>5. ASSUME NEW c \in Clock, RawSlot(c) PROVE IInv'
  <2>1. CASE clock < next_send_time[c]
    BY <1>5, <2>1 DEF RawSlot, IInv, ClocksOK, NoBurst, Limit
  <2>2. CASE ~(clock < next_send_time[c])
    <3>1. clock >= next_send_time[c]
      BY <2>2 DEF IInv, ClocksOK
    <3>2. Take(c) /\ UNCHANGED <<bucket, kind, clock>>
      BY <1>5, <2>2 DEF RawSlot
    <3> QED
      BY <3>1, <3>2, TakeKeeps
  <2> QED
    BY <2>1, <2>2
<1>6. CASE UNCHANGED pacingVars
  BY <1>6 DEF pacingVars, IInv, ClocksOK, NoBurst, Limit
<1> QED
  BY <1>1, <1>2, <1>3, <1>4, <1>5, <1>6 DEF PacingNext

\* For every number of clocks and every rate: no burst beyond what may be made up for.
THEOREM BurstsAreBounded == PacingSpec => []NoBurst
<1>1. IInv => NoBurst
  BY DEF IInv
<1> QED
  BY InitHolds, StepKeeps, <1>1, PTL DEF PacingSpec

-----------------------------------------------------------------------------
(* Phases.                                                                 *)

\* Adding whole periods changes no phase.
LEMMA PhaseOfSum ==
    ASSUME NEW x \in Int, NEW q \in Int, NEW d \in Nat \ {0}, x % d = 0
    PROVE  (x + q * d) % d = 0
<1> DEFINE y == x + q * d
           k == x \div d
           p == y \div d
           r == y % d
<1>1. x = d * k /\ k \in Int /\ d * k \in Int
  OBVIOUS
<1>2. q * d \in Int /\ q * d = d * q /\ y \in Int
  OBVIOUS
<1>3. y = d * p + r /\ p \in Int /\ r \in 0..(d - 1)
  BY <1>2
<1> HIDE DEF k, p, r
<1> DEFINE n == k + q - p
<1>4. n \in Int /\ d * n = d * k + d * q - d * p
  BY <1>1, <1>3
<1>5. d * n = r
  BY <1>1, <1>2, <1>3, <1>4
<1> HIDE DEF n
<1>6. CASE n >= 1
  <2>1. d * n >= d
    BY <1>4, <1>6
  <2> QED
    BY <1>3, <1>5, <2>1
<1>7. CASE n <= -1
  <2>1. d * n <= -d
    BY <1>4, <1>7
  <2> QED
    BY <1>3, <1>5, <2>1
<1>8. CASE n = 0
  BY <1>5, <1>8, <1>3 DEF r
<1> QED
  BY <1>4, <1>6, <1>7, <1>8

PhaseInv == ClocksOK /\ PhaseKept

\* Taking a slot keeps the phases.
LEMMA TakeKeepsPhase ==
    ASSUME PhaseInv, ClocksOK', NEW c \in Clock, Take(c), bucket' = bucket
    PROVE  PhaseInv'
<1> USE PacingAssumption
<1> SUFFICES ASSUME bucket, NEW e \in Clock
             PROVE  (next_send_time'[e] - FirstSlot(e)') % DELAY = 0
  BY DEF PhaseInv, PhaseKept
<1> DEFINE a == next_send_time[c]
           q == IF Behind(c) THEN (clock - a) \div DELAY ELSE 0
<1>1. /\ DELAY \in Nat \ {0} /\ clock \in Int /\ a \in Int
      /\ FirstSlot(e)' = FirstSlot(e) /\ next_send_time[e] \in Int
      /\ (next_send_time[e] - FirstSlot(e)) % DELAY = 0
  BY DEF PhaseInv, PhaseKept, ClocksOK, FirstSlot
<1>2. next_send_time' = [next_send_time EXCEPT ![c] = SkippedTo(c) + DELAY]
  BY DEF Take
<1>3. CASE e # c
  BY <1>1, <1>2, <1>3 DEF PhaseInv, ClocksOK
<1>4. CASE e = c
  <2>1. q \in Int /\ q * DELAY \in Int /\ (q + 1) * DELAY = q * DELAY + DELAY
    <3>1. q \in Int
      BY <1>1
    <3> HIDE DEF q
    <3> QED
      BY <1>1, <3>1
  <2>2. SkippedTo(c) = a + q * DELAY
    BY <1>1, <2>1 DEF SkippedTo
  <2> HIDE DEF q
  <2>3. FirstSlot(c) \in Int
    BY FirstSlotsAreTimes
  <2>4. next_send_time'[c] - FirstSlot(c) = (a - FirstSlot(c)) + (q + 1) * DELAY
    BY <1>1, <1>2, <2>1, <2>2, <2>3 DEF PhaseInv, ClocksOK
  <2>5. a - FirstSlot(c) \in Int /\ (a - FirstSlot(c)) % DELAY = 0
    BY <1>1, <1>4, <2>3
  <2>6. ((a - FirstSlot(c)) + (q + 1) * DELAY) % DELAY = 0
    <3>1. q + 1 \in Int
      BY <2>1
    <3> QED
      BY <1>1, <3>1, <2>5, PhaseOfSum
  <2> QED
    BY <1>1, <1>4, <2>4, <2>6
<1> QED
  BY <1>3, <1>4

\* In every build and however long a worker is held up: the clocks stay in their phases.
LEMMA PhaseInvHolds == PacingSpec => []PhaseInv
<1>1. PacingInit => PhaseInv
  <2> SUFFICES ASSUME PacingInit PROVE PhaseInv
    OBVIOUS
  <2>1. ClocksOK
    BY InitHolds DEF IInv
  <2>2. ASSUME NEW c \in Clock PROVE (next_send_time[c] - FirstSlot(c)) % DELAY = 0
    BY FirstSlotsAreTimes, PacingAssumption DEF PacingInit
  <2> QED
    BY <2>1, <2>2 DEF PhaseInv, PhaseKept
<1>2. PhaseInv /\ ClocksOK' /\ [PacingNext]_pacingVars => PhaseInv'
  <2> SUFFICES ASSUME PhaseInv, ClocksOK', [PacingNext]_pacingVars PROVE PhaseInv'
    OBVIOUS
  <2>1. CASE UNCHANGED <<bucket, next_send_time>>
    BY <2>1 DEF PhaseInv, PhaseKept, FirstSlot
  <2>2. ASSUME NEW c \in Clock, Take(c), bucket' = bucket PROVE PhaseInv'
    BY <2>2, TakeKeepsPhase
  <2> QED
    BY <2>1, <2>2 DEF PacingNext, pacingVars, Tick, RawTurn, RawRound, DpdkSlot, RawSlot
<1>3. PacingSpec => []IInv
  BY InitHolds, StepKeeps, PTL DEF PacingSpec
<1>4. IInv => ClocksOK
  BY DEF IInv
<1> QED
  BY <1>1, <1>2, <1>3, <1>4, PTL DEF PacingSpec

-----------------------------------------------------------------------------
(* The slots that a turn drops.                                            *)

\* The slots that the other targets were granted in this turn.
Granted(c) == {p \in (Clock \ {c}) \X (1..MAX_CATCHUP) : p[2] <= catchup_count[p[1]]}

One(b) == IF b THEN 1 ELSE 0

\* A target that is still to come in this round has dropped a slot only in rounds that
\* were over, each of which had granted one to another target.
Owed(c) ==
    IF at # Outer /\ c >= at THEN dropped[c] + One(any_due) <= Cardinality(Granted(c))
    ELSE dropped[c] = 0 \/ dropped[c] + One(any_due) <= Cardinality(Granted(c)) + 1

TurnOK ==
    /\ bucket \in BOOLEAN /\ at \in Outer..Clocks /\ any_due \in BOOLEAN
    /\ at = Outer => ~any_due
    /\ catchup_count \in [Clock -> 0..MAX_CATCHUP] /\ dropped \in [Clock -> Nat]
    /\ \A c \in Clock : dropped[c] > 0 => ~bucket /\ catchup_count[c] = MAX_CATCHUP
    /\ ~bucket => \A c \in Clock : Owed(c)

\* The others can be granted no more than their shares.
LEMMA GrantedIsBounded ==
    ASSUME NEW c \in Clock
    PROVE  /\ IsFiniteSet(Granted(c)) /\ Cardinality(Granted(c)) \in Nat
           /\ Cardinality(Granted(c)) <= (Clocks - 1) * MAX_CATCHUP
<1> USE PacingAssumption
<1> DEFINE A == Clock \ {c}
           B == 1..MAX_CATCHUP
<1>0. Clocks \in Nat \ {0} /\ MAX_CATCHUP \in Nat \ {0} /\ 0 \in Int /\ Clocks - 1 \in Int
  OBVIOUS
<1>1. IsFiniteSet(Clock) /\ Cardinality(Clock) = Clocks
  <2>1. /\ IsFiniteSet(0..(Clocks - 1))
        /\ Cardinality(0..(Clocks - 1)) = IF 0 > Clocks - 1 THEN 0 ELSE Clocks - 1 - 0 + 1
    BY <1>0, FS_Interval
  <2> QED
    BY <1>0, <2>1 DEF Clock
<1>2. IsFiniteSet(A) /\ Cardinality(A) = Clocks - 1
  BY <1>1, FS_RemoveElement
<1>3. IsFiniteSet(B) /\ Cardinality(B) = MAX_CATCHUP
  <2>1. 1 \in Int /\ MAX_CATCHUP \in Int /\ MAX_CATCHUP >= 1
    OBVIOUS
  <2>2. /\ IsFiniteSet(1..MAX_CATCHUP)
        /\ Cardinality(1..MAX_CATCHUP) =
             IF 1 > MAX_CATCHUP THEN 0 ELSE MAX_CATCHUP - 1 + 1
    BY <2>1, FS_Interval
  <2> QED
    BY <2>1, <2>2
<1>4. IsFiniteSet(A \X B) /\ Cardinality(A \X B) = (Clocks - 1) * MAX_CATCHUP
  <2> HIDE DEF A, B
  <2>1. IsFiniteSet(A \X B) /\ Cardinality(A \X B) = Cardinality(A) * Cardinality(B)
    BY <1>2, <1>3, FS_Product
  <2> QED
    BY <1>2, <1>3, <2>1, Zenon
<1>5. Granted(c) \in SUBSET (A \X B)
  BY DEF Granted
<1> HIDE DEF A, B
<1> QED
  BY <1>4, <1>5, FS_Subset, FS_CardinalityType

\* The slots that a clock has given are finitely many.
LEMMA GrantedIsCounted ==
    ASSUME NEW c \in Clock
    PROVE  Cardinality(Granted(c))' \in Nat
<1> DEFINE A == Clock \ {c}
           B == 1..MAX_CATCHUP
<1>1. IsFiniteSet(A) /\ IsFiniteSet(B)
  <2>1. IsFiniteSet(Clock) /\ IsFiniteSet(1..MAX_CATCHUP)
    BY PacingAssumption, FS_Interval DEF Clock
  <2> QED
    BY <2>1, FS_RemoveElement
<1>2. IsFiniteSet(A \X B)
  BY <1>1, FS_Product
<1>3. Granted(c)' \in SUBSET (A \X B)
  BY DEF Granted
<1> HIDE DEF A, B
<1> QED
  BY <1>2, <1>3, FS_Subset, FS_CardinalityType

\* A slot for one target counts for each of the others, and for itself it does not.
LEMMA GrantedGrows ==
    ASSUME TurnOK, NEW c \in Clock, catchup_count[c] < MAX_CATCHUP,
           catchup_count' = [catchup_count EXCEPT ![c] = @ + 1],
           NEW e \in Clock
    PROVE  Cardinality(Granted(e))' = Cardinality(Granted(e)) + (IF e = c THEN 0 ELSE 1)
<1> USE PacingAssumption
<1>1. CASE e = c
  <2>1. Granted(e)' = Granted(e)
    BY <1>1 DEF Granted, TurnOK
  <2> QED
    BY <1>1, <2>1, GrantedIsBounded
<1>2. CASE e # c
  <2> DEFINE p == <<c, catchup_count[c] + 1>>
  <2>1. catchup_count[c] \in Nat /\ catchup_count[c] + 1 \in 1..MAX_CATCHUP
    BY DEF TurnOK
  <2>2. p \notin Granted(e)
    BY <2>1 DEF Granted
  <2>3. Granted(e)' = Granted(e) \cup {p}
    <3>1. ASSUME NEW q \in (Clock \ {e}) \X (1..MAX_CATCHUP)
          PROVE  q[2] <= catchup_count'[q[1]] <=> q[2] <= catchup_count[q[1]] \/ q = p
      <4>1. CASE q[1] # c
        BY <4>1 DEF TurnOK
      <4>2. CASE q[1] = c
        <5>1. catchup_count'[q[1]] = catchup_count[c] + 1 /\ q[2] \in Int
          BY <4>2 DEF TurnOK
        <5>2. q = p <=> q[2] = catchup_count[c] + 1
          BY <4>2
        <5> QED
          BY <2>1, <4>2, <5>1, <5>2
      <4> QED
        BY <4>1, <4>2
    <3>2. p \in (Clock \ {e}) \X (1..MAX_CATCHUP)
      BY <1>2, <2>1
    <3> QED
      BY <3>1, <3>2 DEF Granted
  <2> QED
    BY <1>2, <2>2, <2>3, GrantedIsBounded, FS_AddElement
<1> QED
  BY <1>1, <1>2

\* What was granted to the others does not change while the counts do not.
LEMMA GrantedStays ==
    ASSUME catchup_count' = catchup_count, NEW e \in Clock
    PROVE  Cardinality(Granted(e))' = Cardinality(Granted(e))
BY DEF Granted

\* A target that is given a slot is owed nothing itself, and the others are owed one more.
LEMMA GiveKeeps ==
    ASSUME TurnOK, NEW c \in Clock, at = c, at' = c + 1, ~bucket, bucket' = bucket,
           catchup_count[c] < MAX_CATCHUP, any_due' = TRUE, dropped' = dropped,
           catchup_count' = [catchup_count EXCEPT ![c] = @ + 1]
    PROVE  TurnOK'
<1> USE PacingAssumption
<1>0. /\ c \in Int /\ 0 <= c /\ c < Clocks /\ dropped[c] \in Nat /\ MAX_CATCHUP \in Nat
      /\ catchup_count[c] \in 0..MAX_CATCHUP
  BY DEF TurnOK, Clock
<1>1. /\ c \in Int /\ 0 <= c /\ c < Clocks /\ dropped[c] = 0
      /\ catchup_count[c] \in 0..MAX_CATCHUP /\ catchup_count[c] + 1 \in 0..MAX_CATCHUP
  BY <1>0 DEF TurnOK
<1>2. catchup_count' \in [Clock -> 0..MAX_CATCHUP] /\ at' \in Outer..Clocks /\ at' # Outer
  BY <1>1 DEF TurnOK, Outer
<1>3. ASSUME NEW e \in Clock PROVE Owed(e)'
  <2>1. Cardinality(Granted(e))' = Cardinality(Granted(e)) + (IF e = c THEN 0 ELSE 1)
    BY GrantedGrows
  <2>2. Cardinality(Granted(e)) \in Nat /\ dropped[e] \in Nat /\ e \in Int
    <3>1. Cardinality(Granted(e)) \in Nat
      BY GrantedIsBounded
    <3>2. dropped \in [Clock -> Nat]
      BY DEF TurnOK
    <3>3. e \in Int
      BY DEF Clock
    <3> QED
      BY <3>1, <3>2, <3>3
  <2>3. Owed(e) /\ at # Outer
    BY <1>1 DEF TurnOK, Outer
  <2> QED
    BY <1>1, <1>2, <2>1, <2>2, <2>3 DEF Owed, One
<1>4. \A e \in Clock : dropped'[e] > 0 => ~bucket' /\ catchup_count'[e] = MAX_CATCHUP
  BY <1>1 DEF TurnOK
<1> QED
  BY <1>2, <1>3, <1>4 DEF TurnOK

\* A target that has had its share drops a slot, and has then been visited in this round.
LEMMA DropKeeps ==
    ASSUME TurnOK, NEW c \in Clock, at = c, at' = c + 1, ~bucket, bucket' = bucket,
           ~(catchup_count[c] < MAX_CATCHUP), UNCHANGED <<any_due, catchup_count>>,
           dropped' = [dropped EXCEPT ![c] = @ + 1]
    PROVE  TurnOK'
<1> USE PacingAssumption
<1>1. /\ c \in Int /\ 0 <= c /\ c < Clocks /\ catchup_count[c] = MAX_CATCHUP
      /\ dropped[c] \in Nat
  BY DEF TurnOK, Clock
<1>2. dropped' \in [Clock -> Nat] /\ at' \in Outer..Clocks /\ at' # Outer
  BY <1>1 DEF TurnOK, Outer
<1>3. ASSUME NEW e \in Clock PROVE Owed(e)'
  <2>1. Cardinality(Granted(e))' = Cardinality(Granted(e))
    BY GrantedStays
  <2>2. Cardinality(Granted(e)) \in Nat /\ dropped[e] \in Nat /\ e \in Int
    <3>1. Cardinality(Granted(e)) \in Nat
      BY GrantedIsBounded
    <3>2. dropped \in [Clock -> Nat]
      BY DEF TurnOK
    <3>3. e \in Int
      BY DEF Clock
    <3> QED
      BY <3>1, <3>2, <3>3
  <2>3. Owed(e) /\ at # Outer
    BY <1>1 DEF TurnOK, Outer
  <2>4. dropped'[e] = IF e = c THEN dropped[c] + 1 ELSE dropped[e]
    BY DEF TurnOK
  <2> QED
    BY <1>1, <1>2, <2>1, <2>2, <2>3, <2>4 DEF Owed, One, TurnOK
<1>4. \A e \in Clock : dropped'[e] > 0 => ~bucket' /\ catchup_count'[e] = MAX_CATCHUP
  BY <1>1 DEF TurnOK
<1> QED
  BY <1>2, <1>3, <1>4 DEF TurnOK

\* A target that is not due, or that takes its slot in a token-bucket build.
LEMMA PassKeeps ==
    ASSUME TurnOK, NEW c \in Clock, at = c, at' = c + 1, bucket' = bucket,
           UNCHANGED <<catchup_count, dropped>>,
           any_due' = any_due \/ (bucket /\ any_due' = TRUE)
    PROVE  TurnOK'
<1> USE PacingAssumption
<1>1. c \in Int /\ 0 <= c /\ c < Clocks /\ bucket \in BOOLEAN
  BY DEF TurnOK, Clock
<1>2. at' \in Outer..Clocks /\ at' # Outer /\ any_due' \in BOOLEAN
  <2>1. any_due' \in BOOLEAN
    BY DEF TurnOK
  <2> QED
    BY <1>1, <2>1 DEF Outer
<1>3. ASSUME ~bucket, NEW e \in Clock PROVE Owed(e)'
  <2>1. Cardinality(Granted(e))' = Cardinality(Granted(e))
    BY GrantedStays
  <2>2. Cardinality(Granted(e)) \in Nat /\ dropped[e] \in Nat /\ e \in Int
    <3>1. Cardinality(Granted(e)) \in Nat
      BY GrantedIsBounded
    <3>2. dropped \in [Clock -> Nat]
      BY DEF TurnOK
    <3>3. e \in Int
      BY DEF Clock
    <3> QED
      BY <3>1, <3>2, <3>3
  <2>3. Owed(e) /\ at # Outer /\ any_due' = any_due
    BY <1>1, <1>3 DEF TurnOK, Outer
  <2> QED
    BY <1>1, <1>2, <2>1, <2>2, <2>3 DEF Owed, One
<1> QED
  BY <1>1, <1>2, <1>3 DEF TurnOK

\* Rounds: a turn begins with nothing granted, and goes on only after a grant.
LEMMA RoundKeeps ==
    ASSUME TurnOK, RawTurn \/ RawRound
    PROVE  TurnOK'
<1> USE PacingAssumption
<1>1. CASE RawTurn
  <2>1. /\ at' = 0 /\ any_due' = FALSE /\ bucket' = bucket
        /\ catchup_count' \in [Clock -> 0..MAX_CATCHUP] /\ dropped' \in [Clock -> Nat]
        /\ \A e \in Clock : dropped'[e] = 0
    BY <1>1 DEF RawTurn
  <2>2. ASSUME NEW e \in Clock PROVE Owed(e)'
    <3>1. Cardinality(Granted(e))' \in Nat
      BY GrantedIsCounted
    <3> QED
      BY <2>1, <3>1 DEF Owed, One, Outer, Clock
  <2>3. bucket' \in BOOLEAN /\ any_due' \in BOOLEAN
    BY <2>1 DEF TurnOK
  <2>4. at' \in Outer..Clocks /\ at' # Outer
    BY <2>1 DEF Outer
  <2> QED
    BY <2>1, <2>2, <2>3, <2>4 DEF TurnOK
<1>2. CASE RawRound
  <2>1. /\ at = Clocks /\ any_due' = FALSE /\ at' \in {0, Outer} /\ (at' = 0 <=> any_due)
        /\ UNCHANGED <<bucket, catchup_count, dropped>>
    BY <1>2 DEF RawRound, Outer
  <2>2. ASSUME ~bucket, NEW e \in Clock PROVE Owed(e)'
    <3>1. Cardinality(Granted(e))' = Cardinality(Granted(e))
      BY <2>1, GrantedStays
    <3>2. Cardinality(Granted(e)) \in Nat /\ dropped[e] \in Nat /\ e \in Int /\ e >= 0 /\ e < at
      BY <2>1, GrantedIsBounded DEF TurnOK, Clock
    <3>3. Owed(e) /\ at # Outer
      BY <2>1, <2>2 DEF TurnOK, Outer
    <3> QED
      BY <2>1, <3>1, <3>2, <3>3 DEF Owed, One, Outer, TurnOK
  <2>3. bucket' \in BOOLEAN /\ any_due' \in BOOLEAN
    BY <2>1 DEF TurnOK
  <2>4. at' \in Outer..Clocks
    BY <2>1 DEF Outer
  <2> QED
    BY <2>1, <2>2, <2>3, <2>4 DEF TurnOK
<1> QED
  BY <1>1, <1>2

\* The turns are in order at the start.
LEMMA TurnInit == PacingInit => TurnOK
<1> USE PacingAssumption
<1> SUFFICES ASSUME PacingInit PROVE TurnOK
  OBVIOUS
<1>1. /\ at = Outer /\ any_due = FALSE /\ bucket \in BOOLEAN
      /\ catchup_count \in [Clock -> 0..MAX_CATCHUP] /\ dropped \in [Clock -> Nat]
      /\ \A c \in Clock : dropped[c] = 0
  BY DEF PacingInit
<1>2. \A c \in Clock : Owed(c)
  BY <1>1 DEF Owed
<1>3. at \in Outer..Clocks
  BY <1>1 DEF Outer
<1>4. \A c \in Clock : ~(dropped[c] > 0)
  BY <1>1
<1>5. any_due \in BOOLEAN /\ (at = Outer => ~any_due)
  BY <1>1
<1> QED
  BY <1>1, <1>2, <1>3, <1>4, <1>5 DEF TurnOK

\* Every step keeps the turns in order.
LEMMA TurnKeeps == TurnOK /\ [PacingNext]_pacingVars => TurnOK'
<1> SUFFICES ASSUME TurnOK, [PacingNext]_pacingVars PROVE TurnOK'
  OBVIOUS
<1>1. CASE UNCHANGED <<bucket, at, any_due, catchup_count, dropped>>
  BY <1>1 DEF TurnOK, Owed, Granted
<1>2. CASE RawTurn \/ RawRound
  BY <1>2, RoundKeeps
<1>3. ASSUME NEW c \in Clock, RawSlot(c) PROVE TurnOK'
  <2>1. at = c /\ at' = c + 1 /\ bucket' = bucket
    BY <1>3 DEF RawSlot
  <2>2. CASE bucket \/ clock < next_send_time[c]
    <3>1. /\ UNCHANGED <<catchup_count, dropped>>
          /\ any_due' = any_due \/ (bucket /\ any_due' = TRUE)
      BY <1>3, <2>2 DEF RawSlot
    <3> QED
      BY <2>1, <3>1, PassKeeps
  <2>3. CASE ~bucket /\ ~(clock < next_send_time[c]) /\ catchup_count[c] < MAX_CATCHUP
    BY <1>3, <2>1, <2>3, GiveKeeps DEF RawSlot
  <2>4. CASE ~bucket /\ ~(clock < next_send_time[c]) /\ ~(catchup_count[c] < MAX_CATCHUP)
    BY <1>3, <2>1, <2>4, DropKeeps DEF RawSlot
  <2> QED
    BY <2>2, <2>3, <2>4
<1> QED
  BY <1>1, <1>2, <1>3 DEF PacingNext, pacingVars, Tick, DpdkSlot

\* What TurnOK counts bounds what is dropped.
LEMMA TurnIsBounded == TurnOK => DropsBounded
<1> USE PacingAssumption
<1> SUFFICES ASSUME TurnOK, NEW c \in Clock, dropped[c] > 0
             PROVE  /\ catchup_count[c] = MAX_CATCHUP
                    /\ dropped[c] =< (Clocks - 1) * MAX_CATCHUP + 1
  BY DEF DropsBounded
<1>1. ~bucket /\ catchup_count[c] = MAX_CATCHUP /\ Owed(c) /\ dropped[c] \in Nat
  BY DEF TurnOK
<1>2. Cardinality(Granted(c)) \in Nat
  BY GrantedIsBounded
<1>3. dropped[c] <= Cardinality(Granted(c)) + 1
  BY <1>1, <1>2 DEF Owed, One
<1>4. (Clocks - 1) * MAX_CATCHUP \in Int
  OBVIOUS
<1> QED
  BY <1>1, <1>2, <1>3, <1>4, GrantedIsBounded

\* For every number of workers or targets, every rate and every delay, all three: no burst
\* beyond what may be made up for, every clock in its phase, and few drops in a turn.
THEOREM PacingIsKept == PacingSpec => []PacingKept
<1>1. IInv /\ PhaseInv /\ TurnOK => PacingKept
  BY TurnIsBounded DEF IInv, PhaseInv, PacingKept
<1> QED
  BY InitHolds, StepKeeps, PhaseInvHolds, TurnInit, TurnKeeps, <1>1, PTL DEF PacingSpec

-----------------------------------------------------------------------------
(* The packets: what a header adds up to *)

Word(w) == w \in Nat /\ w < 65536

\* Swapping the bytes of a word multiplies it by 256, but for multiples of 65535.
LEMMA SwapIs == ASSUME NEW w, Word(w)
                PROVE  /\ Word(Swapped(w)) /\ w \div 256 \in Nat
                       /\ Swapped(w) = 256 * w - 65535 * (w \div 256)
  BY SMT DEF Word, Swapped

\* A carry takes multiples of 65535 away, and neither nothing nor all.
LEMMA CarryIs == ASSUME NEW s \in Nat
                 PROVE  /\ Carry(s) \in Nat /\ s \div 65536 \in Nat
                        /\ Carry(s) = s - 65535 * (s \div 65536)
  BY SMT DEF Carry

LEMMA CarryBounds == ASSUME NEW s \in Nat, s > 0
                     PROVE  /\ Carry(s) > 0
                            /\ s < 1000000 => Carry(s) < 65551
                            /\ s < 65551 => Word(Carry(s))
  BY SMT DEF Carry, Word

LEMMA FoldIs == ASSUME NEW s \in Nat, s > 0, s < 1000000
                PROVE  \E e \in Nat : /\ Fold16(s) = s - 65535 * e
                                      /\ Word(Fold16(s)) /\ Fold16(s) > 0
<1> DEFINE c == Carry(s)
           e == (s \div 65536) + (c \div 65536)
<1>1. /\ c \in Nat /\ s \div 65536 \in Nat /\ c = s - 65535 * (s \div 65536)
      /\ c > 0 /\ c < 65551
  <2>1. c \in Nat /\ s \div 65536 \in Nat /\ c = s - 65535 * (s \div 65536)
    BY CarryIs, SMT
  <2>2. c > 0 /\ c < 65551
    BY CarryBounds, SMT
  <2> QED
    BY <2>1, <2>2, SMT
<1>0. c \in Nat
  BY <1>1, SMT
<1> HIDE DEF c
<1>2. /\ c \div 65536 \in Nat /\ Carry(c) = c - 65535 * (c \div 65536)
      /\ Carry(c) > 0 /\ Word(Carry(c))
  <2>1. c \div 65536 \in Nat /\ Carry(c) = c - 65535 * (c \div 65536)
    BY <1>0, CarryIs, SMT
  <2>2. Carry(c) > 0 /\ Word(Carry(c))
    BY <1>1, CarryBounds, SMT
  <2> QED
    BY <2>1, <2>2, SMT
<1>3. Fold16(s) = Carry(c)
  BY SMT DEF Fold16, c
<1>4. e \in Nat /\ Carry(c) = s - 65535 * e
  BY <1>1, <1>2, SMT
<1>5. e \in Nat /\ Fold16(s) = s - 65535 * e /\ Word(Fold16(s)) /\ Fold16(s) > 0
  BY <1>2, <1>3, <1>4, SMT
<1> HIDE DEF e
<1> QED
  BY <1>5, SMT

\* Multiples of 65535, as many as words there are, add up to ones.
LEMMA OnesAre == ASSUME NEW m \in Int, m > 0, m < 11 PROVE Fold16(65535 * m) = 65535
<1>1. 65535 * m = 65536 * (m - 1) + (65536 - m)
  BY SMT
<1>2. (65535 * m) \div 65536 = m - 1 /\ (65535 * m) % 65536 = 65536 - m
  BY <1>1, SMT
<1>3. Carry(65535 * m) = 65535
  BY <1>2, SMT DEF Carry
<1>4. Carry(65535) = 65535
  BY SMT DEF Carry
<1> QED
  BY <1>3, <1>4, SMT DEF Fold16

\* The arithmetic of the checksum: nine words a and their bytes swapped, in sums A and S; the
\* checksum is the complement of the folded S, swapped again.
LEMMA ChecksumIs ==
    ASSUME NEW A \in Nat, NEW S \in Nat, NEW Q \in Int, S = 256 * A - 65535 * Q,
           A > 0, A < 589816, S > 0, S < 589816
    PROVE  LET cs == Swapped(65535 - Fold16(S)) IN Word(cs) /\ Fold16(A + cs) = 65535
<1> DEFINE C == 65535 - Fold16(S)
           cs == Swapped(C)
<1>1. PICK e \in Nat : Fold16(S) = S - 65535 * e /\ Word(Fold16(S)) /\ Fold16(S) > 0
  BY FoldIs, SMT
<1>2. C = 65535 - S + 65535 * e /\ Word(C)
  BY <1>1, SMT DEF Word
<1> HIDE DEF C
<1>3. Word(cs) /\ C \div 256 \in Nat /\ cs = 256 * C - 65535 * (C \div 256)
  BY <1>2, SwapIs, SMT
<1> HIDE DEF cs
<1> DEFINE m == 256 - A + 256 * Q + 256 * e - (C \div 256)
<1>4. m \in Int /\ A + cs = 65535 * m
  BY <1>2, <1>3, SMT
<1>5. cs \in Nat /\ cs < 65536
  BY <1>3, SMT DEF Word
<1> HIDE DEF m
<1>6. m > 0 /\ m < 11
  BY <1>4, <1>5, SMT
<1>7. Fold16(A + cs) = 65535
  BY <1>4, <1>6, OnesAre, SMT
<1> QED
  BY <1>3, <1>7, SMT DEF C, cs

\* A header of a DPDK port adds up to ones, for every length and VL-ID.
LEMMA HeaderSums == ASSUME NEW len \in Nat, len =< NUM_PRBS_BYTES, vl \in Vls
                    PROVE  Sums(Header(len, 0, calculate_ip_checksum(len)))
<1> DEFINE L == 36 + len
           g == [i \in 1..10 |-> Swapped(Header(len, 0, 0)[i])]
           A == 78065 + L + vl
           S == WordSum(g)
           Q == 304 + (L \div 256) + (vl \div 256)
<1>1. Word(L) /\ Word(vl)
  BY PayloadAssumption, SMT DEF Word
<1>2. /\ Swapped(17664) = 69 /\ Swapped(0) = 0 /\ Swapped(273) = 4353 /\ Swapped(2560) = 10
      /\ Swapped(57568) = 57568
  BY SMT DEF Swapped
<1>3. /\ Word(Swapped(L)) /\ L \div 256 \in Nat /\ Swapped(L) = 256 * L - 65535 * (L \div 256)
      /\ Word(Swapped(vl)) /\ vl \div 256 \in Nat /\ Swapped(vl) = 256 * vl - 65535 * (vl \div 256)
  <2> HIDE DEF L
  <2>1. Word(Swapped(L)) /\ L \div 256 \in Nat /\ Swapped(L) = 256 * L - 65535 * (L \div 256)
    BY <1>1, SwapIs, SMT
  <2>2. Word(Swapped(vl)) /\ vl \div 256 \in Nat /\ Swapped(vl) = 256 * vl - 65535 * (vl \div 256)
    BY <1>1, SwapIs, SMT
  <2> QED
    BY <2>1, <2>2, SMT
<1>4. /\ g[1] = 69 /\ g[2] = Swapped(L) /\ g[3] = 0 /\ g[4] = 0 /\ g[5] = 4353 /\ g[6] = 0
      /\ g[7] = 10 /\ g[8] = 0 /\ g[9] = 57568 /\ g[10] = Swapped(vl)
  BY <1>2, SMT DEF Header
<1>5. S = 62000 + Swapped(L) + Swapped(vl)
  BY <1>3, <1>4, SMT DEF WordSum, Word
<1>6. calculate_ip_checksum(len) = Swapped(65535 - Fold16(S))
  BY SMT DEF calculate_ip_checksum
<1> DEFINE cs == calculate_ip_checksum(len)
<1>7. WordSum(Header(len, 0, cs)) = 17664 + L + 0 + 0 + 273 + cs + 2560 + 0 + 57568 + vl
  BY SMT DEF WordSum, Header
<1> HIDE DEF L, g, S, cs
<1>8. /\ A \in Nat /\ S \in Nat /\ Q \in Int /\ S = 256 * A - 65535 * Q
      /\ A > 0 /\ A < 589816 /\ S > 0 /\ S < 589816
  BY <1>1, <1>3, <1>5, SMT DEF Word
<1>9. Word(cs) /\ Fold16(A + cs) = 65535
  BY <1>6, <1>8, ChecksumIs, SMT DEF cs
<1>10. WordSum(Header(len, 0, cs)) = A + cs
  BY <1>1, <1>7, <1>9, SMT DEF Word
<1> QED
  BY <1>9, <1>10, SMT DEF Sums, cs

-----------------------------------------------------------------------------
(* The packets: the windows *)

Byte == [1..BITS -> BOOLEAN]
Window == 0..(Size + NUM_PRBS_BYTES - 1)

LEMMA SizeIs == Size \in Nat /\ Size > 0 /\ NUM_PRBS_BYTES =< Size
<1>1. 2^ORDER \in Int /\ BITS \in Nat \ {0} /\ NUM_PRBS_BYTES \in Nat \ {0}
  BY PayloadAssumption, SMT
<1> DEFINE n == 2^ORDER - 1
<1>2. n \in Int
  BY <1>1, SMT
<1> HIDE DEF n
<1>3. Size \in Int
  BY <1>1, <1>2, SMT DEF Size, n
<1> QED
  BY <1>1, <1>3, WindowsFit, SMT

\* A cache, extended, has a byte wherever a window reads.
LEMMA ExtendedIs == ASSUME NEW c, c \in [0..(Size - 1) -> Byte]
                    PROVE  Extended(c) \in [Window -> Byte]
<1>1. NUM_PRBS_BYTES \in Nat
  BY PayloadAssumption
<1>2. ASSUME NEW i \in Window
      PROVE  IF i < Size THEN c[i] \in Byte ELSE c[i - Size] \in Byte
  BY <1>1, <1>2, SizeIs DEF Window
<1> QED
  BY <1>2 DEF Extended, Window

LEMMA CachesAre == TheCache \in [Window -> Byte]
<1>1. Cache \in [0..(Size - 1) -> Byte]
  BY DEF Cache, Byte
<1>2. RawCache \in [0..(Size - 1) -> Byte]
  BY DEF RawCache, Byte
<1> QED
  BY <1>1, <1>2, ExtendedIs DEF TheCache, cache_ext, raw_cache_ext

LEMMA OffsetIs == ASSUME NEW n \in Nat PROVE VerifyOffset(n) \in 0..(Size - 1)
<1>1. n * NUM_PRBS_BYTES \in Nat
  BY PayloadAssumption
<1> QED
  BY <1>1, SizeIs DEF VerifyOffset

-----------------------------------------------------------------------------
(* The packets: what can be on its way *)

Fates == {"sound", "alias", "bit", "number", "cut", "route"}

Shaped(p) == DOMAIN p = {"header", "seq", "bytes", "known", "fate"}

Sized(p) == /\ p.bytes \in Seq(Byte) /\ Len(p.bytes) =< NUM_PRBS_BYTES
            /\ p.fate # "cut" => ~TooShort(p)
            /\ p.fate = "cut" => Len(p.bytes) < NUM_PRBS_BYTES

\* The bits that are not those of the window.
Off(p) == Wrong(p, Len(p.bytes))

\* What was done to a packet shows: nothing, one bit, or a window that is another.
Telling(p) == /\ p.fate \notin {"bit", "number"} => Off(p) = {}
              /\ p.fate = "bit" => \E f : Off(p) = {f}
              /\ p.fate = "number" => Off(p) # {}

PacketInv(p) == /\ Shaped(p) /\ Sized(p) /\ Telling(p)
                /\ p.seq \in Nat /\ p.fate \in Fates /\ (p.known <=> p.fate # "route")
                /\ ~FromRaw => Sums(p.header)

ConfInv == /\ imix \in BOOLEAN /\ vl \in Vls /\ seq \in Nat /\ imix_counter \in Nat
           /\ \/ stream \in {"own", "ext", "raw"} /\ judge = "rx"
              \/ stream \in {"dpdk", "peer"} /\ judge \in {"multi", "single"}

LEMMA SizesAre == ASSUME ConfInv
                  PROVE  /\ PacketSize \in Nat /\ PacketSize =< NUM_PRBS_BYTES
                         /\ PacketSize >= IF imix THEN MIN_IMIX_PRBS_BYTES ELSE NUM_PRBS_BYTES
<1> DEFINE l == NUM_PRBS_BYTES - MIN_IMIX_PRBS_BYTES + 1
           n == (imix_counter % l) + 1
<1>1. /\ NUM_PRBS_BYTES \in Nat /\ MIN_IMIX_PRBS_BYTES \in Nat
      /\ MIN_IMIX_PRBS_BYTES =< NUM_PRBS_BYTES
  BY PayloadAssumption
<1>2. CASE ~imix
  BY <1>1, <1>2 DEF PacketSize
<1>3. CASE imix
  <2>1. Len(Pattern) = l
    BY <1>1 DEF Pattern
  <2>2. n \in 1..l
    BY <1>1 DEF ConfInv
  <2>3. PacketSize = Pattern[n]
    BY <2>1, <1>3 DEF PacketSize
  <2> HIDE DEF n
  <2>4. Pattern[n] = MIN_IMIX_PRBS_BYTES + n - 1
    BY <2>2 DEF Pattern
  <2> QED
    BY <1>1, <1>3, <2>2, <2>3, <2>4
<1> QED
  BY <1>2, <1>3

LEMMA PayloadIs == ASSUME NEW n \in Nat, NEW len \in Nat, len =< NUM_PRBS_BYTES
                   PROVE  /\ fill_payload(n, len) \in Seq(Byte) /\ Len(fill_payload(n, len)) = len
                          /\ \A i \in 1..len :
                                fill_payload(n, len)[i] = TheCache[VerifyOffset(n) + i - 1]
<1>1. StartOffset(n, len) = VerifyOffset(n)
  BY DEF StartOffset, VerifyOffset
<1>2. VerifyOffset(n) \in 0..(Size - 1) /\ Size \in Nat /\ NUM_PRBS_BYTES \in Nat
  BY OffsetIs, SizeIs, PayloadAssumption
<1>3. ASSUME NEW i \in 1..len PROVE TheCache[VerifyOffset(n) + i - 1] \in Byte
  <2>1. VerifyOffset(n) + i - 1 \in Window
    BY <1>2 DEF Window
  <2> QED
    BY <2>1, CachesAre
<1>4. fill_payload(n, len) = [i \in 1..len |-> TheCache[VerifyOffset(n) + i - 1]]
  BY <1>1 DEF fill_payload
<1> QED
  BY <1>3, <1>4

LEMMA BuiltIs == ASSUME ConfInv PROVE PacketInv(Built)
<1> DEFINE p == Built
           len == PacketSize
<1>1. /\ len \in Nat /\ len =< NUM_PRBS_BYTES
      /\ len >= IF imix THEN MIN_IMIX_PRBS_BYTES ELSE NUM_PRBS_BYTES
  BY SizesAre
<1>2. /\ p.bytes = fill_payload(seq, len) /\ p.seq = seq /\ p.known = TRUE /\ p.fate = "sound"
      /\ p.header = HeaderOf(len)
  BY DEF Built
<1>3. Shaped(p)
  BY DEF Built, Shaped
<1> HIDE DEF p, len
<1>4. seq \in Nat /\ vl \in Vls
  BY DEF ConfInv
<1>5. /\ p.bytes \in Seq(Byte) /\ Len(p.bytes) = len
      /\ \A i \in 1..len : p.bytes[i] = TheCache[VerifyOffset(seq) + i - 1]
  BY <1>1, <1>2, <1>4, PayloadIs
<1>6. Sized(p)
  BY <1>1, <1>2, <1>5, PayloadAssumption DEF Sized, TooShort
<1>7. Off(p) = {}
  BY <1>2, <1>5 DEF Off, Wrong
<1>8. ~FromRaw => Sums(p.header)
  BY <1>1, <1>2, <1>4, HeaderSums DEF HeaderOf
<1> QED
  BY <1>2, <1>3, <1>4, <1>6, <1>7, <1>8 DEF PacketInv, Telling, Fates, p

\* Bytes that differ do so in a bit.
LEMMA BytesDiffer == ASSUME NEW a \in Byte, NEW b \in Byte, a # b
                     PROVE  \E j \in 1..BITS : a[j] # b[j]
<1> SUFFICES ASSUME \A j \in 1..BITS : a[j] = b[j] PROVE a = b
  OBVIOUS
<1>1. a = [j \in 1..BITS |-> a[j]] /\ b = [j \in 1..BITS |-> b[j]]
  BY DEF Byte
<1>2. [j \in 1..BITS |-> a[j]] = [j \in 1..BITS |-> b[j]]
  OBVIOUS
<1> QED
  BY <1>1, <1>2

\* A sound packet is its window.
LEMMA SoundIs == ASSUME NEW p, PacketInv(p), p.fate = "sound"
                 PROVE  \A i \in 1..Len(p.bytes), j \in 1..BITS :
                            p.bytes[i][j] = TheCache[VerifyOffset(p.seq) + i - 1][j]
<1>1. Off(p) = {}
  BY DEF PacketInv, Telling
<1> SUFFICES ASSUME NEW i \in 1..Len(p.bytes), NEW j \in 1..BITS,
                    p.bytes[i][j] # TheCache[VerifyOffset(p.seq) + i - 1][j]
             PROVE  FALSE
  OBVIOUS
<1>2. <<i, j>> \in Off(p)
  BY DEF Off, Wrong
<1> QED
  BY <1>1, <1>2

\* A flipped bit is off, and no other.
LEMMA FlipKeeps == ASSUME NEW p, PacketInv(p), p.fate = "sound",
                          NEW i \in DOMAIN p.bytes, NEW j \in 1..BITS
                   PROVE  PacketInv([[p EXCEPT !.bytes[i][j] = ~@] EXCEPT !.fate = "bit"])
<1> DEFINE b == [p.bytes EXCEPT ![i][j] = ~@]
           q == [[p EXCEPT !.bytes = b] EXCEPT !.fate = "bit"]
           n == Len(p.bytes)
<1>1. [[p EXCEPT !.bytes[i][j] = ~@] EXCEPT !.fate = "bit"] = q
  OBVIOUS
<1>2. /\ Shaped(q) /\ q.bytes = b /\ q.fate = "bit" /\ q.seq = p.seq /\ q.known = p.known
      /\ q.header = p.header
  <2> HIDE DEF b
  <2>1. Shaped(p)
    BY DEF PacketInv
  <2> QED
    BY <2>1 DEF Shaped
<1> HIDE DEF q
<1>3. /\ p.bytes \in Seq(Byte) /\ n \in Nat /\ DOMAIN p.bytes = 1..n /\ ~TooShort(p)
      /\ n =< NUM_PRBS_BYTES
  BY DEF PacketInv, Sized
<1>4. p.bytes[i] \in [1..BITS -> BOOLEAN] /\ p.bytes[i][j] \in BOOLEAN
  <2>1. p.bytes[i] \in Byte
    BY <1>3
  <2> QED
    BY <2>1 DEF Byte
<1>5. b = [p.bytes EXCEPT ![i] = [p.bytes[i] EXCEPT ![j] = ~p.bytes[i][j]]]
  BY <1>3
<1>6. [p.bytes[i] EXCEPT ![j] = ~p.bytes[i][j]] \in Byte
  BY <1>4 DEF Byte
<1>7. b \in Seq(Byte) /\ Len(b) = n
  BY <1>3, <1>5, <1>6
<1>8. b[i][j] = ~p.bytes[i][j]
  BY <1>3, <1>4, <1>5
<1>9. ASSUME NEW k \in 1..n, NEW l \in 1..BITS, <<k, l>> # <<i, j>>
      PROVE  b[k][l] = p.bytes[k][l]
  BY <1>3, <1>4, <1>5, <1>9
<1> HIDE DEF b, n
<1>10. \A k \in 1..n, l \in 1..BITS :
          p.bytes[k][l] = TheCache[VerifyOffset(p.seq) + k - 1][l]
  BY SoundIs DEF n
<1>11. Off(q) = {<<i, j>>}
  <2>1. Off(q) = {f \in (1..n) \X (1..BITS) :
                    b[f[1]][f[2]] # TheCache[VerifyOffset(p.seq) + f[1] - 1][f[2]]}
    BY <1>2, <1>7 DEF Off, Wrong
  <2>2. b[i][j] # TheCache[VerifyOffset(p.seq) + i - 1][j]
    <3>1. p.bytes[i][j] = TheCache[VerifyOffset(p.seq) + i - 1][j]
      BY <1>3, <1>10
    <3>2. b[i][j] # p.bytes[i][j]
      BY <1>4, <1>8
    <3> QED
      BY <3>1, <3>2
  <2>3. <<i, j>> \in Off(q)
    BY <1>3, <2>1, <2>2
  <2>4. ASSUME NEW f \in Off(q) PROVE f = <<i, j>>
    <3>1. f \in (1..n) \X (1..BITS) /\ f = <<f[1], f[2]>>
      BY <2>1
    <3>2. b[f[1]][f[2]] # TheCache[VerifyOffset(p.seq) + f[1] - 1][f[2]]
      BY <2>1
    <3> QED
      BY <3>1, <3>2, <1>9, <1>10
  <2> QED
    BY <2>3, <2>4
<1>12. Sized(q)
  BY <1>2, <1>3, <1>7 DEF Sized, TooShort, n
<1>13. PacketInv(q)
  BY <1>2, <1>11, <1>12 DEF PacketInv, Telling, Fates
<1> QED
  BY <1>1, <1>13

\* A number that was changed is that of another window, and some bit tells; unless it is
\* that of the same window again.
LEMMA NumberKeeps ==
    ASSUME NEW p, PacketInv(p), p.fate = "sound", NEW n \in Nat
    PROVE  LET f == IF VerifyOffset(n) = VerifyOffset(p.seq) THEN "alias" ELSE "number"
           IN  PacketInv([[p EXCEPT !.seq = n] EXCEPT !.fate = f])
<1> DEFINE f == IF VerifyOffset(n) = VerifyOffset(p.seq) THEN "alias" ELSE "number"
           q == [[p EXCEPT !.seq = n] EXCEPT !.fate = f]
           len == Len(p.bytes)
           o == VerifyOffset(n)
           d == VerifyOffset(p.seq)
<1>1. /\ Shaped(q) /\ q.bytes = p.bytes /\ q.fate = f /\ q.seq = n /\ q.known = p.known
      /\ q.header = p.header
  <2> HIDE DEF f
  <2>1. Shaped(p)
    BY DEF PacketInv
  <2> QED
    BY <2>1 DEF Shaped
<1> HIDE DEF q
<1>2. /\ p.bytes \in Seq(Byte) /\ len \in Nat /\ len =< NUM_PRBS_BYTES /\ ~TooShort(p)
      /\ p.seq \in Nat /\ p.known
  BY DEF PacketInv, Sized
<1>3. \A i \in 1..len, j \in 1..BITS : p.bytes[i][j] = TheCache[d + i - 1][j]
  BY SoundIs
<1>4. Off(q) = {g \in (1..len) \X (1..BITS) :
                   p.bytes[g[1]][g[2]] # TheCache[o + g[1] - 1][g[2]]}
  BY <1>1 DEF Off, Wrong
<1>5. Sized(q)
  BY <1>1, <1>2 DEF Sized, TooShort
<1>6. o \in 0..(Size - 1) /\ d \in 0..(Size - 1)
  BY <1>2, OffsetIs
<1> HIDE DEF o, d, len
<1>7. ASSUME o = d PROVE PacketInv(q)
  <2>1. f = "alias"
    BY <1>7 DEF o, d
  <2>2. Off(q) = {}
    BY <1>3, <1>4, <1>7
  <2> QED
    BY <1>1, <1>2, <1>5, <2>1, <2>2 DEF PacketInv, Telling, Fates
<1>8. ASSUME o # d PROVE PacketInv(q)
  <2>1. f = "number"
    BY <1>8 DEF o, d
  <2>2. TheCache \in {cache_ext, raw_cache_ext}
    BY DEF TheCache
  <2>3. PICK k \in 0..(MIN_IMIX_PRBS_BYTES - 1) : TheCache[d + k] # TheCache[o + k]
    BY <1>6, <1>8, <2>2, WindowsDiffer
  <2>4. /\ MIN_IMIX_PRBS_BYTES \in Nat /\ NUM_PRBS_BYTES \in Nat /\ Size \in Nat
        /\ MIN_IMIX_PRBS_BYTES =< NUM_PRBS_BYTES
    BY PayloadAssumption, SizeIs
  <2>5. d + k \in Window /\ o + k \in Window
    BY <1>6, <2>3, <2>4 DEF Window
  <2>6. TheCache[d + k] \in Byte /\ TheCache[o + k] \in Byte
    BY <2>5, CachesAre
  <2>7. PICK j \in 1..BITS : TheCache[d + k][j] # TheCache[o + k][j]
    BY <2>3, <2>6, BytesDiffer
  <2>8. len >= MIN_IMIX_PRBS_BYTES
    BY <1>2, <2>4 DEF TooShort, len
  <2>9. k + 1 \in 1..len /\ d + (k + 1) - 1 = d + k /\ o + (k + 1) - 1 = o + k
    BY <1>2, <1>6, <2>3, <2>4, <2>8
  <2>10. p.bytes[k + 1][j] = TheCache[d + k][j]
    BY <1>3, <2>9
  <2>11. <<k + 1, j>> \in Off(q)
    BY <1>4, <2>7, <2>9, <2>10
  <2> QED
    BY <1>1, <1>2, <1>5, <2>1, <2>11 DEF PacketInv, Telling, Fates
<1> QED
  BY <1>7, <1>8 DEF q

\* What is left of a packet that was cut is still its window.
LEMMA CutKeeps ==
    ASSUME NEW p, PacketInv(p), p.fate = "sound", NEW n \in 0..(Len(p.bytes) - 1)
    PROVE  PacketInv([[p EXCEPT !.bytes = SubSeq(@, 1, n)] EXCEPT !.fate = "cut"])
<1> DEFINE b == SubSeq(p.bytes, 1, n)
           q == [[p EXCEPT !.bytes = b] EXCEPT !.fate = "cut"]
<1>1. [[p EXCEPT !.bytes = SubSeq(@, 1, n)] EXCEPT !.fate = "cut"] = q
  OBVIOUS
<1>2. /\ Shaped(q) /\ q.bytes = b /\ q.fate = "cut" /\ q.seq = p.seq /\ q.known = p.known
      /\ q.header = p.header
  <2> HIDE DEF b
  <2>1. Shaped(p)
    BY DEF PacketInv
  <2> QED
    BY <2>1 DEF Shaped
<1> HIDE DEF q
<1>3. p.bytes \in Seq(Byte) /\ Len(p.bytes) \in Nat /\ Len(p.bytes) =< NUM_PRBS_BYTES
  BY DEF PacketInv, Sized
<1>4. \A i \in 1..n : p.bytes[i] \in Byte
  BY <1>3
<1>5. b \in Seq(Byte) /\ Len(b) = n /\ \A i \in 1..n : b[i] = p.bytes[i]
  <2>1. b \in Seq(Byte)
    BY <1>4, SubSeqProperties
  <2>2. Len(b) = n
    BY <1>3, SubSeqProperties, <1>4
  <2>3. \A i \in 1..n : b[i] = p.bytes[i]
    BY <1>3
  <2> QED
    BY <2>1, <2>2, <2>3
<1> HIDE DEF b
<1>6. Sized(q)
  BY <1>2, <1>3, <1>5, PayloadAssumption DEF Sized
<1>7. \A i \in 1..n, j \in 1..BITS : b[i][j] = TheCache[VerifyOffset(p.seq) + i - 1][j]
  <2>1. \A i \in 1..Len(p.bytes), j \in 1..BITS :
           p.bytes[i][j] = TheCache[VerifyOffset(p.seq) + i - 1][j]
    BY SoundIs
  <2>2. \A i \in 1..n : i \in 1..Len(p.bytes)
    BY <1>3
  <2> QED
    BY <1>5, <2>1, <2>2
<1>8. Off(q) = {}
  BY <1>2, <1>5, <1>7 DEF Off, Wrong
<1>9. PacketInv(q)
  BY <1>2, <1>6, <1>8 DEF PacketInv, Telling, Fates
<1> QED
  BY <1>1, <1>9

LEMMA RouteKeeps == ASSUME NEW p, PacketInv(p), p.fate = "sound"
                    PROVE  PacketInv([[p EXCEPT !.known = FALSE] EXCEPT !.fate = "route"])
<1> DEFINE q == [[p EXCEPT !.known = FALSE] EXCEPT !.fate = "route"]
<1>1. /\ Shaped(q) /\ q.bytes = p.bytes /\ q.fate = "route" /\ q.seq = p.seq /\ q.known = FALSE
      /\ q.header = p.header
  <2>1. Shaped(p)
    BY DEF PacketInv
  <2> QED
    BY <2>1 DEF Shaped
<1> HIDE DEF q
<1>2. Off(q) = Off(p) /\ Off(p) = {}
  BY <1>1 DEF Off, Wrong, PacketInv, Telling
<1>3. Sized(q)
  BY <1>1 DEF PacketInv, Sized, TooShort
<1>4. PacketInv(q)
  BY <1>1, <1>2, <1>3 DEF PacketInv, Telling, Fates
<1> QED
  BY <1>4 DEF q

-----------------------------------------------------------------------------
(* The packets: what a verdict adds *)

Counters == [rx : Nat, good : Nat, bad : Nat, bits : Nat, short : Nat]

LEMMA AddedIs == ASSUME NEW a \in Counters, NEW b \in Counters
               PROVE  /\ Add(a, b) \in Counters
                      /\ Add(a, b).rx = a.rx + b.rx /\ Add(a, b).good = a.good + b.good
                      /\ Add(a, b).bad = a.bad + b.bad /\ Add(a, b).bits = a.bits + b.bits
                      /\ Add(a, b).short = a.short + b.short
<1>1. DOMAIN a = {"rx", "good", "bad", "bits", "short"}
  BY DEF Counters
<1>2. Add(a, b) = [rx |-> a.rx + b.rx, good |-> a.good + b.good, bad |-> a.bad + b.bad,
                   bits |-> a.bits + b.bits, short |-> a.short + b.short]
  BY <1>1 DEF Add
<1>3. /\ a.rx \in Nat /\ a.good \in Nat /\ a.bad \in Nat /\ a.bits \in Nat /\ a.short \in Nat
      /\ b.rx \in Nat /\ b.good \in Nat /\ b.bad \in Nat /\ b.bits \in Nat /\ b.short \in Nat
  BY DEF Counters
<1> QED
  BY <1>2, <1>3 DEF Counters

LEMMA ZeroIs == /\ Zero \in Counters
                /\ Zero.good = 0 /\ Zero.bad = 0 /\ Zero.bits = 0 /\ Zero.short = 0
  BY DEF Zero, Counters

LEMMA RxIs == LET c == [Zero EXCEPT !.rx = 1]
              IN  /\ c \in Counters
                  /\ c.good = 0 /\ c.bad = 0 /\ c.bits = 0 /\ c.short = 0
  BY DEF Zero, Counters

LEMMA ShortIs == LET c == [Zero EXCEPT !.rx = 1, !.short = 1]
                 IN  /\ c \in Counters
                     /\ c.good = 0 /\ c.bad = 0 /\ c.bits = 0 /\ c.short = 1
  BY DEF Zero, Counters

LEMMA VerdictIs == ASSUME NEW n \in Nat
                   PROVE  /\ Verdict(n) \in Counters /\ Verdict(n).short = 0
                          /\ Verdict(n).bits = n
                          /\ Verdict(n).good = IF n = 0 THEN 1 ELSE 0
                          /\ Verdict(n).bad = IF n = 0 THEN 0 ELSE 1
<1>1. CASE n = 0
  BY <1>1 DEF Verdict, Zero, Counters
<1>2. CASE n # 0
  BY <1>2 DEF Verdict, Zero, Counters
<1> QED
  BY <1>1, <1>2

\* How many bits are off, by what was done to the packet.
LEMMA OffIs == ASSUME NEW p, PacketInv(p)
               PROVE  /\ Cardinality(Off(p)) \in Nat
                      /\ p.fate \notin {"bit", "number"} => Cardinality(Off(p)) = 0
                      /\ p.fate = "bit" => Cardinality(Off(p)) = 1
                      /\ p.fate = "number" => Cardinality(Off(p)) > 0
<1> DEFINE n == Len(p.bytes)
           D == (1..n) \X (1..BITS)
<1>1. n \in Nat /\ BITS \in Nat
  BY PayloadAssumption DEF PacketInv, Sized
<1>2. IsFiniteSet(1..n) /\ IsFiniteSet(1..BITS)
  BY <1>1, FS_Interval
<1>3. IsFiniteSet(D)
  BY <1>2, FS_Product
<1>4. Off(p) \in SUBSET D
  BY DEF Off, Wrong
<1> HIDE DEF D
<1>5. IsFiniteSet(Off(p))
  BY <1>3, <1>4, FS_Subset
<1>6. Cardinality(Off(p)) \in Nat /\ (Cardinality(Off(p)) = 0 <=> Off(p) = {})
  BY <1>5, FS_CardinalityType, FS_EmptySet
<1>7. ASSUME NEW f, Off(p) = {f} PROVE Cardinality(Off(p)) = 1
  BY <1>7, FS_Singleton
<1> QED
  BY <1>6, <1>7 DEF PacketInv, Telling

\* raw_rx_worker reads beyond a packet that was cut.
Reads == stream = "peer" /\ judge = "single" /\ ~imix

AssumedGood == stream = "dpdk" /\ judge = "multi"

\* What a packet adds to the counters, by what was done to it.
Fits(p, a) ==
    /\ a \in Counters /\ a.bits >= a.bad /\ (a.bad = 0 => a.bits = 0)
    /\ a.good + a.bad + a.short = IF p.fate = "route" /\ ~AssumedGood THEN 0 ELSE 1
    /\ p.fate \in {"sound", "alias", "route"} => a.bad = 0
    /\ p.fate = "bit" => a.bad = 1 /\ a.bits = 1
    /\ p.fate = "number" => a.bad = 1
    /\ p.fate = "cut" => Reads \/ a.bad = 0
    /\ IF p.fate = "cut" THEN judge = "rx" /\ ~imix => a.short = 1 ELSE a.short = 0

LEMMA VerdictFits ==
    ASSUME NEW p, PacketInv(p), p.fate # "route", NEW n \in Nat, n >= Cardinality(Off(p)),
           n = Cardinality(Off(p)) \/ (p.fate = "cut" /\ Reads),
           p.fate = "cut" => judge # "rx" \/ imix
    PROVE  Fits(p, Verdict(n))
<1>1. /\ Verdict(n) \in Counters /\ Verdict(n).short = 0 /\ Verdict(n).bits = n
      /\ Verdict(n).good = IF n = 0 THEN 1 ELSE 0
      /\ Verdict(n).bad = IF n = 0 THEN 0 ELSE 1
  BY VerdictIs
<1>2. /\ Cardinality(Off(p)) \in Nat
      /\ p.fate \notin {"bit", "number"} => Cardinality(Off(p)) = 0
      /\ p.fate = "bit" => Cardinality(Off(p)) = 1
      /\ p.fate = "number" => Cardinality(Off(p)) > 0
  BY OffIs
<1> DEFINE v == Verdict(n)
           c == Cardinality(Off(p))
<1> HIDE DEF v, c
<1>3. /\ v.bits >= v.bad /\ (v.bad = 0 => v.bits = 0) /\ v.good + v.bad + v.short = 1
  BY <1>1 DEF v
<1>4. p.fate \in {"sound", "alias"} => v.bad = 0
  BY <1>1, <1>2 DEF v
<1>5. p.fate = "bit" => v.bad = 1 /\ v.bits = 1
  BY <1>1, <1>2 DEF v
<1>6. p.fate = "number" => v.bad = 1
  BY <1>1, <1>2 DEF v
<1>7. p.fate = "cut" => Reads \/ v.bad = 0
  BY <1>1, <1>2 DEF v
<1> QED
  BY <1>1, <1>3, <1>4, <1>5, <1>6, <1>7 DEF Fits, v

LEMMA LengthIs == ASSUME NEW p, PacketInv(p)
                  PROVE  /\ Len(p.bytes) \in Nat /\ Len(p.bytes) =< NUM_PRBS_BYTES
                         /\ p.fate # "cut" => ~TooShort(p)
                         /\ ~imix /\ ~TooShort(p) => Len(p.bytes) = NUM_PRBS_BYTES
                         /\ ~imix /\ p.fate = "cut" => TooShort(p)
  BY PayloadAssumption DEF PacketInv, Sized, TooShort

LEMMA RxWorkerFits == ASSUME ConfInv, NEW p, PacketInv(p), judge = "rx" PROVE Fits(p, RxWorker(p))
<1>1. /\ Len(p.bytes) \in Nat /\ Len(p.bytes) =< NUM_PRBS_BYTES
      /\ p.fate # "cut" => ~TooShort(p)
      /\ ~imix /\ ~TooShort(p) => Len(p.bytes) = NUM_PRBS_BYTES
      /\ ~imix /\ p.fate = "cut" => TooShort(p)
  BY LengthIs
<1>2. (p.known <=> p.fate # "route") /\ ~AssumedGood /\ p.fate \in Fates
  BY DEF PacketInv, AssumedGood
<1>3. CASE TooShort(p)
  <2>1. p.fate = "cut" /\ RxWorker(p) = [Zero EXCEPT !.rx = 1, !.short = 1]
    BY <1>1, <1>3 DEF RxWorker
  <2> QED
    BY <2>1, ShortIs DEF Fits
<1>4. CASE ~TooShort(p) /\ ~p.known
  <2>1. p.fate = "route" /\ RxWorker(p) = [Zero EXCEPT !.rx = 1]
    BY <1>2, <1>4 DEF RxWorker, SenderKnown
  <2> QED
    BY <1>2, <2>1, RxIs DEF Fits
<1>5. CASE ~TooShort(p) /\ p.known
  <2>1. (IF imix THEN Len(p.bytes) ELSE NUM_PRBS_BYTES) = Len(p.bytes)
    BY <1>1, <1>5
  <2>2. RxWorker(p) = Verdict(Cardinality(Off(p)))
    BY <1>5, <2>1 DEF RxWorker, SenderKnown, Off
  <2>3. Cardinality(Off(p)) \in Nat /\ Cardinality(Off(p)) >= Cardinality(Off(p))
    BY OffIs
  <2>4. p.fate # "route" /\ (p.fate = "cut" => judge # "rx" \/ imix)
    BY <1>1, <1>2, <1>5
  <2> QED
    BY <2>2, <2>3, <2>4, VerdictFits
<1> QED
  BY <1>3, <1>4, <1>5

LEMMA MultiQueueFits == ASSUME NEW p, PacketInv(p), judge = "multi" PROVE Fits(p, MultiQueue(p))
<1>1. (p.known <=> p.fate # "route") /\ p.fate \in Fates
  BY DEF PacketInv
<1>2. CASE p.known
  <2>1. MultiQueue(p) = Verdict(Cardinality(Off(p)))
    BY <1>2 DEF MultiQueue, Off
  <2>2. Cardinality(Off(p)) \in Nat /\ Cardinality(Off(p)) >= Cardinality(Off(p))
    BY OffIs
  <2> QED
    BY <1>1, <1>2, <2>1, <2>2, VerdictFits
<1>3. CASE ~p.known /\ stream = "dpdk"
  <2>1. p.fate = "route" /\ AssumedGood /\ MultiQueue(p) = Verdict(0)
    BY <1>1, <1>3 DEF MultiQueue, AssumedGood
  <2> QED
    BY <2>1, VerdictIs DEF Fits
<1>4. CASE ~p.known /\ stream # "dpdk"
  <2>1. p.fate = "route" /\ ~AssumedGood /\ MultiQueue(p) = Zero
    BY <1>1, <1>4 DEF MultiQueue, AssumedGood
  <2> QED
    BY <2>1, ZeroIs DEF Fits
<1> QED
  BY <1>2, <1>3, <1>4

LEMMA SingleQueueFits == ASSUME NEW p, PacketInv(p), judge = "single", NEW stale \in Stale(p)
                         PROVE  Fits(p, SingleQueue(p, stale))
<1>1. (p.known <=> p.fate # "route") /\ p.fate \in Fates /\ ~AssumedGood
  BY DEF PacketInv, AssumedGood
<1>2. /\ Len(p.bytes) \in Nat /\ Len(p.bytes) =< NUM_PRBS_BYTES
      /\ p.fate # "cut" => ~TooShort(p)
      /\ ~imix /\ ~TooShort(p) => Len(p.bytes) = NUM_PRBS_BYTES
  BY LengthIs
<1>3. NUM_PRBS_BYTES \in Nat /\ BITS \in Nat
  BY PayloadAssumption
<1>4. stale \in Nat /\ (stale = 0 \/ (p.fate = "cut" /\ Reads))
  <2>1. CASE stream = "peer" /\ ~imix /\ p.fate = "cut"
    <3>1. stale \in 0..((NUM_PRBS_BYTES - Len(p.bytes)) * BITS)
      BY <2>1 DEF Stale
    <3> QED
      BY <2>1, <3>1 DEF Reads
  <2>2. CASE stream = "peer" /\ ~imix /\ p.fate # "cut"
    <3>1. (NUM_PRBS_BYTES - Len(p.bytes)) * BITS = 0
      BY <1>2, <1>3, <2>2
    <3>2. stale \in 0..0
      BY <2>2, <3>1 DEF Stale
    <3> QED
      BY <3>2
  <2>3. CASE ~(stream = "peer" /\ ~imix)
    BY <2>3 DEF Stale
  <2> QED
    BY <2>1, <2>2, <2>3
<1>5. CASE p.known
  <2> DEFINE n == Cardinality(Off(p)) + stale
  <2>1. SingleQueue(p, stale) = Verdict(n)
    BY <1>5 DEF SingleQueue, Off
  <2>2. Cardinality(Off(p)) \in Nat
    BY OffIs
  <2>3. n \in Nat /\ n >= Cardinality(Off(p)) /\ (n = Cardinality(Off(p)) \/ (p.fate = "cut" /\ Reads))
    BY <1>4, <2>2
  <2> HIDE DEF n
  <2> QED
    BY <1>1, <1>5, <2>1, <2>3, VerdictFits
<1>6. CASE ~p.known /\ stream = "dpdk"
  <2>1. p.fate = "route" /\ SingleQueue(p, stale) = [Zero EXCEPT !.rx = 1]
    BY <1>1, <1>6 DEF SingleQueue
  <2> QED
    BY <1>1, <2>1, RxIs DEF Fits
<1>7. CASE ~p.known /\ stream # "dpdk"
  <2>1. p.fate = "route" /\ SingleQueue(p, stale) = Zero
    BY <1>1, <1>7 DEF SingleQueue
  <2> QED
    BY <1>1, <2>1, ZeroIs DEF Fits
<1> QED
  BY <1>5, <1>6, <1>7

LEMMA JudgedFits == ASSUME ConfInv, NEW p, PacketInv(p), NEW a \in Judged(p) PROVE Fits(p, a)
<1>1. CASE judge = "rx"
  BY <1>1, RxWorkerFits DEF Judged
<1>2. CASE judge = "multi"
  BY <1>2, MultiQueueFits DEF Judged
<1>3. CASE judge = "single"
  BY <1>3, SingleQueueFits DEF Judged
<1> QED
  BY <1>1, <1>2, <1>3 DEF ConfInv

-----------------------------------------------------------------------------
(* The packets: the counters *)

\* Totals t of the counters for arrivals a.
Right(t, a) ==
    /\ t.good + t.bad + t.short
           = a.sound + a.alias + (a.bit + a.number) + a.cut
             + (IF stream = "dpdk" /\ judge = "multi" THEN a.route ELSE 0)
    /\ t.bad >= a.bit + a.number
    /\ t.bad =< a.bit + a.number + (IF Reads THEN a.cut ELSE 0)
    /\ t.bits >= t.bad
    /\ a.number + (IF Reads THEN a.cut ELSE 0) = 0 => t.bits = a.bit
    /\ t.short =< a.cut /\ (judge = "rx" /\ ~imix => t.short = a.cut)

Totals == Add(count, published)

CountInv == /\ count \in Counters /\ published \in Counters /\ arrived \in [Fates -> Nat]
            /\ Right(Totals, arrived)
            /\ over /\ judge # "single" => count = Zero

VerdictInv == ConfInv /\ CountInv /\ \A p \in air : PacketInv(p)

\* A packet that is judged leaves the totals right.
LEMMA RightKeeps ==
    ASSUME NEW t \in Counters, NEW a \in [Fates -> Nat], NEW p, p.fate \in Fates,
           NEW d, Fits(p, d), Right(t, a)
    PROVE  Right(Add(t, d), [a EXCEPT ![p.fate] = @ + 1])
<1> DEFINE u == Add(t, d)
           b == [a EXCEPT ![p.fate] = @ + 1]
<1>1. d \in Counters
  BY DEF Fits
<1>2. /\ u.good = t.good + d.good /\ u.bad = t.bad + d.bad /\ u.bits = t.bits + d.bits
      /\ u.short = t.short + d.short
  BY <1>1, AddedIs
<1>3. /\ t.good \in Nat /\ t.bad \in Nat /\ t.bits \in Nat /\ t.short \in Nat
      /\ d.good \in Nat /\ d.bad \in Nat /\ d.bits \in Nat /\ d.short \in Nat
  BY <1>1 DEF Counters
<1>4. /\ a.sound \in Nat /\ a.alias \in Nat /\ a.bit \in Nat /\ a.number \in Nat /\ a.cut \in Nat
      /\ a.route \in Nat
  BY DEF Fates
<1>5. \A f \in Fates : b[f] = IF f = p.fate THEN a[f] + 1 ELSE a[f]
  OBVIOUS
<1>6. /\ b.sound = IF p.fate = "sound" THEN a.sound + 1 ELSE a.sound
      /\ b.alias = IF p.fate = "alias" THEN a.alias + 1 ELSE a.alias
      /\ b.bit = IF p.fate = "bit" THEN a.bit + 1 ELSE a.bit
      /\ b.number = IF p.fate = "number" THEN a.number + 1 ELSE a.number
      /\ b.cut = IF p.fate = "cut" THEN a.cut + 1 ELSE a.cut
      /\ b.route = IF p.fate = "route" THEN a.route + 1 ELSE a.route
  BY <1>5 DEF Fates
<1> HIDE DEF u, b
<1>7. ASSUME p.fate \in {"sound", "alias"} PROVE Right(u, b)
  BY <1>2, <1>3, <1>4, <1>6, <1>7 DEF Right, Fits, AssumedGood
<1>8. ASSUME p.fate = "bit" PROVE Right(u, b)
  BY <1>2, <1>3, <1>4, <1>6, <1>8 DEF Right, Fits, AssumedGood
<1>9. ASSUME p.fate = "number" PROVE Right(u, b)
  BY <1>2, <1>3, <1>4, <1>6, <1>9 DEF Right, Fits, AssumedGood
<1>10. ASSUME p.fate = "cut" PROVE Right(u, b)
  BY <1>2, <1>3, <1>4, <1>6, <1>10 DEF Right, Fits, AssumedGood, Reads
<1>11. ASSUME p.fate = "route" PROVE Right(u, b)
  BY <1>2, <1>3, <1>4, <1>6, <1>11 DEF Right, Fits, AssumedGood
<1> QED
  BY <1>7, <1>8, <1>9, <1>10, <1>11 DEF Fates, u, b

LEMMA TotalsAre == ASSUME NEW a \in Counters, NEW b \in Counters, NEW c \in Counters
                   PROVE  /\ Add(a, Add(b, c)) = Add(Add(a, b), c)
                          /\ Add(Add(a, c), b) = Add(Add(a, b), c)
                          /\ Add(Zero, Add(b, a)) = Add(a, b)
<1>1. ASSUME NEW x \in Counters, NEW y \in Counters, x.rx = y.rx, x.good = y.good,
             x.bad = y.bad, x.bits = y.bits, x.short = y.short
      PROVE  x = y
  BY <1>1 DEF Counters
<1>2. \A x \in Counters : x.rx \in Nat /\ x.good \in Nat /\ x.bad \in Nat /\ x.bits \in Nat /\ x.short \in Nat
  BY DEF Counters
<1>3. Add(a, Add(b, c)) = Add(Add(a, b), c)
  BY <1>1, <1>2, AddedIs
<1>4. Add(Add(a, c), b) = Add(Add(a, b), c)
  BY <1>1, <1>2, AddedIs
<1>5. Add(Zero, Add(b, a)) = Add(a, b)
  <2>1. Zero \in Counters /\ Zero.rx = 0 /\ Zero.good = 0 /\ Zero.bad = 0 /\ Zero.bits = 0
        /\ Zero.short = 0
    BY ZeroIs DEF Zero
  <2> QED
    BY <1>1, <1>2, <2>1, AddedIs
<1> QED
  BY <1>3, <1>4, <1>5

LEMMA VerdictInit == PayloadInit => VerdictInv
<1> SUFFICES ASSUME PayloadInit PROVE VerdictInv
  OBVIOUS
<1>1. ConfInv
  <2>1. imix_counter \in Nat
    <3>1. Len(Pattern) \in Nat
      BY PayloadAssumption DEF Pattern
    <3> QED
      BY <3>1 DEF PayloadInit
  <2> QED
    BY <2>1 DEF PayloadInit, ConfInv
<1>2. count \in Counters /\ published \in Counters /\ arrived \in [Fates -> Nat]
  BY ZeroIs DEF PayloadInit, Fates
<1>3. Right(Totals, arrived)
  <2>1. /\ Totals.good = 0 /\ Totals.bad = 0 /\ Totals.bits = 0 /\ Totals.short = 0
    BY ZeroIs, AddedIs DEF PayloadInit, Totals
  <2>2. /\ arrived.sound = 0 /\ arrived.alias = 0 /\ arrived.bit = 0 /\ arrived.number = 0
        /\ arrived.cut = 0 /\ arrived.route = 0
    BY DEF PayloadInit
  <2> QED
    BY <2>1, <2>2 DEF Right
<1>4. over = FALSE /\ air = {}
  BY DEF PayloadInit
<1> QED
  BY <1>1, <1>2, <1>3, <1>4 DEF VerdictInv, CountInv

LEMMA PacketsStay == ASSUME UNCHANGED <<imix, stream>>, NEW r, PacketInv(r) PROVE PacketInv(r)'
<1>1. imix' = imix /\ stream' = stream
  OBVIOUS
<1>2. TheCache' = TheCache /\ FromRaw' = FromRaw
  BY <1>1 DEF TheCache, FromRaw
<1>3. Off(r)' = Off(r)
  BY <1>2 DEF Off, Wrong
<1>4. Sized(r)' = Sized(r)
  BY <1>1 DEF Sized, TooShort
<1>5. Telling(r)' = Telling(r)
  BY <1>3 DEF Telling
<1> QED
  BY <1>2, <1>4, <1>5 DEF PacketInv, Shaped

LEMMA SpoilKeeps ==
    ASSUME VerdictInv, NEW p \in air, NEW q, NEW f, Spoil(q, f), q.fate = p.fate,
           p.fate = "sound" => PacketInv([q EXCEPT !.fate = f])
    PROVE  VerdictInv'
<1>1. PacketInv([q EXCEPT !.fate = f]) /\ air' = {[q EXCEPT !.fate = f]}
  BY DEF Spoil
<1>2. UNCHANGED <<imix, stream, vl, judge, cached, seq, imix_counter, count, published, over, arrived>>
  BY DEF Spoil
<1>3. ConfInv'
  BY <1>2 DEF VerdictInv, ConfInv
<1>4. CountInv'
  BY <1>2 DEF VerdictInv, CountInv, Totals, Right, Reads
<1>5. ASSUME NEW r, PacketInv(r) PROVE PacketInv(r)'
  BY <1>2, <1>5, PacketsStay
<1>6. \A r \in air' : PacketInv(r)'
  BY <1>1, <1>5
<1> QED
  BY <1>3, <1>4, <1>6 DEF VerdictInv

LEMMA NetworkKeeps == ASSUME VerdictInv, FlipBit \/ FlipNumber \/ Cut \/ Misroute
                      PROVE  VerdictInv'
<1>1. \A p \in air : PacketInv(p)
  BY DEF VerdictInv
<1>2. CASE FlipBit
  <2>1. PICK p \in air, j \in 1..BITS : \E i \in DOMAIN p.bytes :
            Spoil([p EXCEPT !.bytes[i][j] = ~@], "bit")
    BY <1>2 DEF FlipBit
  <2>2. PICK i \in DOMAIN p.bytes : Spoil([p EXCEPT !.bytes[i][j] = ~@], "bit")
    BY <2>1
  <2> DEFINE q == [p EXCEPT !.bytes[i][j] = ~@]
  <2>3. q.fate = p.fate
    BY <1>1 DEF PacketInv, Shaped
  <2>4. p.fate = "sound" => PacketInv([q EXCEPT !.fate = "bit"])
    BY <1>1, FlipKeeps
  <2> HIDE DEF q
  <2>5. Spoil(q, "bit")
    BY <2>2 DEF q
  <2> QED
    BY <2>3, <2>4, <2>5, SpoilKeeps
<1>3. CASE FlipNumber
  <2>1. PICK p \in air, n \in 0..(MaxSeq + 1) :
            Spoil([p EXCEPT !.seq = n],
                  IF VerifyOffset(n) = VerifyOffset(p.seq) THEN "alias" ELSE "number")
    BY <1>3 DEF FlipNumber
  <2> DEFINE q == [p EXCEPT !.seq = n]
             f == IF VerifyOffset(n) = VerifyOffset(p.seq) THEN "alias" ELSE "number"
  <2>2. q.fate = p.fate
    BY <1>1 DEF PacketInv, Shaped
  <2>3. n \in Nat
    OBVIOUS
  <2>4. p.fate = "sound" => PacketInv([q EXCEPT !.fate = f])
    BY <1>1, <2>3, NumberKeeps
  <2> HIDE DEF q, f
  <2>5. Spoil(q, f)
    BY <2>1 DEF q, f
  <2> QED
    BY <2>2, <2>4, <2>5, SpoilKeeps
<1>4. CASE Cut
  <2>0. PICK p \in air : \E n \in 0..(Len(p.bytes) - 1) :
            Spoil([p EXCEPT !.bytes = SubSeq(@, 1, n)], "cut")
    BY <1>4 DEF Cut
  <2>1. PICK n \in 0..(Len(p.bytes) - 1) : Spoil([p EXCEPT !.bytes = SubSeq(@, 1, n)], "cut")
    BY <2>0
  <2> DEFINE q == [p EXCEPT !.bytes = SubSeq(@, 1, n)]
  <2>2. q.fate = p.fate
    BY <1>1 DEF PacketInv, Shaped
  <2>3. p.fate = "sound" => PacketInv([q EXCEPT !.fate = "cut"])
    BY <1>1, <2>1, CutKeeps
  <2> HIDE DEF q
  <2>4. Spoil(q, "cut")
    BY <2>1 DEF q
  <2> QED
    BY <2>2, <2>3, <2>4, SpoilKeeps
<1>5. CASE Misroute
  <2>1. PICK p \in air : Spoil([p EXCEPT !.known = FALSE], "route")
    BY <1>5 DEF Misroute
  <2> DEFINE q == [p EXCEPT !.known = FALSE]
  <2>2. q.fate = p.fate
    BY <1>1 DEF PacketInv, Shaped
  <2>3. p.fate = "sound" => PacketInv([q EXCEPT !.fate = "route"])
    BY <1>1, RouteKeeps
  <2> HIDE DEF q
  <2>4. Spoil(q, "route")
    BY <2>1 DEF q
  <2> QED
    BY <2>2, <2>3, <2>4, SpoilKeeps
<1> QED
  BY <1>2, <1>3, <1>4, <1>5

LEMMA SendKeeps == ASSUME VerdictInv, Send PROVE VerdictInv'
<1>1. UNCHANGED <<imix, stream, vl, judge, count, published, over, arrived>>
  BY DEF Send
<1>2. ConfInv'
  <2>1. seq' \in Nat
    BY DEF Send, VerdictInv, ConfInv
  <2>2. Len(Pattern) \in Nat \ {0}
    BY PayloadAssumption DEF Pattern
  <2>3. imix_counter' \in Nat
    BY <2>2 DEF Send, VerdictInv, ConfInv
  <2> QED
    BY <1>1, <2>1, <2>3 DEF VerdictInv, ConfInv
<1>3. CountInv'
  BY <1>1 DEF VerdictInv, CountInv, Totals, Right, Reads
<1>4. PacketInv(Built)
  BY BuiltIs DEF VerdictInv
<1>5. \A p \in air' : p = Built
  BY DEF Send
<1>6. \A p \in air' : PacketInv(p)'
  BY <1>1, <1>4, <1>5, PacketsStay
<1> QED
  BY <1>2, <1>3, <1>6 DEF VerdictInv

LEMMA ReceiveKeeps == ASSUME VerdictInv, Receive PROVE VerdictInv'
<1>1. PICK p \in air : \E a \in Judged(p) :
         /\ ~over /\ air' = {}
         /\ IF stream = "peer" THEN published' = Add(published, a) /\ UNCHANGED count
                               ELSE count' = Add(count, a) /\ UNCHANGED published
         /\ arrived' = [arrived EXCEPT ![p.fate] = @ + 1]
  BY DEF Receive
<1>2. PICK a \in Judged(p) :
         /\ ~over /\ air' = {}
         /\ IF stream = "peer" THEN published' = Add(published, a) /\ UNCHANGED count
                               ELSE count' = Add(count, a) /\ UNCHANGED published
         /\ arrived' = [arrived EXCEPT ![p.fate] = @ + 1]
  BY <1>1
<1>3. UNCHANGED <<imix, stream, vl, judge, seq, imix_counter, over>>
  BY DEF Receive
<1>4. ConfInv /\ ConfInv'
  BY <1>3 DEF VerdictInv, ConfInv
<1>5. PacketInv(p) /\ p.fate \in Fates
  BY DEF VerdictInv, PacketInv
<1>6. Fits(p, a) /\ a \in Counters
  BY <1>4, <1>5, JudgedFits DEF Fits
<1>7. /\ count \in Counters /\ published \in Counters /\ arrived \in [Fates -> Nat]
      /\ Right(Totals, arrived)
  BY DEF VerdictInv, CountInv
<1>8. Totals \in Counters
  BY <1>7, AddedIs DEF Totals
<1>9. count' \in Counters /\ published' \in Counters /\ Totals' = Add(Totals, a)
  <2>1. CASE stream = "peer"
    BY <1>2, <1>6, <1>7, <2>1, AddedIs, TotalsAre DEF Totals
  <2>2. CASE stream # "peer"
    BY <1>2, <1>6, <1>7, <2>2, AddedIs, TotalsAre DEF Totals
  <2> QED
    BY <2>1, <2>2
<1>10. arrived' \in [Fates -> Nat]
  BY <1>2, <1>5, <1>7
<1>11. Right(Add(Totals, a), [arrived EXCEPT ![p.fate] = @ + 1])
  BY <1>5, <1>6, <1>7, <1>8, RightKeeps
<1>12. Right(Totals, arrived)'
  BY <1>2, <1>3, <1>9, <1>11 DEF Right, Reads
<1>13. CountInv'
  BY <1>2, <1>3, <1>9, <1>10, <1>12 DEF CountInv
<1> QED
  BY <1>2, <1>4, <1>13 DEF VerdictInv

LEMMA PublishKeeps == ASSUME VerdictInv, PublishDue \/ LeaveRx PROVE VerdictInv'
<1>1. UNCHANGED <<imix, stream, vl, judge, seq, imix_counter, air, arrived>>
  BY DEF PublishDue, LeaveRx
<1>2. ConfInv'
  BY <1>1 DEF VerdictInv, ConfInv
<1>3. \A p \in air' : PacketInv(p)'
  BY <1>1, PacketsStay DEF VerdictInv
<1>4. /\ count \in Counters /\ published \in Counters /\ arrived \in [Fates -> Nat]
      /\ Right(Totals, arrived)
  BY DEF VerdictInv, CountInv
<1>5. CASE Publish
  <2>1. count' = Zero /\ published' = Add(published, count)
    BY <1>5 DEF Publish
  <2>2. count' \in Counters /\ published' \in Counters
    BY <1>4, <2>1, ZeroIs, AddedIs
  <2>3. Totals' = Totals
    BY <1>4, <2>1, TotalsAre DEF Totals
  <2>4. Right(Totals, arrived)'
    BY <1>1, <1>4, <2>3 DEF Right, Reads
  <2>5. CountInv'
    BY <1>1, <1>4, <2>1, <2>2, <2>4 DEF CountInv
  <2> QED
    BY <1>2, <1>3, <2>5 DEF VerdictInv
<1>6. CASE judge = "single" /\ UNCHANGED <<count, published>>
  <2>1. Right(Totals, arrived)'
    BY <1>1, <1>4, <1>6 DEF Right, Reads, Totals
  <2>2. CountInv'
    BY <1>1, <1>4, <1>6, <2>1 DEF CountInv
  <2> QED
    BY <1>2, <1>3, <2>2 DEF VerdictInv
<1> QED
  BY <1>5, <1>6 DEF PublishDue, LeaveRx

LEMMA VerdictStep == ASSUME VerdictInv, [PayloadNext]_payloadVars PROVE VerdictInv'
<1>1. CASE UNCHANGED payloadVars
  <2>1. UNCHANGED <<imix, stream, vl, judge, seq, imix_counter, air, count, published, over, arrived>>
    BY <1>1 DEF payloadVars
  <2>2. ConfInv'
    BY <2>1 DEF VerdictInv, ConfInv
  <2>3. CountInv'
    BY <2>1 DEF VerdictInv, CountInv, Totals, Right, Reads
  <2>4. \A p \in air' : PacketInv(p)'
    BY <2>1, PacketsStay DEF VerdictInv
  <2> QED
    BY <2>2, <2>3, <2>4 DEF VerdictInv
<1> QED
  BY <1>1, SendKeeps, NetworkKeeps, ReceiveKeeps, PublishKeeps DEF PayloadNext

\* Whatever is sent, however long, and whatever the network does to it: what it changed, and
\* nothing else, is found bad, with no bit too many; and what DPDK ports send has a sound
\* header.
THEOREM VerdictsHold == PayloadSpec => []VerdictsAreRight
<1>1. VerdictInv => VerdictsAreRight
  <2> SUFFICES ASSUME VerdictInv PROVE VerdictsAreRight
    OBVIOUS
  <2>1. /\ count \in Counters /\ published \in Counters /\ arrived \in [Fates -> Nat]
        /\ Right(Totals, arrived) /\ (over /\ judge # "single" => count = Zero)
    BY DEF VerdictInv, CountInv
  <2>2. Totals \in Counters
    BY <2>1, AddedIs DEF Totals
  <2> DEFINE t == Totals
             a == arrived
             reads == IF Reads THEN a.cut ELSE 0
  <2>3. /\ t.bad \in Nat /\ t.bits \in Nat
        /\ a.bit \in Nat /\ a.number \in Nat /\ a.cut \in Nat
    BY <2>1, <2>2 DEF Counters, Fates
  <2>4. t.bad \in (a.bit + a.number)..(a.bit + a.number + reads)
    BY <2>1, <2>3 DEF Right
  <2>5. \A p \in air : ~FromRaw => Sums(p.header)
    BY DEF VerdictInv, PacketInv
  <2> QED
    BY <2>1, <2>4, <2>5 DEF VerdictsAreRight, Right, Reads, Totals
<1> QED
  BY <1>1, VerdictInit, VerdictStep, PTL DEF PayloadSpec

-----------------------------------------------------------------------------
(* All sides together *)

\* Each side of the traffic takes steps of its own, or none.
LEMMA SidesAre == TrafficSpec => Spec /\ PayloadSpec /\ PacingSpec
<1>1. TrafficInit => Init /\ PayloadInit /\ PacingInit
  BY DEF TrafficInit
<1>2. [TrafficNext]_trafficVars => /\ [Next]_vars /\ [PayloadNext]_payloadVars
                                   /\ [PacingNext]_pacingVars
  BY DEF TrafficNext, trafficVars
<1> QED
  BY <1>1, <1>2, PTL DEF TrafficSpec, Spec, PayloadSpec, PacingSpec

\* All that is promised of the raw ports, of the packets and of the pacing holds in the
\* application that has them.
THEOREM TrafficIsKept ==
    TrafficSpec => [](LossIsReal /\ GapsNotHidden /\ VerdictsAreRight /\ PacingKept)
<1> QED
  BY SidesAre, LossesAreReal, GapsAreCounted, VerdictsHold, PacingIsKept, PTL
=============================================================================

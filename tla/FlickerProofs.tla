----------------------------- MODULE FlickerProofs -----------------------------
(***************************************************************************)
(* Theorems about Flicker, for any number of frames, commands and failing  *)
(* calls: the frames of an input come into its video in order              *)
(* (VideoInOrder), no buffer is freed under a callback that copies from it *)
(* (NoFreedBuffer), and a DVI channel that was stopped can be started      *)
(* again (DviRestarts).                                                    *)
(*                                                                         *)
(* The last two rest on what the threads of the program have yet to do:    *)
(* a list of calls that frees a buffer switches the card off and settles   *)
(* it before, and what a channel still has to go through (its stage) says  *)
(* which of its threads exist.                                             *)
(***************************************************************************)
EXTENDS Flicker, SequenceTheorems, TLAPS

-----------------------------------------------------------------------------
(* The frames of an input.                                                 *)

\* The frames of a queue, none before lo or after hi, each no older than the one before.
FramesFrom(q, lo, hi) ==
    /\ q \in Seq(Nat) /\ lo \in Nat /\ hi \in Nat /\ lo <= hi
    /\ \A a \in 1..Len(q) : lo <= q[a] /\ q[a] <= hi
    /\ \A a, b \in 1..Len(q) : a <= b => q[a] <= q[b]

\* A frame goes from the DMA buffer into the queue, to the worker, into the image and
\* into the video, and each of them has an older one than the place before.
FramesInOrder ==
    /\ shot \in [Input -> Nat] /\ inHand \in [Input -> Nat]
    /\ queue \in [Input -> Seq(Nat)]
    /\ image \in [Input -> Nat] /\ recorded \in [Input -> Nat]
    /\ \A i \in Input : /\ recorded[i] <= image[i] /\ image[i] <= inHand[i]
                        /\ FramesFrom(queue[i], inHand[i], shot[i])

frameVars == <<shot, queue, inHand, image, recorded>>

\* The frame of the DMA buffer is queued.
LEMMA NewestFrameQueued ==
    ASSUME NEW q, NEW lo, NEW hi, FramesFrom(q, lo, hi)
    PROVE  FramesFrom(Append(q, hi), lo, hi)
<1> USE DEF FramesFrom
<1>1. q \in Seq(Nat) /\ hi \in Nat /\ Len(q) \in Nat
  OBVIOUS
<1>2. /\ Append(q, hi) \in Seq(Nat) /\ Len(Append(q, hi)) = Len(q) + 1
      /\ \A a \in 1..(Len(q) + 1) : Append(q, hi)[a] = IF a <= Len(q) THEN q[a] ELSE hi
  BY <1>1, AppendProperties
<1> QED
  BY <1>1, <1>2

\* The oldest frame leaves a queue.
LEMMA OldestFrameTaken ==
    ASSUME NEW q, NEW lo, NEW hi, FramesFrom(q, lo, hi), q # <<>>
    PROVE  /\ OldestFrame(q).frame \in Nat /\ lo <= OldestFrame(q).frame
           /\ OldestFrame(q).rest \in Seq(Nat)
           /\ FramesFrom(OldestFrame(q).rest, OldestFrame(q).frame, hi)
<1> USE DEF FramesFrom
<1>1. q \in Seq(Nat) /\ Len(q) \in Nat \ {0} /\ Head(q) = q[1]
  BY EmptySeq
<1>2. /\ Head(q) \in Nat /\ Tail(q) \in Seq(Nat) /\ Len(Tail(q)) = Len(q) - 1
      /\ \A a \in 1..Len(Tail(q)) : Tail(q)[a] = q[a + 1]
  BY <1>1, HeadTailProperties
<1>3. OldestFrame(q).frame = Head(q) /\ OldestFrame(q).rest = Tail(q)
  BY DEF OldestFrame
<1>4. lo <= q[1] /\ q[1] <= hi
  BY <1>1
<1>5. \A a \in 1..Len(Tail(q)) : q[1] <= Tail(q)[a] /\ Tail(q)[a] <= hi
  <2> TAKE a \in 1..Len(Tail(q))
  <2>1. a + 1 \in 1..Len(q) /\ 1 \in 1..Len(q) /\ 1 <= a + 1
    BY <1>1, <1>2
  <2> QED
    BY <2>1, <1>2
<1>6. \A a, b \in 1..Len(Tail(q)) : a <= b => Tail(q)[a] <= Tail(q)[b]
  <2> TAKE a, b \in 1..Len(Tail(q))
  <2>1. a + 1 \in 1..Len(q) /\ b + 1 \in 1..Len(q) /\ (a <= b => a + 1 <= b + 1)
    BY <1>1, <1>2
  <2> QED
    BY <2>1, <1>2
<1> QED
  BY <1>1, <1>2, <1>3, <1>4, <1>5, <1>6

\* A newer frame in the DMA buffer leaves the queue as it was.
LEMMA NewerFrameShot ==
    ASSUME NEW q, NEW lo, NEW hi, FramesFrom(q, lo, hi)
    PROVE  FramesFrom(q, lo, hi + 1)
<1>1. \A a \in 1..Len(q) : q[a] \in Nat
  BY DEF FramesFrom
<1> QED
  BY <1>1 DEF FramesFrom

\* A callback takes a frame, or queues it.
LEMMA CallbackKeepsOrder ==
    ASSUME FramesInOrder, NEW i \in Input, UserCallBack_Card1(i) \/ UserCallBack_Card2(i),
           UNCHANGED <<inHand, image, recorded>>
    PROVE  FramesInOrder' /\ UNCHANGED recorded
<1>1. /\ shot' = shot \/ shot' = [shot EXCEPT ![i] = @ + 1]
      /\ queue' = queue \/ queue' = [queue EXCEPT ![i] = Append(@, shot[i])]
      /\ shot' = shot \/ queue' = queue
  BY DEF UserCallBack_Card1, UserCallBack_Card2, Queue
<1>2. FramesFrom(queue[i], inHand[i], shot[i]) /\ shot[i] \in Nat /\ queue[i] \in Seq(Nat)
  BY DEF FramesInOrder
<1>3. CASE shot' = [shot EXCEPT ![i] = @ + 1] /\ queue' = queue
  <2>1. FramesFrom(queue[i], inHand[i], shot[i] + 1)
    BY <1>2, NewerFrameShot
  <2>2. shot' \in [Input -> Nat]
    BY <1>2, <1>3 DEF FramesInOrder
  <2> QED
    BY <2>1, <2>2, <1>3 DEF FramesInOrder
<1>4. CASE queue' = [queue EXCEPT ![i] = Append(@, shot[i])] /\ shot' = shot
  <2>1. FramesFrom(Append(queue[i], shot[i]), inHand[i], shot[i])
    BY <1>2, NewestFrameQueued
  <2>2. Append(queue[i], shot[i]) \in Seq(Nat)
    BY <2>1 DEF FramesFrom
  <2>3. queue' \in [Input -> Seq(Nat)]
    BY <2>2, <1>4 DEF FramesInOrder
  <2> QED
    BY <2>1, <2>3, <1>4 DEF FramesInOrder
<1>5. CASE UNCHANGED frameVars
  BY <1>5 DEF FramesInOrder, frameVars
<1> QED
  BY <1>1, <1>3, <1>4, <1>5 DEF frameVars

\* A worker begins, takes a frame, or falls asleep.
LEMMA WorkKeepsOrder ==
    ASSUME FramesInOrder, NEW i \in Input, Work(i)
    PROVE  FramesInOrder' /\ UNCHANGED recorded
<1>1. UNCHANGED <<shot, image, recorded>>
  BY DEF Work
<1>2. CASE TakeFrame(i) /\ queue[i] # <<>>
  <2> DEFINE f == OldestFrame(queue[i]).frame
             r == OldestFrame(queue[i]).rest
  <2>1. /\ inHand' = [inHand EXCEPT ![i] = f]
        /\ queue' = [queue EXCEPT ![i] = r]
    BY <1>2 DEF TakeFrame
  <2>2. /\ FramesFrom(queue[i], inHand[i], shot[i]) /\ inHand[i] \in Nat /\ image[i] \in Nat
        /\ image[i] <= inHand[i]
    BY DEF FramesInOrder
  <2>3. /\ f \in Nat /\ inHand[i] <= f /\ r \in Seq(Nat) /\ FramesFrom(r, f, shot[i])
    BY <2>2, <1>2, OldestFrameTaken
  <2> HIDE DEF f, r
  <2>4. image[i] <= f
    BY <2>2, <2>3
  <2>5. inHand' \in [Input -> Nat] /\ queue' \in [Input -> Seq(Nat)]
    BY <2>1, <2>3 DEF FramesInOrder
  <2> QED
    BY <1>1, <2>1, <2>3, <2>4, <2>5 DEF FramesInOrder
<1>3. CASE UNCHANGED <<inHand, queue>>
  BY <1>1, <1>3 DEF FramesInOrder
<1> QED
  BY <1>1, <1>2, <1>3 DEF Work, TakeFrame, BeginWorker, FallAsleep

\* A frame is converted, or handed on.
LEMMA HandleKeepsOrder ==
    ASSUME FramesInOrder, NEW i \in Input, Handle(i)
    PROVE  FramesInOrder' /\ UNCHANGED recorded
<1>1. UNCHANGED <<shot, queue, inHand, recorded>>
  BY DEF Handle
<1>2. CASE image' = [image EXCEPT ![i] = inHand[i]]
  <2>1. /\ inHand[i] \in Nat /\ image[i] \in Nat /\ recorded[i] \in Nat
        /\ recorded[i] <= image[i] /\ image[i] <= inHand[i]
    BY DEF FramesInOrder
  <2>2. recorded[i] <= inHand[i] /\ inHand[i] <= inHand[i]
    BY <2>1
  <2>3. image' \in [Input -> Nat]
    BY <1>2, <2>1 DEF FramesInOrder
  <2> QED
    BY <1>1, <1>2, <2>1, <2>2, <2>3 DEF FramesInOrder
<1>3. CASE UNCHANGED image
  BY <1>1, <1>3 DEF FramesInOrder
<1> QED
  BY <1>2, <1>3 DEF Handle

\* What goes into the video is the image as it is by then.
LEMMA ShowKeepsOrder ==
    ASSUME FramesInOrder, NEW i \in Input, Show(i)
    PROVE  FramesInOrder' /\ \A j \in Input : recorded'[j] >= recorded[j]
<1>1. UNCHANGED <<shot, queue, inHand, image>>
  BY DEF Show, OpenWindow, TakeImage, ShowImage
<1>2. recorded' = [recorded EXCEPT ![i] = image[i]] \/ UNCHANGED recorded
  <2>1. CASE ShowImage(i)
    <3>1. \A x : [recorded EXCEPT ![i] = x] = [recorded EXCEPT ![i] = x]
      OBVIOUS
    <3>2. recorded = [recorded EXCEPT ![i] = recorded[i]]
      BY DEF FramesInOrder
    <3> QED
      BY <2>1, <3>2 DEF ShowImage
  <2> QED
    BY <2>1 DEF Show, OpenWindow, TakeImage
<1>3. \A j \in Input : /\ recorded[j] \in Nat /\ image[j] \in Nat /\ recorded[j] <= image[j]
                       /\ image[j] <= image[j] /\ recorded[j] >= recorded[j]
                       /\ image[j] >= recorded[j]
  BY DEF FramesInOrder
<1>4. CASE recorded' = [recorded EXCEPT ![i] = image[i]]
  <2>1. recorded' \in [Input -> Nat]
    BY <1>3, <1>4 DEF FramesInOrder
  <2>2. \A j \in Input : recorded'[j] = IF j = i THEN image[j] ELSE recorded[j]
    BY <1>4 DEF FramesInOrder
  <2> QED
    BY <1>1, <1>3, <2>1, <2>2 DEF FramesInOrder
<1>5. CASE UNCHANGED recorded
  BY <1>1, <1>3, <1>5 DEF FramesInOrder
<1> QED
  BY <1>2, <1>4, <1>5

\* The calls of the program move no frame.
LEMMA CallsMoveNoFrame ==
    ASSUME NEW t, Make(t) \/ processCommands \/ stopAllSystemsOnce \/ Leave
    PROVE  UNCHANGED frameVars
<1>1. CASE UNCHANGED inputVars
  BY <1>1 DEF inputVars, frameVars
<1>2. ASSUME NEW i \in Input,
             StartThread(t, i) \/ SignalThread(t, i) \/ JoinThread(t, i) \/ stopDisplayThread(t, i)
      PROVE  UNCHANGED frameVars
  BY <1>2 DEF StartThread, SignalThread, JoinThread, stopDisplayThread, frameVars
<1>3. TestMinute(t) => UNCHANGED frameVars
  BY DEF TestMinute, frameVars
<1>4. processCommands \/ stopAllSystemsOnce \/ Leave => UNCHANGED inputVars
  BY DEF processCommands, Command, stopAllSystemsOnce, Leave
<1>5. ASSUME NEW c \in Card,
             \/ OpenDriver(t, c) \/ configureDriver(t, c) \/ Settle(t, c)
             \/ StopThreads(t, c) \/ closeCard(t, c) \/ TestPattern(t, c)
             \/ videoWritersRelease(t, c)
      PROVE  UNCHANGED inputVars
  BY <1>5 DEF OpenDriver, configureDriver, Settle, StopThreads, closeCard, TestPattern,
       videoWritersRelease
<1>6. ASSUME NEW i \in Input,
             \/ allocateMemoryBuffers(t, i) \/ deAllocateMemoryBuffers(t, i)
             \/ createDirectory(t, i)
      PROVE  UNCHANGED inputVars
  BY <1>6 DEF allocateMemoryBuffers, deAllocateMemoryBuffers, createDirectory
<1>7. Halt(t) \/ Begin(t) \/ initializeVideoWriters(t) \/ Throw(t) => UNCHANGED inputVars
  BY DEF Halt, Begin, initializeVideoWriters, Throw
<1> QED
  BY <1>1, <1>2, <1>3, <1>4, <1>5, <1>6, <1>7 DEF Make

\* Every step of the Velocity half.
LEMMA CaptureKeepsOrder ==
    ASSUME FramesInOrder, CaptureNext
    PROVE  FramesInOrder' /\ \A j \in Input : recorded'[j] >= recorded[j]
<1>1. UNCHANGED recorded => \A j \in Input : recorded'[j] >= recorded[j]
  BY DEF FramesInOrder
<1>2. UNCHANGED frameVars => FramesInOrder' /\ UNCHANGED recorded
  BY DEF frameVars, FramesInOrder
<1>3. ASSUME NEW i \in Input, UserCallBack_Card1(i) \/ UserCallBack_Card2(i),
             UNCHANGED <<inHand, image, recorded>>
      PROVE  FramesInOrder' /\ UNCHANGED recorded
  BY <1>3, CallbackKeepsOrder
<1>4. ASSUME NEW i \in Input, Work(i) \/ Show(i)
      PROVE  FramesInOrder' /\ \A j \in Input : recorded'[j] >= recorded[j]
  BY <1>1, <1>4, WorkKeepsOrder, ShowKeepsOrder
<1>5. HandleCard1Channel1 \/ HandleCard1Channel2 \/ HandleCard2Channel1 \/ HandleCard2Channel2
          => FramesInOrder' /\ UNCHANGED recorded
  <2>1. <<1, 1>> \in Input /\ <<1, 2>> \in Input /\ <<2, 1>> \in Input /\ <<2, 2>> \in Input
    BY DEF Input, Card
  <2> QED
    BY <2>1, HandleKeepsOrder
    DEF HandleCard1Channel1, HandleCard1Channel2, HandleCard2Channel1, HandleCard2Channel2
<1>6. (\E t \in {"main", "stop"} : Make(t)) \/ processCommands \/ stopAllSystemsOnce \/ Leave
          => UNCHANGED frameVars
  BY CallsMoveNoFrame
<1> QED
  BY <1>1, <1>2, <1>3, <1>4, <1>5, <1>6 DEF CaptureNext

\* VideoInOrder, for any number of frames, failures and commands: the frames of an input
\* come into its video in the order in which they were taken, although the callback, the
\* worker, the display thread and the image they share each run at their own pace, and
\* the threads are stopped and started again under them.
THEOREM VideosAreInOrder == Spec => VideoInOrder
<1>1. Init => FramesInOrder
  BY EmptySeq DEF Init, CaptureInit, All, FramesInOrder, FramesFrom
<1>2. FramesInOrder /\ [Next]_vars =>
          FramesInOrder' /\ [\A i \in Input : recorded'[i] >= recorded[i]]_captureVars
  <2> SUFFICES ASSUME FramesInOrder, [Next]_vars
               PROVE  FramesInOrder' /\ [\A i \in Input : recorded'[i] >= recorded[i]]_captureVars
    OBVIOUS
  <2>1. UNCHANGED captureVars => FramesInOrder'
    BY DEF captureVars, inputVars, FramesInOrder
  <2> QED
    BY <2>1, CaptureKeepsOrder DEF Next, vars
<1> QED
  BY <1>1, <1>2, PTL DEF Spec, VideoInOrder

-----------------------------------------------------------------------------
(* The buffers, and what a list of calls does to them.                     *)

Doings == {"begin", "open", "off", "settle", "prepare", "alloc", "start", "writers", "on",
           "signal", "join", "joinDisplay", "release", "free", "folder", "threads", "halt",
           "close", "pattern", "minute"}
AnyCall == [do : Doings, at : Card \cup Input \cup {0} \cup SUBSET Input]

\* A call that frees a buffer of a card, and one after which its callbacks may run.
Frees(x, c) == \/ x.do = "free" /\ x.at \in InputsOf(c)
               \/ x.do = "close" /\ x.at = c
Wakes(x, c) == x.do \in {"on", "open", "pattern"} /\ x.at = c

\* The flow of a card is off, and none of its callbacks is under way.
Still == {c \in Card : c \notin opened \/ c \notin receiving}
Quiet == {c \in Still : \A i \in InputsOf(c) : callback[i] = "idle"}

\* Before the k-th call of a list, which begins with the cards q quiet, card c is quiet:
\* it was from the beginning or since it was settled, and nothing has woken it.
Rests(l, q, k, c) ==
    \E j \in 0..(k - 1) :
        /\ IF j = 0 THEN c \in q ELSE l[j] = Call("settle", c)
        /\ \A m \in (j + 1)..(k - 1) : ~Wakes(l[m], c)

\* A card is settled only after it was switched off, s: the cards that are as it begins.
SettlesAfterOff(l, s) ==
    \A k \in 1..Len(l), c \in Card :
        l[k] = Call("settle", c) => IF k = 1 THEN c \in s ELSE l[k - 1] = Call("off", c)

\* The list frees the buffers of quiet cards only.
Guarded(l, q, s) ==
    /\ l \in Seq(AnyCall)
    /\ SettlesAfterOff(l, s)
    /\ \A k \in 1..Len(l), c \in Card : Frees(l[k], c) => Rests(l, q, k, c)

\* And it leaves the cards r quiet.
Takes(l, q, r) == Guarded(l, q, {}) /\ \A c \in r : Rests(l, q, Len(l) + 1, c)

\* The lists of a thread but for the first, before they begin.
Sound(l) == l # <<>> /\ Guarded(l, {}, {})
SoundScript(sc) == sc \in Seq(Seq(AnyCall)) /\ \A k \in 1..Len(sc) : Sound(sc[k])

\* The first list is under way, the others are to come.
Ready(sc, q, s) ==
    sc # <<>> =>
      /\ sc \in Seq(Seq(AnyCall))
      /\ Head(sc) # <<>> /\ Guarded(Head(sc), q, s)
      /\ SoundScript(Tail(sc))

\* One thread at a time has calls to make, unless somebody was early, and then it frees
\* no buffer that a callback reads.
BuffersKept ==
    /\ callback \in [Input -> {"idle", "copy"}]
    /\ DOMAIN script = {"main", "stop"}
    /\ ~early =>
         /\ script["main"] = <<>> \/ script["stop"] = <<>>
         /\ \A t \in {"main", "stop"} : Ready(script[t], Quiet, Still)
         /\ NoFreedBuffer

-----------------------------------------------------------------------------

\* A card that is quiet to begin with, or one more, is quiet all the same.
LEMMA RestsMore ==
    ASSUME NEW l, NEW q, NEW q2, NEW k, NEW c, q \subseteq q2, Rests(l, q, k, c)
    PROVE  Rests(l, q2, k, c)
BY DEF Rests

\* With more cards quiet, or switched off, to begin with, a guarded list is guarded.
LEMMA GuardedMore ==
    ASSUME NEW l, NEW q, NEW q2, NEW s, NEW s2, q \subseteq q2, s \subseteq s2,
           Guarded(l, q, s)
    PROVE  Guarded(l, q2, s2)
<1>1. \A k \in 1..Len(l), c \in Card : Frees(l[k], c) => Rests(l, q2, k, c)
  BY RestsMore DEF Guarded
<1>2. SettlesAfterOff(l, s2)
  BY DEF Guarded, SettlesAfterOff
<1> QED
  BY <1>1, <1>2 DEF Guarded

\* The first call of a list is made, and the state follows it.
LEMMA FirstCallMade ==
    ASSUME NEW l, NEW q, NEW s, NEW q2, NEW s2, l # <<>>, Guarded(l, q, s),
           \A c \in Card : c \in q /\ ~Wakes(Head(l), c) => c \in q2,
           \A c \in Card : Head(l) = Call("settle", c) /\ c \in s => c \in q2,
           \A c \in Card : Head(l) = Call("off", c) => c \in s2
    PROVE  Guarded(Tail(l), q2, s2)
<1>1. /\ l \in Seq(AnyCall) /\ Len(l) \in Nat \ {0} /\ Tail(l) \in Seq(AnyCall)
      /\ Len(Tail(l)) = Len(l) - 1 /\ Head(l) = l[1]
      /\ \A k \in 1..Len(Tail(l)) : Tail(l)[k] = l[k + 1]
  BY EmptySeq, HeadTailProperties DEF Guarded
<1>2. SettlesAfterOff(Tail(l), s2)
  <2> SUFFICES ASSUME NEW k \in 1..Len(Tail(l)), NEW c \in Card,
                      Tail(l)[k] = Call("settle", c)
               PROVE  IF k = 1 THEN c \in s2 ELSE Tail(l)[k - 1] = Call("off", c)
    BY DEF SettlesAfterOff
  <2>1. k + 1 \in 1..Len(l) /\ k + 1 # 1 /\ (k + 1) - 1 = k /\ l[k + 1] = Call("settle", c)
    BY <1>1
  <2>2. l[k] = Call("off", c)
    BY <2>1 DEF Guarded, SettlesAfterOff
  <2>3. k # 1 => k - 1 \in 1..Len(Tail(l)) /\ (k - 1) + 1 = k
    BY <1>1
  <2> QED
    BY <1>1, <2>2, <2>3
<1>3. ASSUME NEW k \in 1..Len(Tail(l)), NEW c \in Card, Frees(Tail(l)[k], c)
      PROVE  Rests(Tail(l), q2, k, c)
  <2>1. k + 1 \in 1..Len(l) /\ k \in Nat /\ Frees(l[k + 1], c)
    BY <1>1, <1>3
  <2>2. Rests(l, q, k + 1, c)
    BY <2>1 DEF Guarded
  <2>3. PICK j \in 0..k : /\ IF j = 0 THEN c \in q ELSE l[j] = Call("settle", c)
                          /\ \A m \in (j + 1)..k : ~Wakes(l[m], c)
    BY <2>1, <2>2 DEF Rests
  <2>4. CASE j > 1
    <3>1. j - 1 \in 1..Len(Tail(l)) /\ (j - 1) + 1 = j /\ j - 1 \in 0..(k - 1) /\ j - 1 # 0
      BY <1>1, <2>1, <2>4
    <3>2. Tail(l)[j - 1] = Call("settle", c)
      BY <1>1, <2>3, <2>4, <3>1
    <3>3. \A m \in ((j - 1) + 1)..(k - 1) : ~Wakes(Tail(l)[m], c)
      <4> TAKE m \in ((j - 1) + 1)..(k - 1)
      <4>1. m + 1 \in (j + 1)..k /\ m \in 1..Len(Tail(l))
        BY <1>1, <2>1, <2>4
      <4> QED
        BY <4>1, <2>3, <1>1
    <3> QED
      BY <3>1, <3>2, <3>3 DEF Rests
  <2>5. CASE j <= 1
    <3>1. c \in q2
      <4>1. CASE j = 0
        <5>1. c \in q /\ 1 \in (j + 1)..k
          BY <2>3, <2>1, <4>1
        <5>2. ~Wakes(Head(l), c)
          BY <5>1, <2>3, <1>1
        <5> QED
          BY <5>1, <5>2
      <4>2. CASE j = 1
        <5>1. l[1] = Call("settle", c) /\ 1 \in 1..Len(l)
          BY <4>2, <2>3, <1>1
        <5>2. c \in s
          BY <5>1 DEF Guarded, SettlesAfterOff
        <5> QED
          BY <5>1, <5>2, <1>1
      <4> QED
        BY <2>5, <4>1, <4>2
    <3>2. \A m \in 1..(k - 1) : ~Wakes(Tail(l)[m], c)
      <4> TAKE m \in 1..(k - 1)
      <4>1. m + 1 \in (j + 1)..k /\ m \in 1..Len(Tail(l))
        BY <1>1, <2>1, <2>5
      <4> QED
        BY <4>1, <2>3, <1>1
    <3>3. 0 \in 0..(k - 1) /\ 0 + 1 = 1
      BY <2>1
    <3> QED
      BY <3>1, <3>2, <3>3 DEF Rests
  <2> QED
    BY <2>1, <2>4, <2>5
<1> QED
  BY <1>1, <1>2, <1>3 DEF Guarded

-----------------------------------------------------------------------------
(* Lists made of lists.                                                    *)

\* One list after another.
LEMMA OneAfterAnother ==
    ASSUME NEW a, NEW b, NEW q, NEW r, NEW z, Takes(a, q, r), Takes(b, r, z)
    PROVE  Takes(a \o b, q, z)
<1> DEFINE l == a \o b
           n == Len(a)
<1>1. /\ a \in Seq(AnyCall) /\ b \in Seq(AnyCall) /\ l \in Seq(AnyCall)
      /\ n \in Nat /\ Len(b) \in Nat /\ Len(l) = n + Len(b)
      /\ \A k \in 1..n : l[k] = a[k]
      /\ \A k \in 1..Len(b) : l[n + k] = b[k]
  <2>1. a \in Seq(AnyCall) /\ b \in Seq(AnyCall)
    BY DEF Takes, Guarded
  <2>2. /\ l \in Seq(AnyCall) /\ Len(l) = n + Len(b)
        /\ \A k \in 1..(n + Len(b)) : l[k] = IF k <= n THEN a[k] ELSE b[k - n]
    BY <2>1, ConcatProperties
  <2>3. n \in Nat /\ Len(b) \in Nat
    BY <2>1
  <2>4. \A k \in 1..Len(b) : n + k \in 1..(n + Len(b)) /\ ~(n + k <= n) /\ (n + k) - n = k
    BY <2>3
  <2> HIDE DEF l, n
  <2>5. \A k \in 1..n : k \in 1..(n + Len(b)) /\ k <= n
    BY <2>3
  <2> QED
    BY <2>1, <2>2, <2>3, <2>4, <2>5
<1> HIDE DEF l, n
<1>2. ASSUME NEW k \in 1..(n + 1), NEW c, Rests(a, q, k, c)
      PROVE  Rests(l, q, k, c)
  <2>1. PICK j \in 0..(k - 1) : /\ IF j = 0 THEN c \in q ELSE a[j] = Call("settle", c)
                                /\ \A m \in (j + 1)..(k - 1) : ~Wakes(a[m], c)
    BY <1>2 DEF Rests
  <2>2. j # 0 => j \in 1..n
    BY <1>1
  <2>3. \A m \in (j + 1)..(k - 1) : m \in 1..n
    BY <1>1
  <2>4. IF j = 0 THEN c \in q ELSE l[j] = Call("settle", c)
    BY <2>1, <2>2, <1>1
  <2>5. \A m \in (j + 1)..(k - 1) : ~Wakes(l[m], c)
    BY <2>1, <2>3, <1>1
  <2> QED
    BY <2>4, <2>5 DEF Rests
<1>3. ASSUME NEW k \in 1..(Len(b) + 1), NEW c, Rests(b, r, k, c)
      PROVE  Rests(l, q, n + k, c)
  <2>1. PICK j \in 0..(k - 1) : /\ IF j = 0 THEN c \in r ELSE b[j] = Call("settle", c)
                                /\ \A m \in (j + 1)..(k - 1) : ~Wakes(b[m], c)
    BY <1>3 DEF Rests
  <2>2. \A m \in 1..(k - 1) : m \in 1..Len(b)
    BY <1>1
  <2>3. CASE j # 0
    <3>1. n + j \in 0..((n + k) - 1) /\ n + j # 0 /\ j \in 1..Len(b)
      BY <1>1, <2>3
    <3>2. l[n + j] = Call("settle", c)
      BY <3>1, <1>1, <2>1, <2>3
    <3>3. \A m \in ((n + j) + 1)..((n + k) - 1) : ~Wakes(l[m], c)
      <4> TAKE m \in ((n + j) + 1)..((n + k) - 1)
      <4>1. PICK p \in Int : p = m - n
        BY <1>1
      <4>2. p \in (j + 1)..(k - 1) /\ p \in 1..Len(b) /\ n + p = m
        BY <4>1, <1>1
      <4> QED
        BY <4>2, <1>1, <2>1
    <3> QED
      BY <3>1, <3>2, <3>3 DEF Rests
  <2>4. CASE j = 0
    <3>1. Rests(a, q, n + 1, c)
      BY <2>1, <2>4 DEF Takes, n
    <3>2. PICK i \in 0..n : /\ IF i = 0 THEN c \in q ELSE a[i] = Call("settle", c)
                            /\ \A m \in (i + 1)..n : ~Wakes(a[m], c)
      BY <3>1, <1>1 DEF Rests
    <3>3. i \in 0..((n + k) - 1)
      BY <1>1
    <3>4. IF i = 0 THEN c \in q ELSE l[i] = Call("settle", c)
      <4>1. i # 0 => i \in 1..n
        BY <1>1
      <4> QED
        BY <4>1, <3>2, <1>1
    <3>5. \A m \in (i + 1)..((n + k) - 1) : ~Wakes(l[m], c)
      <4> TAKE m \in (i + 1)..((n + k) - 1)
      <4>1. CASE m <= n
        <5>1. m \in (i + 1)..n /\ m \in 1..n
          BY <4>1, <1>1
        <5> QED
          BY <5>1, <3>2, <1>1
      <4>2. CASE ~(m <= n)
        <5>1. PICK p \in Int : p = m - n
          BY <1>1
        <5>2. p \in (j + 1)..(k - 1) /\ p \in 1..Len(b) /\ n + p = m
          BY <5>1, <4>2, <2>4, <1>1
        <5> QED
          BY <5>2, <1>1, <2>1
      <4> QED
        BY <4>1, <4>2
    <3> QED
      BY <3>3, <3>4, <3>5 DEF Rests
  <2> QED
    BY <2>3, <2>4
<1>4. ASSUME NEW k \in 1..Len(l)
      PROVE  \/ k \in 1..n /\ l[k] = a[k]
             \/ k - n \in 1..Len(b) /\ n + (k - n) = k /\ l[k] = b[k - n]
  <2>1. k \in Int /\ n \in Int /\ n + (k - n) = k
    BY <1>1
  <2>2. k \in 1..n \/ k - n \in 1..Len(b)
    BY <1>1
  <2> QED
    BY <2>1, <2>2, <1>1
<1>5. SettlesAfterOff(l, {})
  <2> SUFFICES ASSUME NEW k \in 1..Len(l), NEW c \in Card, l[k] = Call("settle", c)
               PROVE  k # 1 /\ l[k - 1] = Call("off", c)
    BY DEF SettlesAfterOff
  <2>1. CASE k \in 1..n /\ l[k] = a[k]
    <3>1. k # 1 /\ a[k - 1] = Call("off", c)
      BY <2>1 DEF Takes, Guarded, SettlesAfterOff, n
    <3>2. k - 1 \in 1..n
      BY <2>1, <3>1, <1>1
    <3> QED
      BY <3>1, <3>2, <1>1
  <2>2. CASE k - n \in 1..Len(b) /\ l[k] = b[k - n]
    <3>1. k - n # 1 /\ b[(k - n) - 1] = Call("off", c)
      BY <2>2 DEF Takes, Guarded, SettlesAfterOff
    <3>2. (k - n) - 1 \in 1..Len(b) /\ n + ((k - n) - 1) = k - 1 /\ k # 1
      BY <2>2, <3>1, <1>1
    <3>3. l[n + ((k - n) - 1)] = b[(k - n) - 1]
      BY <3>2, <1>1
    <3> QED
      BY <3>1, <3>2, <3>3
  <2> QED
    BY <1>4, <2>1, <2>2
<1>6. ASSUME NEW k \in 1..Len(l), NEW c \in Card, Frees(l[k], c)
      PROVE  Rests(l, q, k, c)
  <2>1. CASE k \in 1..n /\ l[k] = a[k]
    <3>1. Rests(a, q, k, c) /\ k \in 1..(n + 1)
      BY <1>1, <1>6, <2>1 DEF Takes, Guarded, n
    <3> QED
      BY <3>1, <1>2
  <2>2. CASE k - n \in 1..Len(b) /\ n + (k - n) = k /\ l[k] = b[k - n]
    <3>1. Rests(b, r, k - n, c) /\ k - n \in 1..(Len(b) + 1)
      BY <1>1, <1>6, <2>2 DEF Takes, Guarded
    <3>2. Rests(l, q, n + (k - n), c)
      BY <3>1, <1>3
    <3> QED
      BY <3>2, <2>2
  <2> QED
    BY <1>4, <2>1, <2>2
<1>7. ASSUME NEW c \in z
      PROVE  Rests(l, q, Len(l) + 1, c)
  <2>1. Rests(b, r, Len(b) + 1, c) /\ Len(b) + 1 \in 1..(Len(b) + 1)
    BY <1>1 DEF Takes
  <2>2. Rests(l, q, n + (Len(b) + 1), c)
    BY <2>1, <1>3
  <2>3. n + (Len(b) + 1) = Len(l) + 1
    BY <1>1
  <2> QED
    BY <2>2, <2>3
<1> QED
  BY <1>1, <1>5, <1>6, <1>7 DEF Takes, Guarded, l

\* A list that settles no card, wakes none of r and frees no buffer of another card.
LEMMA CalmList ==
    ASSUME NEW l \in Seq(AnyCall), NEW q, NEW r, r \subseteq q,
           \A k \in 1..Len(l) : l[k].do # "settle",
           \A k \in 1..Len(l), c \in r : ~Wakes(l[k], c),
           \A k \in 1..Len(l), c \in Card : Frees(l[k], c) => c \in r
    PROVE  Takes(l, q, r)
<1>1. SettlesAfterOff(l, {})
  BY DEF SettlesAfterOff, Call
<1>2. ASSUME NEW k \in 1..(Len(l) + 1), NEW c \in r
      PROVE  Rests(l, q, k, c)
  <2>1. Len(l) \in Nat
    OBVIOUS
  <2>2. \A m \in (0 + 1)..(k - 1) : ~Wakes(l[m], c)
    BY <2>1
  <2>3. 0 \in 0..(k - 1)
    BY <2>1
  <2> QED
    BY <2>2, <2>3 DEF Rests
<1>3. Len(l) \in Nat /\ \A k \in 1..Len(l) : k \in 1..(Len(l) + 1)
  OBVIOUS
<1> QED
  BY <1>1, <1>2, <1>3 DEF Takes, Guarded

\* What a call may be about.
LEMMA KnownCalls ==
    /\ \A d \in Doings, c \in Card : Call(d, c) \in AnyCall
    /\ \A d \in Doings, i \in Input : Call(d, i) \in AnyCall
    /\ \A d \in Doings : Call(d, 0) \in AnyCall
    /\ \A d \in Doings, S \in SUBSET Input : Call(d, S) \in AnyCall
<1> DEFINE Known == Card \cup Input \cup {0} \cup SUBSET Input
<1>1. /\ \A c \in Card : c \in Known
      /\ \A i \in Input : i \in Known
      /\ 0 \in Known
      /\ \A S \in SUBSET Input : S \in Known
  OBVIOUS
<1> HIDE DEF Known
<1>2. \A d \in Doings, p \in Known : [do |-> d, at |-> p] \in [do : Doings, at : Known]
  OBVIOUS
<1> QED
  BY <1>1, <1>2 DEF Call, AnyCall, Known

\* One call.
LEMMA OneCall ==
    ASSUME NEW x \in AnyCall, NEW q, NEW r, r \subseteq q, x.do # "settle",
           \A c \in r : ~Wakes(x, c), \A c \in Card : Frees(x, c) => c \in r
    PROVE  Takes(<<x>>, q, r)
<1>1. <<x>> \in Seq(AnyCall) /\ Len(<<x>>) = 1 /\ <<x>>[1] = x
  OBVIOUS
<1>2. \A k \in 1..Len(<<x>>) : <<x>>[k] = x
  BY <1>1
<1> QED
  BY <1>1, <1>2, CalmList

\* No call.
LEMMA NoCall ==
    ASSUME NEW q
    PROVE  Takes(<<>>, q, q)
<1>1. <<>> \in Seq(AnyCall) /\ Len(<<>>) = 0
  BY EmptySeq
<1>2. \A k \in 1..Len(<<>>) : FALSE
  BY <1>1
<1> QED
  BY <1>1, <1>2, CalmList

\* A card is switched off and settled.
LEMMA OffTakes ==
    ASSUME NEW c \in Card, NEW q
    PROVE  Takes(Off(c), q, q \cup {c})
<1> DEFINE l == Off(c)
<1>1. Call("off", c) \in AnyCall /\ Call("settle", c) \in AnyCall
  BY KnownCalls DEF Doings
<1>2. /\ l \in Seq(AnyCall) /\ Len(l) = 2 /\ l[1] = Call("off", c) /\ l[2] = Call("settle", c)
  BY <1>1 DEF Off
<1>3. /\ \A d : ~Wakes(Call("off", c), d) /\ ~Wakes(Call("settle", c), d)
      /\ \A d : ~Frees(Call("off", c), d) /\ ~Frees(Call("settle", c), d)
      /\ \A d : Call("off", c) # Call("settle", d)
      /\ \A d : Call("settle", c) = Call("settle", d) => d = c
  BY DEF Wakes, Frees, Call
<1> HIDE DEF l
<1>4. \A k \in 1..Len(l) : k = 1 \/ k = 2
  BY <1>2
<1>5. SettlesAfterOff(l, {})
  <2> SUFFICES ASSUME NEW k \in 1..Len(l), NEW d \in Card, l[k] = Call("settle", d)
               PROVE  k # 1 /\ l[k - 1] = Call("off", d)
    BY DEF SettlesAfterOff
  <2>1. k = 2 /\ d = c
    BY <1>2, <1>3, <1>4
  <2>2. k - 1 = 1
    BY <2>1
  <2> QED
    BY <2>1, <2>2, <1>2
<1>6. \A k \in 1..Len(l), d \in Card : ~Frees(l[k], d)
  BY <1>2, <1>3, <1>4
<1>7. ASSUME NEW d \in q \cup {c}
      PROVE  Rests(l, q, Len(l) + 1, d)
  <2>1. \A m \in 1..2 : ~Wakes(l[m], d)
    BY <1>2, <1>3
  <2>2. CASE d \in q
    <3>1. 0 \in 0..((Len(l) + 1) - 1) /\ (Len(l) + 1) - 1 = 2 /\ 0 + 1 = 1
      BY <1>2
    <3> QED
      BY <2>1, <2>2, <3>1 DEF Rests
  <2>3. CASE d = c
    <3>1. /\ 2 \in 0..((Len(l) + 1) - 1) /\ 2 # 0
          /\ \A m \in (2 + 1)..((Len(l) + 1) - 1) : FALSE
      BY <1>2
    <3> QED
      BY <1>2, <2>3, <3>1 DEF Rests
  <2> QED
    BY <2>2, <2>3
<1> QED
  BY <1>2, <1>5, <1>6, <1>7 DEF Takes, Guarded, l

\* A list that stops with fewer quiet cards than it might.
LEMMA TakesLess ==
    ASSUME NEW l, NEW q, NEW q2, NEW r, NEW r2, q \subseteq q2, r2 \subseteq r, Takes(l, q, r)
    PROVE  Takes(l, q2, r2)
<1>1. Guarded(l, q2, {})
  BY GuardedMore DEF Takes
<1>2. \A c \in r2 : Rests(l, q2, Len(l) + 1, c)
  BY RestsMore DEF Takes
<1> QED
  BY <1>1, <1>2 DEF Takes

-----------------------------------------------------------------------------
(* The lists of the program.                                               *)

\* Each of the two cards has two inputs, and an input is of one card.
LEMMA Places ==
    /\ 1 \in Card /\ 2 \in Card
    /\ \A c \in Card : <<c, 1>> \in Input /\ <<c, 2>> \in Input
                       /\ InputsOf(c) = {<<c, 1>>, <<c, 2>>} /\ InputsOf(c) \subseteq Input
    /\ \A i \in Input : i[1] \in Card /\ i \in InputsOf(i[1])
    /\ \A i \in Input, c \in Card : i \in InputsOf(c) => c = i[1]
BY DEF Card, Input, InputsOf

\* The calls about the threads, the buffers and the folders of an input.
LEMMA InputCalls ==
    ASSUME NEW i \in Input, NEW q
    PROVE  /\ Takes(Start(i), q, q) /\ Takes(Alloc(i), q, q) /\ Takes(Folder(i), q, q)
           /\ Takes(Stop(i), q, q)
           /\ i[1] \in q => Takes(Free(i), q, q)
<1>1. /\ Call("start", i) \in AnyCall
      /\ Call("alloc", i) \in AnyCall
      /\ Call("folder", i) \in AnyCall
      /\ Call("signal", i) \in AnyCall
      /\ Call("join", i) \in AnyCall
      /\ Call("joinDisplay", i) \in AnyCall
      /\ Call("free", i) \in AnyCall
  BY KnownCalls DEF Doings
<1>2. /\ \A c : ~Wakes(Call("start", i), c) /\ ~Frees(Call("start", i), c)
      /\ \A c : ~Wakes(Call("alloc", i), c) /\ ~Frees(Call("alloc", i), c)
      /\ \A c : ~Wakes(Call("folder", i), c) /\ ~Frees(Call("folder", i), c)
      /\ \A c : ~Wakes(Call("signal", i), c) /\ ~Frees(Call("signal", i), c)
      /\ \A c : ~Wakes(Call("join", i), c) /\ ~Frees(Call("join", i), c)
      /\ \A c : ~Wakes(Call("joinDisplay", i), c) /\ ~Frees(Call("joinDisplay", i), c)
      /\ \A c : ~Wakes(Call("free", i), c)
      /\ \A c \in Card : Frees(Call("free", i), c) => c = i[1]
  BY Places DEF Wakes, Frees, Call
<1>3. /\ Call("start", i).do # "settle" /\ Call("alloc", i).do # "settle"
      /\ Call("folder", i).do # "settle" /\ Call("signal", i).do # "settle"
      /\ Call("join", i).do # "settle" /\ Call("joinDisplay", i).do # "settle"
      /\ Call("free", i).do # "settle"
  BY DEF Call
<1>4. Takes(Start(i), q, q)
  BY <1>1, <1>2, <1>3, OneCall DEF Start
<1>5. Takes(Alloc(i), q, q)
  BY <1>1, <1>2, <1>3, OneCall DEF Alloc
<1>6. Takes(Folder(i), q, q)
  BY <1>1, <1>2, <1>3, OneCall DEF Folder
<1>7. i[1] \in q => Takes(Free(i), q, q)
  BY <1>1, <1>2, <1>3, OneCall DEF Free
<1>8. Takes(Stop(i), q, q)
  <2> DEFINE l == Stop(i)
  <2>1. /\ l \in Seq(AnyCall) /\ Len(l) = 3
        /\ l[1] = Call("signal", i) /\ l[2] = Call("join", i) /\ l[3] = Call("joinDisplay", i)
    BY <1>1 DEF Stop
  <2> HIDE DEF l
  <2>2. \A k \in 1..Len(l) : k = 1 \/ k = 2 \/ k = 3
    BY <2>1
  <2>3. /\ \A k \in 1..Len(l) : l[k].do # "settle"
        /\ \A k \in 1..Len(l) : \A c : ~Wakes(l[k], c) /\ ~Frees(l[k], c)
    BY <2>1, <2>2, <1>2, <1>3
  <2>4. Takes(l, q, q)
    BY <2>1, <2>3, CalmList
  <2> QED
    BY <2>4 DEF l
<1> QED
  BY <1>4, <1>5, <1>6, <1>7, <1>8

\* The calls about a card.
LEMMA CardCalls ==
    ASSUME NEW c \in Card, NEW q
    PROVE  /\ Takes(<<Call("prepare", c)>>, q, q)
           /\ Takes(<<Call("release", c)>>, q, q)
           /\ Takes(<<Call("threads", c)>>, q, q)
           /\ c \in q => Takes(<<Call("close", c)>>, q, q)
           /\ Takes(On(c), q, q \ {c})
           /\ Takes(<<Call("open", c)>>, q, q \ {c})
           /\ Takes(<<Call("pattern", c)>>, q, q \ {c})
<1>1. /\ Call("prepare", c) \in AnyCall
      /\ Call("release", c) \in AnyCall
      /\ Call("threads", c) \in AnyCall
      /\ Call("close", c) \in AnyCall
      /\ Call("on", c) \in AnyCall
      /\ Call("open", c) \in AnyCall
      /\ Call("pattern", c) \in AnyCall
  BY KnownCalls DEF Doings
<1>2. /\ \A d : ~Wakes(Call("prepare", c), d)
      /\ \A d : ~Wakes(Call("release", c), d)
      /\ \A d : ~Wakes(Call("threads", c), d)
      /\ \A d : ~Wakes(Call("close", c), d)
      /\ \A d : Wakes(Call("on", c), d) => d = c
      /\ \A d : Wakes(Call("open", c), d) => d = c
      /\ \A d : Wakes(Call("pattern", c), d) => d = c
  BY DEF Wakes, Call
<1>3. /\ \A d : ~Frees(Call("prepare", c), d)
      /\ \A d : ~Frees(Call("release", c), d)
      /\ \A d : ~Frees(Call("threads", c), d)
      /\ \A d : Frees(Call("close", c), d) => d = c
      /\ \A d : ~Frees(Call("on", c), d)
      /\ \A d : ~Frees(Call("open", c), d)
      /\ \A d : ~Frees(Call("pattern", c), d)
  BY DEF Frees, Call
<1>4. /\ Call("prepare", c).do # "settle" /\ Call("release", c).do # "settle"
      /\ Call("threads", c).do # "settle" /\ Call("close", c).do # "settle"
      /\ Call("on", c).do # "settle" /\ Call("open", c).do # "settle"
      /\ Call("pattern", c).do # "settle"
  BY DEF Call
<1>5. q \subseteq q /\ q \ {c} \subseteq q /\ \A d \in q \ {c} : d # c
  OBVIOUS
<1>6. Takes(<<Call("prepare", c)>>, q, q)
  BY <1>1, <1>2, <1>3, <1>4, <1>5, OneCall
<1>7. Takes(<<Call("release", c)>>, q, q)
  BY <1>1, <1>2, <1>3, <1>4, <1>5, OneCall
<1>8. Takes(<<Call("threads", c)>>, q, q)
  BY <1>1, <1>2, <1>3, <1>4, <1>5, OneCall
<1>9. c \in q => Takes(<<Call("close", c)>>, q, q)
  BY <1>1, <1>2, <1>3, <1>4, <1>5, OneCall
<1>10. Takes(On(c), q, q \ {c})
  BY <1>1, <1>2, <1>3, <1>4, <1>5, OneCall DEF On
<1>11. Takes(<<Call("open", c)>>, q, q \ {c})
  BY <1>1, <1>2, <1>3, <1>4, <1>5, OneCall
<1>12. Takes(<<Call("pattern", c)>>, q, q \ {c})
  BY <1>1, <1>2, <1>3, <1>4, <1>5, OneCall
<1> QED
  BY <1>6, <1>7, <1>8, <1>9, <1>10, <1>11, <1>12

\* The other calls.
LEMMA OtherCalls ==
    ASSUME NEW q
    PROVE  /\ Takes(<<Call("writers", 0)>>, q, q)
           /\ Takes(<<Call("halt", 0)>>, q, q)
           /\ Takes(<<Call("minute", 0)>>, q, q)
           /\ \A S \in SUBSET Input : Takes(<<Call("begin", S)>>, q, q)
<1>1. /\ Call("writers", 0) \in AnyCall
      /\ Call("halt", 0) \in AnyCall
      /\ Call("minute", 0) \in AnyCall
      /\ \A S \in SUBSET Input : Call("begin", S) \in AnyCall
  BY KnownCalls DEF Doings
<1>2. /\ \A d : ~Wakes(Call("writers", 0), d) /\ ~Frees(Call("writers", 0), d)
      /\ \A d : ~Wakes(Call("halt", 0), d) /\ ~Frees(Call("halt", 0), d)
      /\ \A d : ~Wakes(Call("minute", 0), d) /\ ~Frees(Call("minute", 0), d)
      /\ \A S, d : ~Wakes(Call("begin", S), d) /\ ~Frees(Call("begin", S), d)
  BY DEF Wakes, Frees, Call
<1>3. /\ Call("writers", 0).do # "settle" /\ Call("halt", 0).do # "settle"
      /\ Call("minute", 0).do # "settle" /\ \A S : Call("begin", S).do # "settle"
  BY DEF Call
<1>4. Takes(<<Call("writers", 0)>>, q, q)
  BY <1>1, <1>2, <1>3, OneCall
<1>5. Takes(<<Call("halt", 0)>>, q, q)
  BY <1>1, <1>2, <1>3, OneCall
<1>6. Takes(<<Call("minute", 0)>>, q, q)
  BY <1>1, <1>2, <1>3, OneCall
<1>7. \A S \in SUBSET Input : Takes(<<Call("begin", S)>>, q, q)
  BY <1>1, <1>2, <1>3, OneCall
<1> QED
  BY <1>4, <1>5, <1>6, <1>7

\* The same calls about the chosen inputs of a card, or about both.
LEMMA EachInput ==
    ASSUME NEW c \in Card, NEW S, NEW q
    PROVE  /\ Takes(Each(Start, c, S), q, q) /\ Takes(Each(Alloc, c, S), q, q)
           /\ Takes(Each(Folder, c, S), q, q) /\ Takes(Each(Stop, c, S), q, q)
           /\ c \in q => Takes(Each(Free, c, S), q, q)
           /\ Takes(Both(Start, c), q, q) /\ Takes(Both(Stop, c), q, q)
<1>1. <<c, 1>> \in Input /\ <<c, 2>> \in Input /\ <<c, 1>>[1] = c /\ <<c, 2>>[1] = c
  BY Places
<1>2. Takes(<<>>, q, q)
  BY NoCall
<1>3. Takes(Each(Start, c, S), q, q)
  BY <1>1, <1>2, InputCalls, OneAfterAnother DEF Each
<1>4. Takes(Each(Alloc, c, S), q, q)
  BY <1>1, <1>2, InputCalls, OneAfterAnother DEF Each
<1>5. Takes(Each(Folder, c, S), q, q)
  BY <1>1, <1>2, InputCalls, OneAfterAnother DEF Each
<1>6. Takes(Each(Stop, c, S), q, q)
  BY <1>1, <1>2, InputCalls, OneAfterAnother DEF Each
<1>7. c \in q => Takes(Each(Free, c, S), q, q)
  BY <1>1, <1>2, InputCalls, OneAfterAnother DEF Each
<1>8. Takes(Both(Start, c), q, q)
  BY <1>1, InputCalls, OneAfterAnother DEF Both
<1>9. Takes(Both(Stop, c), q, q)
  BY <1>1, InputCalls, OneAfterAnother DEF Both
<1> QED
  BY <1>3, <1>4, <1>5, <1>6, <1>7, <1>8, <1>9

\* A list that can be taken from the beginning is sound.
LEMMA TakenIsSound ==
    ASSUME NEW l, NEW r, Takes(l, {}, r), l # <<>>
    PROVE  Sound(l)
BY DEF Sound, Takes

\* A list that is empty in no part.
LEMMA NotEmpty ==
    ASSUME NEW a, NEW b, NEW q, NEW r, NEW z, Takes(a, q, r), Takes(b, r, z)
    PROVE  a # <<>> \/ b # <<>> => a \o b # <<>>
BY ConcatEqualIffEmpty DEF Takes, Guarded

\* The list that stops a card, and the one that starts it again.
LEMMA CardLists ==
    ASSUME NEW c \in Card, NEW S
    PROVE  Sound(stopCard(c, S)) /\ Sound(restartCard(c, S)) /\ Sound(initializeCard(c, S))
<1>1. /\ On(c) # <<>> /\ Off(c) # <<>> /\ <<Call("open", c)>> # <<>>
  BY DEF On, Off
<1>2. Sound(stopCard(c, S))
  <2> DEFINE a == Each(Stop, c, S) \o Off(c)
             b == a \o <<Call("release", c)>>
             d == b \o Each(Free, c, S)
  <2>1. Takes(a, {}, {c})
    <3>1. Takes(Each(Stop, c, S), {}, {})
      BY EachInput
    <3>2. Takes(Off(c), {}, {} \cup {c}) /\ {} \cup {c} = {c}
      BY OffTakes
    <3> QED
      BY <3>1, <3>2, OneAfterAnother
  <2>2. Takes(b, {}, {c})
    BY <2>1, CardCalls, OneAfterAnother
  <2>3. Takes(d, {}, {c})
    BY <2>2, EachInput, OneAfterAnother
  <2>4. Takes(On(c), {c}, {c} \ {c})
    BY CardCalls
  <2> HIDE DEF d
  <2>5. Takes(d \o On(c), {}, {c} \ {c}) /\ d \o On(c) # <<>>
    BY <1>1, <2>3, <2>4, OneAfterAnother, NotEmpty
  <2> QED
    BY <2>5, TakenIsSound DEF stopCard, d
<1>3. Sound(restartCard(c, S))
  <2> DEFINE a == Off(c) \o Each(Alloc, c, S)
             b == a \o <<Call("writers", 0)>>
             d == b \o Each(Folder, c, S)
             e == d \o Each(Start, c, S)
  <2>1. Takes(a, {}, {c})
    <3>1. Takes(Off(c), {}, {} \cup {c}) /\ {} \cup {c} = {c}
      BY OffTakes
    <3>2. Takes(Each(Alloc, c, S), {c}, {c})
      BY EachInput
    <3> QED
      BY <3>1, <3>2, OneAfterAnother
  <2>2. Takes(b, {}, {c})
    BY <2>1, OtherCalls, OneAfterAnother
  <2>3. Takes(d, {}, {c})
    BY <2>2, EachInput, OneAfterAnother
  <2>4. Takes(e, {}, {c})
    BY <2>3, EachInput, OneAfterAnother
  <2>5. Takes(On(c), {c}, {c} \ {c})
    BY CardCalls
  <2> HIDE DEF e
  <2>6. Takes(e \o On(c), {}, {c} \ {c}) /\ e \o On(c) # <<>>
    BY <1>1, <2>4, <2>5, OneAfterAnother, NotEmpty
  <2> QED
    BY <2>6, TakenIsSound DEF restartCard, e
<1>4. Sound(initializeCard(c, S))
  <2> DEFINE a == <<Call("open", c)>> \o Off(c)
             b == a \o <<Call("prepare", c)>>
             d == b \o Each(Alloc, c, S)
             e == d \o <<Call("prepare", c)>>
  <2>1. Takes(a, {}, {c}) /\ a # <<>>
    <3>1. Takes(<<Call("open", c)>>, {}, {} \ {c}) /\ {} \ {c} = {}
      BY CardCalls
    <3>2. Takes(Off(c), {}, {} \cup {c}) /\ {} \cup {c} = {c}
      BY OffTakes
    <3> QED
      BY <1>1, <3>1, <3>2, OneAfterAnother, NotEmpty
  <2>2. Takes(b, {}, {c}) /\ b # <<>>
    BY <2>1, CardCalls, OneAfterAnother, NotEmpty
  <2>3. Takes(d, {}, {c}) /\ d # <<>>
    BY <2>2, EachInput, OneAfterAnother, NotEmpty
  <2>4. Takes(e, {}, {c}) /\ e # <<>>
    BY <2>3, CardCalls, OneAfterAnother, NotEmpty
  <2>5. Takes(Each(Start, c, S), {c}, {c})
    BY EachInput
  <2> HIDE DEF e
  <2>6. Takes(e \o Each(Start, c, S), {}, {c}) /\ e \o Each(Start, c, S) # <<>>
    BY <2>4, <2>5, OneAfterAnother, NotEmpty
  <2> QED
    BY <2>6, TakenIsSound DEF initializeCard, e
<1> QED
  BY <1>2, <1>3, <1>4

\* Two are one after another.
LEMMA TwoCalls ==
    ASSUME NEW x, NEW y
    PROVE  <<x, y>> = <<x>> \o <<y>>
<1> DEFINE S == {x, y}
<1>1. <<x>> \in Seq(S) /\ <<y>> \in Seq(S) /\ Len(<<x>>) = 1 /\ Len(<<y>>) = 1
      /\ <<x>>[1] = x /\ <<y>>[1] = y
  OBVIOUS
<1>2. <<x, y>> \in Seq(S) /\ Len(<<x, y>>) = 2 /\ <<x, y>>[1] = x /\ <<x, y>>[2] = y
  OBVIOUS
<1> HIDE DEF S
<1>3. /\ <<x>> \o <<y>> \in Seq(S) /\ Len(<<x>> \o <<y>>) = 1 + 1
      /\ \A k \in 1..(1 + 1) : (<<x>> \o <<y>>)[k] = IF k <= 1 THEN <<x>>[k] ELSE <<y>>[k - 1]
  BY <1>1, ConcatProperties
<1>4. (<<x>> \o <<y>>)[1] = x
  BY <1>1, <1>3
<1>5. (<<x>> \o <<y>>)[2] = <<y>>[2 - 1]
  BY <1>3
<1>6. 2 - 1 = 1 /\ 1 + 1 = 2
  OBVIOUS
<1>7. \A k \in 1..Len(<<x>> \o <<y>>) : (<<x>> \o <<y>>)[k] = <<x, y>>[k]
  BY <1>1, <1>2, <1>3, <1>4, <1>5, <1>6
<1> QED
  BY <1>2, <1>3, <1>6, <1>7, SeqEqual

\* The lists that start and stop the recording, and the commands of the operator.
LEMMA ProgramLists ==
    /\ Sound(startVideoCapture) /\ Sound(stopFlickerDetection) /\ Sound(startTestLoopback)
    /\ Sound(<<Call("release", 1), Call("release", 2)>> \o Off(1) \o Off(2))
    /\ Sound(On(1) \o On(2))
    /\ \A S \in SUBSET Input : Sound(<<Call("begin", S)>>)
    /\ \A c \in Card : Sound(Both(Start, c))
<1>0. 1 \in Card /\ 2 \in Card
  BY Places
<1>1. /\ On(1) # <<>> /\ On(2) # <<>> /\ Off(1) # <<>> /\ Off(2) # <<>>
  BY DEF On, Off
<1>2. ASSUME NEW q PROVE Takes(On(1), q, q \ {1}) /\ Takes(On(2), q, q \ {2})
  BY <1>0, CardCalls
<1>3. ASSUME NEW q PROVE Takes(Off(1), q, q \cup {1}) /\ Takes(Off(2), q, q \cup {2})
  BY <1>0, OffTakes
<1>4. Takes(On(1), {}, {}) /\ Takes(On(2), {}, {})
  <2>1. {} \ {1} = {} /\ {} \ {2} = {}
    OBVIOUS
  <2> QED
    BY <1>2, <2>1
<1>5. Takes(Off(1), {}, {1}) /\ Takes(Off(2), {1}, {1, 2})
  <2>1. {} \cup {1} = {1} /\ {1} \cup {2} = {1, 2}
    OBVIOUS
  <2> QED
    BY <1>3, <2>1
<1>6. ASSUME NEW c \in {1, 2}, NEW d \in {1, 2}, NEW name \in {"release", "threads", "close"},
             NEW q, (c \in q /\ d \in q) \/ name # "close"
      PROVE  Takes(<<Call(name, c), Call(name, d)>>, q, q)
  <2>1. c \in Card /\ d \in Card
    BY <1>0
  <2>2. Takes(<<Call(name, c)>>, q, q) /\ Takes(<<Call(name, d)>>, q, q)
    BY <2>1, <1>6, CardCalls
  <2>3. Takes(<<Call(name, c)>> \o <<Call(name, d)>>, q, q)
    BY <2>2, OneAfterAnother
  <2> QED
    BY <2>3, TwoCalls
<1>7. Sound(On(1) \o On(2))
  BY <1>1, <1>4, OneAfterAnother, NotEmpty, TakenIsSound
<1>8. Sound(startVideoCapture)
  <2>1. Takes(<<Call("writers", 0)>> \o On(1), {}, {})
    BY <1>4, OtherCalls, OneAfterAnother
  <2>2. Takes((<<Call("writers", 0)>> \o On(1)) \o On(2), {}, {})
        /\ (<<Call("writers", 0)>> \o On(1)) \o On(2) # <<>>
    BY <1>1, <1>4, <2>1, OneAfterAnother, NotEmpty
  <2> QED
    BY <2>2, TakenIsSound DEF startVideoCapture
<1>9. Sound(<<Call("release", 1), Call("release", 2)>> \o Off(1) \o Off(2))
  <2>1. Takes(<<Call("release", 1), Call("release", 2)>>, {}, {})
    BY <1>6
  <2> HIDE DEF Off
  <2>2. Takes(<<Call("release", 1), Call("release", 2)>> \o Off(1), {}, {1})
    BY <1>5, <2>1, OneAfterAnother
  <2> DEFINE l == (<<Call("release", 1), Call("release", 2)>> \o Off(1)) \o Off(2)
  <2>3. Takes(l, {}, {1, 2}) /\ l # <<>>
    BY <1>1, <1>5, <2>2, OneAfterAnother, NotEmpty
  <2> HIDE DEF l
  <2>4. Sound(l)
    BY <2>3, TakenIsSound
  <2> QED
    BY <2>4 DEF l
<1>10. Sound(stopFlickerDetection)
  <2>1. Takes(Off(1) \o Off(2), {}, {1, 2}) /\ Off(1) \o Off(2) # <<>>
    BY <1>1, <1>5, OneAfterAnother, NotEmpty
  <2> DEFINE a == (Off(1) \o Off(2)) \o <<Call("threads", 1), Call("threads", 2)>>
             b == a \o <<Call("release", 1), Call("release", 2)>>
             d == <<Call("halt", 0)>> \o b
  <2>2. Takes(a, {}, {1, 2}) /\ a # <<>>
    BY <2>1, <1>6, OneAfterAnother, NotEmpty
  <2> HIDE DEF a
  <2>3. Takes(b, {}, {1, 2}) /\ b # <<>>
    BY <2>2, <1>6, OneAfterAnother, NotEmpty
  <2> HIDE DEF b
  <2>4. Takes(<<Call("halt", 0)>>, {}, {})
    BY OtherCalls
  <2>5. Takes(d, {}, {1, 2}) /\ d # <<>>
    BY <2>3, <2>4, OneAfterAnother, NotEmpty
  <2> HIDE DEF d
  <2>6. Takes(<<Call("close", 1), Call("close", 2)>>, {1, 2}, {1, 2})
    BY <1>6
  <2>7. Sound(d \o <<Call("close", 1), Call("close", 2)>>)
    BY <2>5, <2>6, OneAfterAnother, NotEmpty, TakenIsSound
  <2>8. b = stopVideoCapture
    BY DEF stopVideoCapture, b, a
  <2> QED
    BY <2>7, <2>8 DEF stopFlickerDetection, d
<1>11. Sound(startTestLoopback)
  <2> DEFINE w == Call("writers", 0)
             p == Call("pattern", 1)
             r == Call("pattern", 2)
             m == Call("minute", 0)
  <2>1. w \in AnyCall /\ p \in AnyCall /\ r \in AnyCall /\ m \in AnyCall
    BY <1>0, KnownCalls DEF Doings
  <2>2. Takes(<<w>>, {}, {}) /\ Takes(<<m>>, {}, {})
    BY OtherCalls
  <2>3. Takes(<<p>>, {}, {}) /\ Takes(<<r>>, {}, {})
    <3>1. {} \ {1} = {} /\ {} \ {2} = {}
      OBVIOUS
    <3> QED
      BY <1>0, <3>1, CardCalls
  <2>4. startTestLoopback = <<w, p, r, m>>
    BY DEF startTestLoopback
  <2> HIDE DEF w, p, r, m
  <2>5. <<w, p, r, m>> = <<w, p>> \o <<r, m>>
    BY <2>1
  <2>6. Takes(<<w, p>>, {}, {}) /\ Takes(<<r, m>>, {}, {})
    BY <2>2, <2>3, TwoCalls, OneAfterAnother
  <2> QED
    BY <2>4, <2>5, <2>6, OneAfterAnother, NotEmpty, TakenIsSound
<1>12. \A S \in SUBSET Input : Sound(<<Call("begin", S)>>)
  BY OtherCalls, TakenIsSound
<1>13. \A c \in Card : Sound(Both(Start, c))
  <2> SUFFICES ASSUME NEW c \in Card
               PROVE  Sound(Both(Start, c))
    OBVIOUS
  <2>1. <<c, 1>> \in Input /\ <<c, 2>> \in Input
    BY Places
  <2>2. Start(<<c, 1>>) # <<>>
    BY DEF Start
  <2>3. Takes(Start(<<c, 1>>), {}, {}) /\ Takes(Start(<<c, 2>>), {}, {})
    BY <2>1, InputCalls
  <2>4. Takes(Start(<<c, 1>>) \o Start(<<c, 2>>), {}, {})
        /\ Start(<<c, 1>>) \o Start(<<c, 2>>) # <<>>
    BY <2>2, <2>3, OneAfterAnother, NotEmpty
  <2> QED
    BY <2>4, TakenIsSound DEF Both
<1> QED
  BY <1>7, <1>8, <1>9, <1>10, <1>11, <1>12, <1>13

-----------------------------------------------------------------------------
(* Scripts.                                                                *)

\* One list.
LEMMA OneList ==
    ASSUME NEW l, Sound(l)
    PROVE  SoundScript(<<l>>)
<1>1. l \in Seq(AnyCall)
  BY DEF Sound, Guarded
<1>2. <<l>> \in Seq(Seq(AnyCall)) /\ Len(<<l>>) = 1 /\ \A k \in 1..1 : <<l>>[k] = l
  BY <1>1
<1> QED
  BY <1>2 DEF SoundScript

\* No list.
LEMMA NoList == SoundScript(<<>>)
<1>1. <<>> \in Seq(Seq(AnyCall)) /\ Len(<<>>) = 0
  BY EmptySeq
<1> QED
  BY <1>1 DEF SoundScript

\* A script after another.
LEMMA ScriptAfterScript ==
    ASSUME NEW a, NEW b, SoundScript(a), SoundScript(b)
    PROVE  SoundScript(a \o b)
<1>1. a \in Seq(Seq(AnyCall)) /\ b \in Seq(Seq(AnyCall)) /\ Len(a) \in Nat /\ Len(b) \in Nat
  BY DEF SoundScript
<1>2. /\ a \o b \in Seq(Seq(AnyCall)) /\ Len(a \o b) = Len(a) + Len(b)
      /\ \A k \in 1..(Len(a) + Len(b)) : (a \o b)[k] = IF k <= Len(a) THEN a[k] ELSE b[k - Len(a)]
  BY <1>1, ConcatProperties
<1>3. ASSUME NEW k \in 1..Len(a \o b)
      PROVE  Sound((a \o b)[k])
  <2>1. k \in 1..(Len(a) + Len(b)) /\ (k <= Len(a) => k \in 1..Len(a))
        /\ (~(k <= Len(a)) => k - Len(a) \in 1..Len(b))
    BY <1>1, <1>2
  <2> QED
    BY <1>2, <2>1 DEF SoundScript
<1> QED
  BY <1>2, <1>3 DEF SoundScript

\* A script that is taken apart.
LEMMA ScriptTail ==
    ASSUME NEW sc, SoundScript(sc), sc # <<>>
    PROVE  Sound(Head(sc)) /\ SoundScript(Tail(sc))
<1>1. sc \in Seq(Seq(AnyCall)) /\ Len(sc) \in Nat \ {0} /\ Head(sc) = sc[1]
  BY EmptySeq DEF SoundScript
<1>2. /\ Tail(sc) \in Seq(Seq(AnyCall)) /\ Len(Tail(sc)) = Len(sc) - 1
      /\ \A k \in 1..Len(Tail(sc)) : Tail(sc)[k] = sc[k + 1]
  BY <1>1, HeadTailProperties
<1>3. ASSUME NEW k \in 1..Len(Tail(sc))
      PROVE  Sound(Tail(sc)[k])
  <2>1. k + 1 \in 1..Len(sc)
    BY <1>1, <1>2
  <2> QED
    BY <1>2, <2>1 DEF SoundScript
<1>4. 1 \in 1..Len(sc)
  BY <1>1
<1> QED
  BY <1>1, <1>2, <1>3, <1>4 DEF SoundScript

\* The thread of main begins with a sound script.
LEMMA StartIsSound ==
    ASSUME NEW S \in SUBSET Input, NEW loopback \in BOOLEAN
    PROVE  SoundScript(startFlickerDetection(S, loopback))
<1> DEFINE cards == [c \in Card |-> S \cap InputsOf(c)]
           init(c) == IF cards[c] = {} THEN <<>> ELSE <<initializeCard(c, S)>>
           last == IF loopback THEN <<startTestLoopback, stopFlickerDetection>>
                               ELSE <<startVideoCapture>>
<1>1. SoundScript(<<<<Call("begin", S)>>>>)
  BY ProgramLists, OneList
<1>2. SoundScript(init(1)) /\ SoundScript(init(2))
  <2>1. 1 \in Card /\ 2 \in Card
    BY Places
  <2> QED
    BY <2>1, CardLists, OneList, NoList
<1>3. SoundScript(last)
  <2>1. SoundScript(<<startVideoCapture>>)
    BY ProgramLists, OneList
  <2>2. SoundScript(<<startTestLoopback>>) /\ SoundScript(<<stopFlickerDetection>>)
    BY ProgramLists, OneList
  <2>3. <<startTestLoopback>> \o <<stopFlickerDetection>>
            = <<startTestLoopback, stopFlickerDetection>>
    BY TwoCalls
  <2> QED
    BY <2>1, <2>2, <2>3, ScriptAfterScript
<1>4. startFlickerDetection(S, loopback) = ((<<<<Call("begin", S)>>>> \o init(1)) \o init(2)) \o last
  BY DEF startFlickerDetection
<1> HIDE DEF init, last, cards
<1>5. SoundScript(<<<<Call("begin", S)>>>> \o init(1))
  BY <1>1, <1>2, ScriptAfterScript
<1>6. SoundScript((<<<<Call("begin", S)>>>> \o init(1)) \o init(2))
  BY <1>2, <1>5, ScriptAfterScript
<1>7. SoundScript(((<<<<Call("begin", S)>>>> \o init(1)) \o init(2)) \o last)
  BY <1>3, <1>6, ScriptAfterScript
<1> QED
  BY <1>4, <1>7

\* A sound script is ready to begin.
LEMMA SoundIsReady ==
    ASSUME NEW sc, NEW q, NEW s, SoundScript(sc)
    PROVE  Ready(sc, q, s)
<1> SUFFICES ASSUME sc # <<>>
             PROVE  /\ sc \in Seq(Seq(AnyCall))
                    /\ Head(sc) # <<>> /\ Guarded(Head(sc), q, s)
                    /\ SoundScript(Tail(sc))
  BY DEF Ready
<1>1. Sound(Head(sc)) /\ SoundScript(Tail(sc))
  BY ScriptTail
<1>2. Guarded(Head(sc), q, s) /\ Head(sc) # <<>>
  BY <1>1, GuardedMore DEF Sound
<1> QED
  BY <1>1, <1>2 DEF SoundScript

\* And so are the lists that a thread has left.
LEMMA ReadyMore ==
    ASSUME NEW sc, NEW q, NEW q2, NEW s, NEW s2, q \subseteq q2, s \subseteq s2,
           Ready(sc, q, s)
    PROVE  Ready(sc, q2, s2)
BY GuardedMore DEF Ready

\* A list that is under way, before lists to come.
LEMMA FirstListReady ==
    ASSUME NEW l, NEW tl, NEW q, NEW s, Guarded(l, q, s), SoundScript(tl)
    PROVE  Ready((IF l = <<>> THEN <<>> ELSE <<l>>) \o tl, q, s)
<1>1. l \in Seq(AnyCall) /\ tl \in Seq(Seq(AnyCall))
  BY DEF Guarded, SoundScript
<1>2. CASE l = <<>>
  <2>1. <<>> \o tl = tl
    BY <1>1, ConcatEmptySeq
  <2> QED
    BY <1>2, <2>1, SoundIsReady
<1>3. CASE l # <<>>
  <2> DEFINE sc == <<l>> \o tl
  <2>1. <<l>> \in Seq(Seq(AnyCall)) /\ Len(<<l>>) = 1 /\ <<l>>[1] = l
    BY <1>1
  <2>2. /\ sc \in Seq(Seq(AnyCall)) /\ Len(sc) = 1 + Len(tl)
        /\ \A k \in 1..(1 + Len(tl)) : sc[k] = IF k <= 1 THEN <<l>>[k] ELSE tl[k - 1]
    BY <1>1, <2>1, ConcatProperties
  <2> HIDE DEF sc
  <2>3. Len(tl) \in Nat
    BY <1>1
  <2>4. sc # <<>> /\ Head(sc) = sc[1] /\ sc[1] = l
    BY <2>1, <2>2, <2>3, EmptySeq
  <2>5. /\ Tail(sc) \in Seq(Seq(AnyCall)) /\ Len(Tail(sc)) = Len(tl)
        /\ \A k \in 1..Len(Tail(sc)) : Tail(sc)[k] = sc[k + 1]
    BY <2>2, <2>3, <2>4, HeadTailProperties
  <2>6. \A k \in 1..Len(Tail(sc)) : Tail(sc)[k] = tl[k]
    <3> TAKE k \in 1..Len(Tail(sc))
    <3>1. k + 1 \in 1..(1 + Len(tl)) /\ ~(k + 1 <= 1) /\ (k + 1) - 1 = k
      BY <2>3, <2>5
    <3> QED
      BY <3>1, <2>2, <2>5
  <2>7. Tail(sc) = tl
    BY <1>1, <2>5, <2>6, SeqEqual
  <2> QED
    BY <1>3, <2>2, <2>4, <2>7 DEF Ready, sc
<1> QED
  BY <1>2, <1>3

\* The call at hand is made, and other calls come in its place.
LEMMA CallReplaced ==
    ASSUME NEW sc, NEW q, NEW s, NEW q2, NEW s2, NEW calls, sc # <<>>, Ready(sc, q, s),
           \A c \in Card : c \in q /\ ~Wakes(Head(Head(sc)), c) => c \in q2,
           \A c \in Card : Head(Head(sc)) = Call("settle", c) /\ c \in s => c \in q2,
           \A c \in Card : Head(Head(sc)) = Call("off", c) => c \in s2,
           calls = <<>> \/ (Head(Head(sc)).do # "off" /\ Takes(calls, q2, q2))
    PROVE  Ready((IF calls \o Tail(Head(sc)) = <<>> THEN <<>> ELSE <<calls \o Tail(Head(sc))>>)
                     \o Tail(sc), q2, s2)
<1> DEFINE l == Head(sc)
           tl == Tail(sc)
<1>1. l # <<>> /\ Guarded(l, q, s) /\ SoundScript(tl)
  BY DEF Ready
<1> HIDE DEF l, tl
<1>2. Tail(l) \in Seq(AnyCall)
  BY <1>1, HeadTailProperties DEF Guarded
<1>3. Guarded(calls \o Tail(l), q2, s2)
  <2>1. CASE calls = <<>>
    <3>1. calls \o Tail(l) = Tail(l)
      BY <1>2, <2>1, ConcatEmptySeq
    <3>2. Guarded(Tail(l), q2, s2)
      BY <1>1, FirstCallMade DEF l
    <3> QED
      BY <3>1, <3>2
  <2>2. CASE Head(l).do # "off" /\ Takes(calls, q2, q2)
    <3>1. \A c \in Card : Head(l) # Call("off", c)
      BY <2>2 DEF Call
    <3>2. Guarded(Tail(l), q2, {})
      BY <1>1, <3>1, FirstCallMade DEF l
    <3>3. Takes(Tail(l), q2, {})
      BY <3>2 DEF Takes
    <3>4. Takes(calls \o Tail(l), q2, {})
      BY <2>2, <3>3, OneAfterAnother
    <3>5. Guarded(calls \o Tail(l), q2, {})
      BY <3>4 DEF Takes
    <3> QED
      BY <3>5, GuardedMore
  <2> QED
    BY <2>1, <2>2 DEF l
<1> QED
  BY <1>1, <1>3, FirstListReady DEF l, tl

-----------------------------------------------------------------------------
(* The steps.                                                              *)

\* A thread goes on with its script, in any way that is sound.
LEMMA ThreadMoves ==
    ASSUME BuffersKept, NEW t \in {"main", "stop"}, script[t] # <<>>, NEW sc,
           script' = [script EXCEPT ![t] = sc], UNCHANGED <<callback, early>>,
           ~early => Ready(sc, Quiet', Still') /\ NoFreedBuffer'
    PROVE  BuffersKept'
<1>1. DOMAIN script' = {"main", "stop"} /\ script'[t] = sc
      /\ \A u \in {"main", "stop"} : u # t => script'[u] = script[u]
  BY DEF BuffersKept
<1>2. ASSUME ~early
      PROVE  \A u \in {"main", "stop"} : u # t => script'[u] = <<>>
  BY <1>1, <1>2 DEF BuffersKept
<1>3. ASSUME ~early
      PROVE  \A u \in {"main", "stop"} : Ready(script'[u], Quiet', Still')
  BY <1>1, <1>2, <1>3 DEF Ready
<1> QED
  BY <1>1, <1>2, <1>3 DEF BuffersKept

\* The script of a thread is given up, and the next begins.
LEMMA GivenUp ==
    ASSUME BuffersKept, NEW t \in {"main", "stop"}, script[t] # <<>>, GiveUp(t),
           UNCHANGED <<callback, early, held>>
    PROVE  BuffersKept'
<1>1. script' = [script EXCEPT ![t] = Tail(script[t])]
  BY DEF GiveUp, BuffersKept
<1>2. ~early => Ready(Tail(script[t]), Quiet', Still')
  BY SoundIsReady DEF BuffersKept, Ready
<1>3. ~early => NoFreedBuffer'
  BY DEF BuffersKept, NoFreedBuffer
<1> QED
  BY <1>1, <1>2, <1>3, ThreadMoves

\* A call is made, and other calls may come in its place.
LEMMA CallMade ==
    ASSUME BuffersKept, NEW t \in {"main", "stop"}, NEW do, NEW at, Calls(t, do, at),
           NEW calls, Expand(t, calls), UNCHANGED <<callback, early>>,
           \A c \in Card : c \in Quiet /\ ~Wakes(Call(do, at), c) => c \in Quiet',
           \A c \in Card : Call(do, at) = Call("settle", c) /\ c \in Still => c \in Quiet',
           \A c \in Card : Call(do, at) = Call("off", c) => c \in Still',
           calls = <<>> \/ (do # "off" /\ Takes(calls, Quiet', Quiet')),
           ~early => \A i \in Input : callback[i] = "copy" => i \in held'
    PROVE  BuffersKept'
<1> DEFINE sc == script[t]
           next == (IF calls \o Tail(Head(sc)) = <<>> THEN <<>>
                    ELSE <<calls \o Tail(Head(sc))>>) \o Tail(sc)
<1>1. sc # <<>> /\ Head(Head(sc)) = Call(do, at) /\ Call(do, at).do = do
  BY DEF Calls, Call
<1>2. script' = [script EXCEPT ![t] = next]
  BY DEF Expand, BuffersKept
<1>3. ASSUME ~early
      PROVE  Ready(next, Quiet', Still')
  <2>1. Ready(sc, Quiet, Still)
    BY <1>3 DEF BuffersKept
  <2> HIDE DEF sc
  <2> QED
    BY <1>1, <2>1, CallReplaced
<1>4. ~early => NoFreedBuffer'
  BY DEF NoFreedBuffer
<1> HIDE DEF next
<1> QED
  BY <1>1, <1>2, <1>3, <1>4, ThreadMoves DEF sc

\* A call that would free a buffer finds its card quiet.
LEMMA FreesQuietCard ==
    ASSUME BuffersKept, ~early, NEW t \in {"main", "stop"}, NEW do, NEW at, Calls(t, do, at),
           NEW c \in Card, Frees(Call(do, at), c)
    PROVE  \A i \in InputsOf(c) : callback[i] = "idle"
<1> DEFINE l == Head(script[t])
<1>1. l # <<>> /\ Guarded(l, Quiet, Still) /\ Head(l) = Call(do, at)
  BY DEF Calls, BuffersKept, Ready
<1> HIDE DEF l
<1>2. 1 \in 1..Len(l) /\ l[1] = Call(do, at)
  BY <1>1, EmptySeq DEF Guarded
<1>3. Rests(l, Quiet, 1, c)
  BY <1>1, <1>2 DEF Guarded
<1>4. PICK j \in 0..(1 - 1) : IF j = 0 THEN c \in Quiet ELSE l[j] = Call("settle", c)
  BY <1>3 DEF Rests
<1>5. j = 0
  BY <1>4
<1> QED
  BY <1>4, <1>5 DEF Quiet

\* Nothing happens to the buffers.
LEMMA BuffersAlone ==
    ASSUME BuffersKept, UNCHANGED <<callback, script, early, opened, receiving, held>>
    PROVE  BuffersKept'
<1>1. Quiet' = Quiet /\ Still' = Still
  BY DEF Quiet, Still
<1>2. Ready(script["main"], Quiet, Still)' = Ready(script["main"], Quiet, Still)
  BY <1>1 DEF Ready
<1> QED
  BY <1>1 DEF BuffersKept, NoFreedBuffer

\* A callback begins only on a card whose flow is on, and ends.
LEMMA CallbackKeepsBuffers ==
    ASSUME BuffersKept, NEW i \in Input, UserCallBack_Card1(i) \/ UserCallBack_Card2(i),
           UNCHANGED <<script, early, opened, receiving, held>>
    PROVE  BuffersKept'
<1>1. CASE /\ callback' = [callback EXCEPT ![i] = "copy"] /\ i \in held
           /\ \E c \in Card : i \in InputsOf(c) /\ c \in opened \cap receiving
  <2>1. Still' = Still
    BY DEF Still
  <2>2. Quiet \subseteq Quiet'
    <3> SUFFICES ASSUME NEW c \in Quiet
                 PROVE  c \in Quiet'
      OBVIOUS
    <3>1. c \in Still /\ c \in Card /\ \A j \in InputsOf(c) : callback[j] = "idle"
      BY DEF Quiet, Still
    <3>2. i \notin InputsOf(c)
      BY <1>1, <3>1, Places DEF Still
    <3>3. \A j \in InputsOf(c) : callback'[j] = "idle"
      <4> TAKE j \in InputsOf(c)
      <4>1. j # i /\ j \in Input
        BY <3>1, <3>2, Places
      <4> QED
        BY <1>1, <3>1, <4>1 DEF BuffersKept
    <3> QED
      BY <2>1, <3>1, <3>3 DEF Quiet
  <2>3. callback' \in [Input -> {"idle", "copy"}]
    BY <1>1 DEF BuffersKept
  <2>4. ~early => NoFreedBuffer'
    BY <1>1 DEF BuffersKept, NoFreedBuffer
  <2>5. ~early => \A t \in {"main", "stop"} : Ready(script'[t], Quiet', Still')
    BY <2>1, <2>2, ReadyMore DEF BuffersKept
  <2> QED
    BY <2>3, <2>4, <2>5 DEF BuffersKept
<1>2. CASE callback' = [callback EXCEPT ![i] = "idle"]
  <2>1. Still' = Still
    BY DEF Still
  <2>2. Quiet \subseteq Quiet'
    <3> SUFFICES ASSUME NEW c \in Quiet
                 PROVE  c \in Quiet'
      OBVIOUS
    <3>1. c \in Still /\ c \in Card /\ \A j \in InputsOf(c) : callback[j] = "idle"
      BY DEF Quiet, Still
    <3>2. \A j \in InputsOf(c) : callback'[j] = "idle"
      <4> TAKE j \in InputsOf(c)
      <4>1. j \in Input
        BY <3>1, Places
      <4> QED
        BY <1>2, <3>1, <4>1 DEF BuffersKept
    <3> QED
      BY <2>1, <3>1, <3>2 DEF Quiet
  <2>3. callback' \in [Input -> {"idle", "copy"}]
    BY <1>2 DEF BuffersKept
  <2>4. ~early => NoFreedBuffer'
    BY <1>2 DEF BuffersKept, NoFreedBuffer
  <2>5. ~early => \A t \in {"main", "stop"} : Ready(script'[t], Quiet', Still')
    BY <2>1, <2>2, ReadyMore DEF BuffersKept
  <2> QED
    BY <2>3, <2>4, <2>5 DEF BuffersKept
<1>3. 1 \in Card /\ 2 \in Card
  BY Places
<1> QED
  BY <1>1, <1>2, <1>3 DEF UserCallBack_Card1, UserCallBack_Card2, Interrupt

\* A call that touches neither the flow nor the buffers of a card.
LEMMA PlainCall ==
    ASSUME BuffersKept, NEW t \in {"main", "stop"}, NEW do, NEW at, Calls(t, do, at),
           NEW calls, Expand(t, calls),
           UNCHANGED <<callback, early, opened, receiving, held>>,
           do \notin {"off", "settle"},
           calls = <<>> \/ Takes(calls, Quiet, Quiet)
    PROVE  BuffersKept'
<1>1. Quiet' = Quiet /\ Still' = Still
  BY DEF Quiet, Still
<1>2. \A c : Call(do, at) # Call("settle", c) /\ Call(do, at) # Call("off", c)
  BY DEF Call
<1>3. ~early => \A i \in Input : callback[i] = "copy" => i \in held'
  BY DEF BuffersKept, NoFreedBuffer
<1> QED
  BY <1>1, <1>2, <1>3, CallMade

\* A call that leaves cards and buffers alone, when it is made without a fault.
LEMMA PlainAdvance ==
    ASSUME BuffersKept, NEW t \in {"main", "stop"}, NEW do, NEW at, Calls(t, do, at),
           Advance(t), UNCHANGED <<callback, early, opened, receiving, held>>,
           do \notin {"off", "settle"}
    PROVE  BuffersKept'
BY PlainCall DEF Advance

\* The calls about threads, files, folders and flags.
LEMMA ThreadCalls ==
    ASSUME BuffersKept, NEW t \in {"main", "stop"}, UNCHANGED early, NEW i \in Input,
           \/ createDirectory(t, i) \/ StartThread(t, i) \/ SignalThread(t, i)
           \/ JoinThread(t, i) \/ stopDisplayThread(t, i) \/ Halt(t) \/ TestMinute(t)
    PROVE  BuffersKept'
<1>1. createDirectory(t, i) =>
          /\ Calls(t, "folder", i) /\ Advance(t)
          /\ UNCHANGED <<callback, early, opened, receiving, held>>
  BY DEF createDirectory, inputVars
<1>2. StartThread(t, i) =>
          /\ Calls(t, "start", i) /\ Advance(t)
          /\ UNCHANGED <<callback, early, opened, receiving, held>>
  BY DEF StartThread, cardVars
<1>3. SignalThread(t, i) =>
          /\ Calls(t, "signal", i) /\ Advance(t)
          /\ UNCHANGED <<callback, early, opened, receiving, held>>
  BY DEF SignalThread, cardVars
<1>4. JoinThread(t, i) =>
          /\ Calls(t, "join", i) /\ Advance(t)
          /\ UNCHANGED <<callback, early, opened, receiving, held>>
  BY DEF JoinThread, cardVars
<1>5. stopDisplayThread(t, i) =>
          /\ Calls(t, "joinDisplay", i) /\ Advance(t)
          /\ UNCHANGED <<callback, early, opened, receiving, held>>
  BY DEF stopDisplayThread, cardVars
<1>6. Halt(t) =>
          /\ Calls(t, "halt", 0) /\ Advance(t)
          /\ UNCHANGED <<callback, early, opened, receiving, held>>
  BY DEF Halt, inputVars
<1>7. TestMinute(t) =>
          /\ Calls(t, "minute", 0) /\ Advance(t)
          /\ UNCHANGED <<callback, early, opened, receiving, held>>
  BY DEF TestMinute
<1>8. {"folder", "start", "signal", "join", "joinDisplay", "halt", "minute"} \cap {"off", "settle"}
          = {}
  OBVIOUS
<1> QED
  BY <1>1, <1>2, <1>3, <1>4, <1>5, <1>6, <1>7, <1>8, PlainAdvance

\* A card is opened, or a buffer allocated: its card may wake, and nothing is freed.
LEMMA OpenKeepsBuffers ==
    ASSUME BuffersKept, NEW t \in {"main", "stop"}, UNCHANGED early, NEW c \in Card,
           OpenDriver(t, c)
    PROVE  BuffersKept'
<1>1. /\ Calls(t, "open", c) /\ Expand(t, <<>>) /\ opened' = opened \cup {c}
      /\ UNCHANGED <<callback, early, receiving, held>>
  BY DEF OpenDriver, Advance, inputVars
<1>2. Wakes(Call("open", c), c)
  BY DEF Wakes, Call
<1>3. \A d \in Card : d \in Quiet /\ ~Wakes(Call("open", c), d) => d \in Quiet'
  BY <1>1, <1>2 DEF Quiet, Still
<1>4. \A d : Call("open", c) # Call("settle", d) /\ Call("open", c) # Call("off", d)
  BY DEF Call
<1>5. ~early => \A i \in Input : callback[i] = "copy" => i \in held'
  BY <1>1 DEF BuffersKept, NoFreedBuffer
<1> QED
  BY <1>1, <1>3, <1>4, <1>5, CallMade

\* The flow of a card is switched, if the card is open.
LEMMA ConfigureKeepsBuffers ==
    ASSUME BuffersKept, NEW t \in {"main", "stop"}, UNCHANGED early, NEW c \in Card,
           configureDriver(t, c)
    PROVE  BuffersKept'
<1>1. /\ Expand(t, <<>>) /\ UNCHANGED <<callback, early, opened, held>>
      /\ \/ Calls(t, "off", c) /\ c \in opened /\ receiving' = receiving \ {c}
         \/ Calls(t, "on", c) /\ c \in opened /\ receiving' = receiving \cup {c}
         \/ (Calls(t, "off", c) \/ Calls(t, "on", c)) /\ c \notin opened /\ UNCHANGED receiving
  BY DEF configureDriver, Advance, inputVars
<1>2. /\ \A d : Call("off", c) # Call("settle", d)
      /\ \A d : Call("off", c) = Call("off", d) => d = c
      /\ \A d : Call("on", c) # Call("settle", d)
      /\ \A d : Call("on", c) # Call("off", d)
  BY DEF Call
<1>3. Wakes(Call("on", c), c)
  BY DEF Wakes, Call
<1>4. ~early => \A i \in Input : callback[i] = "copy" => i \in held'
  BY <1>1 DEF BuffersKept, NoFreedBuffer
<1>5. CASE Calls(t, "off", c) /\ (receiving' = receiving \ {c} \/ (c \notin opened /\ UNCHANGED receiving))
  <2>1. \A d \in Card : d \in Quiet => d \in Quiet'
    BY <1>1, <1>5 DEF Quiet, Still
  <2>2. c \in Still'
    BY <1>1, <1>5 DEF Still
  <2> QED
    BY <1>1, <1>2, <1>4, <1>5, <2>1, <2>2, CallMade
<1>6. CASE Calls(t, "on", c) /\ (receiving' = receiving \cup {c} \/ UNCHANGED receiving)
  <2>1. \A d \in Card : d \in Quiet /\ ~Wakes(Call("on", c), d) => d \in Quiet'
    BY <1>1, <1>3, <1>6 DEF Quiet, Still
  <2> QED
    BY <1>1, <1>2, <1>4, <1>6, <2>1, CallMade
<1>7. \/ Calls(t, "off", c) /\ (receiving' = receiving \ {c} \/ (c \notin opened /\ UNCHANGED receiving))
      \/ Calls(t, "on", c) /\ (receiving' = receiving \cup {c} \/ UNCHANGED receiving)
  BY <1>1
<1> QED
  BY <1>5, <1>6, <1>7

\* The second has passed in which a callback of the card may have been under way.
LEMMA SettleKeepsBuffers ==
    ASSUME BuffersKept, NEW t \in {"main", "stop"}, UNCHANGED early, NEW c \in Card,
           Settle(t, c)
    PROVE  BuffersKept'
<1>1. /\ Expand(t, <<>>) /\ UNCHANGED <<callback, early, opened, receiving, held>>
      /\ \/ Calls(t, "settle", c) /\ \A i \in InputsOf(c) : callback[i] = "idle"
         \/ Calls(t, "prepare", c)
  BY DEF Settle, Advance, inputVars, cardVars
<1>2. CASE Calls(t, "settle", c) /\ \A i \in InputsOf(c) : callback[i] = "idle"
  <2>1. Quiet' = Quiet /\ Still' = Still
    BY <1>1 DEF Quiet, Still
  <2>2. /\ \A d : Call("settle", c) = Call("settle", d) => d = c
        /\ \A d : Call("settle", c) # Call("off", d)
    BY DEF Call
  <2>3. c \in Still => c \in Quiet
    BY <1>2 DEF Quiet
  <2>4. ~early => \A i \in Input : callback[i] = "copy" => i \in held'
    BY <1>1 DEF BuffersKept, NoFreedBuffer
  <2> QED
    BY <1>1, <1>2, <2>1, <2>2, <2>3, <2>4, CallMade
<1>3. CASE Calls(t, "prepare", c)
  BY <1>1, <1>3, PlainAdvance DEF Advance
<1> QED
  BY <1>1, <1>2, <1>3

\* A buffer is allocated or freed.
LEMMA BufferCalls ==
    ASSUME BuffersKept, NEW t \in {"main", "stop"}, UNCHANGED early, NEW i \in Input,
           allocateMemoryBuffers(t, i) \/ deAllocateMemoryBuffers(t, i)
    PROVE  BuffersKept'
<1>1. UNCHANGED <<callback, early, opened, receiving>> /\ script[t] # <<>>
  BY DEF allocateMemoryBuffers, deAllocateMemoryBuffers, Calls, inputVars
<1>2. Quiet' = Quiet /\ Still' = Still
  BY <1>1 DEF Quiet, Still
<1>3. CASE GiveUp(t) /\ UNCHANGED held
  BY <1>1, <1>3, GivenUp
<1>4. CASE Calls(t, "alloc", i) /\ Advance(t) /\ held' = held \cup {i}
  <2>1. \A d : Call("alloc", i) # Call("settle", d) /\ Call("alloc", i) # Call("off", d)
    BY DEF Call
  <2>2. ~early => \A j \in Input : callback[j] = "copy" => j \in held'
    BY <1>4 DEF BuffersKept, NoFreedBuffer
  <2> QED
    BY <1>1, <1>2, <1>4, <2>1, <2>2, CallMade DEF Advance
<1>5. CASE Calls(t, "free", i) /\ Advance(t) /\ held' = held \ {i}
  <2>1. \A d : Call("free", i) # Call("settle", d) /\ Call("free", i) # Call("off", d)
    BY DEF Call
  <2>2. Frees(Call("free", i), i[1]) /\ i[1] \in Card /\ i \in InputsOf(i[1])
    BY Places DEF Frees, Call
  <2>3. ~early => callback[i] = "idle"
    BY <1>5, <2>2, FreesQuietCard
  <2>4. ~early => \A j \in Input : callback[j] = "copy" => j \in held'
    BY <1>5, <2>3 DEF BuffersKept, NoFreedBuffer
  <2> QED
    BY <1>1, <1>2, <1>5, <2>1, <2>4, CallMade DEF Advance
<1> QED
  BY <1>3, <1>4, <1>5 DEF allocateMemoryBuffers, deAllocateMemoryBuffers

\* A card is closed, and its buffers go with it.
LEMMA CloseKeepsBuffers ==
    ASSUME BuffersKept, NEW t \in {"main", "stop"}, UNCHANGED early, NEW c \in Card,
           closeCard(t, c)
    PROVE  BuffersKept'
<1>1. /\ Calls(t, "close", c) /\ Expand(t, <<>>) /\ opened' = opened \ {c}
      /\ held' = held \ InputsOf(c) /\ UNCHANGED <<callback, early, receiving>>
  BY DEF closeCard, Advance, inputVars
<1>2. \A d \in Card : d \in Quiet => d \in Quiet'
  BY <1>1 DEF Quiet, Still
<1>3. \A d : Call("close", c) # Call("settle", d) /\ Call("close", c) # Call("off", d)
  BY DEF Call
<1>4. Frees(Call("close", c), c)
  BY DEF Frees, Call
<1>5. ~early => \A i \in InputsOf(c) : callback[i] = "idle"
  BY <1>1, <1>4, FreesQuietCard
<1>6. ~early => \A i \in Input : callback[i] = "copy" => i \in held'
  BY <1>1, <1>5 DEF BuffersKept, NoFreedBuffer
<1> QED
  BY <1>1, <1>2, <1>3, <1>6, CallMade

\* The threads of a card are to be stopped, and its files to be closed.
LEMMA StopCalls ==
    ASSUME BuffersKept, NEW t \in {"main", "stop"}, UNCHANGED early, NEW c \in Card,
           StopThreads(t, c) \/ videoWritersRelease(t, c)
    PROVE  BuffersKept'
<1>1. CASE videoWritersRelease(t, c)
  <2>1. /\ Calls(t, "release", c) /\ Advance(t)
        /\ UNCHANGED <<callback, early, opened, receiving, held>>
    BY <1>1 DEF videoWritersRelease, inputVars
  <2> QED
    BY <2>1, PlainAdvance
<1>2. CASE StopThreads(t, c)
  <2>1. /\ Calls(t, "threads", c)
        /\ Expand(t, IF c \in opened THEN Both(Stop, c) ELSE <<>>)
        /\ UNCHANGED <<callback, early, opened, receiving, held>>
    BY <1>2 DEF StopThreads, inputVars, cardVars
  <2>2. Takes(Both(Stop, c), Quiet, Quiet)
    BY EachInput
  <2> QED
    BY <2>1, <2>2, PlainCall
<1> QED
  BY <1>1, <1>2

\* The cards show a test pattern to themselves.
LEMMA PatternKeepsBuffers ==
    ASSUME BuffersKept, NEW t \in {"main", "stop"}, UNCHANGED early, NEW c \in Card,
           TestPattern(t, c)
    PROVE  BuffersKept'
<1>1. /\ Calls(t, "pattern", c) /\ script[t] # <<>>
      /\ UNCHANGED <<callback, early, opened, held>>
  BY DEF TestPattern, inputVars, Calls
<1>2. \A d : Call("pattern", c) # Call("settle", d) /\ Call("pattern", c) # Call("off", d)
  BY DEF Call
<1>3. Wakes(Call("pattern", c), c)
  BY DEF Wakes, Call
<1>4. ~early => \A i \in Input : callback[i] = "copy" => i \in held'
  BY <1>1 DEF BuffersKept, NoFreedBuffer
<1>5. CASE receiving' = receiving \cup {c} /\ Expand(t, Both(Start, c))
  <2>1. \A d \in Card : d \in Quiet /\ ~Wakes(Call("pattern", c), d) => d \in Quiet'
    BY <1>1, <1>3, <1>5 DEF Quiet, Still
  <2>2. Takes(Both(Start, c), Quiet', Quiet')
    BY EachInput
  <2> QED
    BY <1>1, <1>2, <1>4, <1>5, <2>1, <2>2, CallMade
<1>6. CASE script' = [script EXCEPT ![t] = <<Both(Start, c)>> \o Tail(@)]
  <2>1. script' = [script EXCEPT ![t] = <<Both(Start, c)>> \o Tail(script[t])]
    BY <1>6 DEF BuffersKept
  <2>2. ASSUME ~early
        PROVE  Ready(<<Both(Start, c)>> \o Tail(script[t]), Quiet', Still')
    <3>1. SoundScript(<<Both(Start, c)>>)
      BY ProgramLists, OneList
    <3>2. SoundScript(Tail(script[t]))
      BY <1>1, <2>2 DEF BuffersKept, Ready
    <3> QED
      BY <3>1, <3>2, ScriptAfterScript, SoundIsReady
  <2>3. ~early => NoFreedBuffer'
    BY <1>4, <1>1 DEF NoFreedBuffer
  <2> QED
    BY <1>1, <2>1, <2>2, <2>3, ThreadMoves
<1>7. CASE Advance(t) /\ UNCHANGED receiving
  BY <1>1, <1>7, PlainAdvance
<1> QED
  BY <1>5, <1>6, <1>7 DEF TestPattern

\* The files are opened, the start-up begins, or a call fails.
LEMMA OtherCallsKeepBuffers ==
    ASSUME BuffersKept, NEW t \in {"main", "stop"}, UNCHANGED early,
           Begin(t) \/ initializeVideoWriters(t) \/ Throw(t)
    PROVE  BuffersKept'
<1>1. UNCHANGED <<callback, early, opened, receiving, held>> /\ script[t] # <<>>
  BY DEF Begin, initializeVideoWriters, Throw, Calls, inputVars
<1>2. CASE GiveUp(t)
  BY <1>1, <1>2, GivenUp
<1>3. CASE initializeVideoWriters(t) /\ ~GiveUp(t)
  <2>1. Calls(t, "writers", 0) /\ Advance(t)
    BY <1>3 DEF initializeVideoWriters
  <2> QED
    BY <1>1, <2>1, PlainAdvance
<1>4. CASE Begin(t)
  <2>1. PICK S \in SUBSET Input :
            /\ Calls(t, "begin", S)
            /\ \/ Advance(t)
               \/ script' = [script EXCEPT ![t] = <<stopFlickerDetection>>]
    BY <1>4 DEF Begin
  <2>2. CASE Advance(t)
    BY <1>1, <2>1, <2>2, PlainAdvance
  <2>3. CASE script' = [script EXCEPT ![t] = <<stopFlickerDetection>>]
    <3>1. Ready(<<stopFlickerDetection>>, Quiet', Still')
      BY ProgramLists, OneList, SoundIsReady
    <3>2. ~early => NoFreedBuffer'
      BY <1>1 DEF BuffersKept, NoFreedBuffer
    <3> QED
      BY <1>1, <2>3, <3>1, <3>2, ThreadMoves
  <2> QED
    BY <2>1, <2>2, <2>3
<1> QED
  BY <1>2, <1>3, <1>4 DEF Throw

-----------------------------------------------------------------------------

\* A command, or the stop, gives the other thread a script.
LEMMA ScriptGiven ==
    ASSUME BuffersKept, NEW l, Sound(l), script["stop"] = <<>>,
           script' = [script EXCEPT !["stop"] = <<l>>],
           ~early' => ~early /\ script["main"] = <<>>,
           UNCHANGED <<callback, opened, receiving, held>>
    PROVE  BuffersKept'
<1>1. DOMAIN script' = {"main", "stop"} /\ script'["stop"] = <<l>>
      /\ script'["main"] = script["main"]
  BY DEF BuffersKept
<1>2. Ready(<<l>>, Quiet', Still')
  BY OneList, SoundIsReady
<1>3. ASSUME ~early'
      PROVE  script'["main"] = <<>> /\ Ready(script'["main"], Quiet', Still') /\ ~early
  BY <1>1, <1>3 DEF Ready
<1>4. ~early' => NoFreedBuffer'
  BY <1>3 DEF BuffersKept, NoFreedBuffer
<1>5. callback' \in [Input -> {"idle", "copy"}]
  BY DEF BuffersKept
<1>6. ~early' => \A t \in {"main", "stop"} : Ready(script'[t], Quiet', Still')
  BY <1>1, <1>2, <1>3
<1> QED
  BY <1>1, <1>3, <1>4, <1>5, <1>6 DEF BuffersKept

\* The operator's commands and the stop give a thread a list that is sound; the end
\* of the program gives none.
LEMMA CommandsKeepBuffers ==
    ASSUME BuffersKept, processCommands \/ stopAllSystemsOnce \/ Leave
    PROVE  BuffersKept'
<1>1. ASSUME NEW l, Sound(l), Command(l)
      PROVE  BuffersKept'
  BY <1>1, ScriptGiven DEF Command, inputVars, cardVars
<1>2. CASE processCommands
  BY <1>1, <1>2, CardLists, ProgramLists DEF processCommands
<1>3. CASE stopAllSystemsOnce
  BY <1>3, ScriptGiven, ProgramLists DEF stopAllSystemsOnce, inputVars, cardVars
<1>4. CASE Leave
  <2>1. /\ UNCHANGED <<callback, opened, receiving, held, early>>
        /\ script["stop"] = <<>> /\ script["main"] = <<>>
        /\ \/ script' = [script EXCEPT !["stop"] = <<stopFlickerDetection>>]
           \/ UNCHANGED script
    BY <1>4 DEF Leave, inputVars, cardVars
  <2>2. CASE script' = [script EXCEPT !["stop"] = <<stopFlickerDetection>>]
    BY <2>1, <2>2, ScriptGiven, ProgramLists
  <2>3. CASE UNCHANGED script
    BY <2>1, <2>3, BuffersAlone
  <2> QED
    BY <2>1, <2>2, <2>3
<1> QED
  BY <1>2, <1>3, <1>4

\* Every call of the program.
LEMMA MakeKeepsBuffers ==
    ASSUME BuffersKept, NEW t \in {"main", "stop"}, Make(t)
    PROVE  BuffersKept'
<1>1. UNCHANGED early
  BY DEF Make
<1>2. <<1, 1>> \in Input
  BY Places
<1> QED
  BY <1>1, <1>2, ThreadCalls, OpenKeepsBuffers, ConfigureKeepsBuffers, SettleKeepsBuffers,
     BufferCalls, CloseKeepsBuffers, StopCalls, PatternKeepsBuffers, OtherCallsKeepBuffers
  DEF Make

\* Every step of the Velocity half.
LEMMA CaptureKeepsBuffers ==
    ASSUME BuffersKept, CaptureNext
    PROVE  BuffersKept'
<1>1. ASSUME NEW i \in Input, UserCallBack_Card1(i) \/ UserCallBack_Card2(i),
             UNCHANGED <<cardVars, programVars>>
      PROVE  BuffersKept'
  BY <1>1, CallbackKeepsBuffers DEF cardVars, programVars
<1>2. ASSUME NEW i \in Input, Work(i) \/ Show(i) \/ Handle(i), UNCHANGED <<cardVars, programVars>>
      PROVE  BuffersKept'
  <2>1. UNCHANGED callback
    BY <1>2 DEF Work, Show, Handle
  <2> QED
    BY <1>2, <2>1, BuffersAlone DEF cardVars, programVars
<1>3. <<1, 1>> \in Input /\ <<1, 2>> \in Input /\ <<2, 1>> \in Input /\ <<2, 2>> \in Input
  BY Places
<1> QED
  BY <1>1, <1>2, <1>3, MakeKeepsBuffers, CommandsKeepBuffers
  DEF CaptureNext, HandleCard1Channel1, HandleCard1Channel2, HandleCard2Channel1,
      HandleCard2Channel2

\* NoFreedBuffer, for any number of frames, failures and commands: a callback never copies
\* from a buffer that was freed, because every list of calls that frees one switches the
\* card off and lets it settle first, also when a call before it fails.
THEOREM BuffersAreNotFreed == Spec => []NoFreedBuffer
<1>1. Init => BuffersKept
  <2> SUFFICES ASSUME Init
               PROVE  BuffersKept
    OBVIOUS
  <2>1. callback = [i \in Input |-> "idle"] /\ early = FALSE
    BY DEF Init, CaptureInit, All
  <2>2. NoFreedBuffer
    BY <2>1 DEF NoFreedBuffer
  <2>3. DOMAIN script = {"main", "stop"} /\ script["stop"] = <<>>
        /\ SoundScript(script["main"])
    <3>1. ASSUME NEW r \in Recordings, Record(r)
          PROVE  DOMAIN script = {"main", "stop"} /\ script["stop"] = <<>>
                 /\ SoundScript(script["main"])
      <4>1. r.inputs \in SUBSET Input /\ (r.phase = "loop") \in BOOLEAN
        <5>1. /\ {<<2, 1>>} \in SUBSET Input /\ {<<2, 2>>} \in SUBSET Input
              /\ InputsOf(1) \in SUBSET Input
          BY Places
        <5> QED
          BY <5>1 DEF Recordings
      <4>2. SoundScript(startFlickerDetection(r.inputs, r.phase = "loop"))
        BY <4>1, StartIsSound
      <4> QED
        BY <3>1, <4>2 DEF Record
    <3>2. NoRecording => DOMAIN script = {"main", "stop"} /\ script["stop"] = <<>>
                         /\ SoundScript(script["main"])
      BY NoList DEF NoRecording
    <3> QED
      BY <3>1, <3>2 DEF Init
  <2>4. \A t \in {"main", "stop"} : Ready(script[t], Quiet, Still)
    BY <2>3, SoundIsReady, NoList
  <2> QED
    BY <2>1, <2>2, <2>3, <2>4 DEF BuffersKept
<1>2. BuffersKept /\ [Next]_vars => BuffersKept'
  <2> SUFFICES ASSUME BuffersKept, [Next]_vars
               PROVE  BuffersKept'
    OBVIOUS
  <2>1. UNCHANGED captureVars => BuffersKept'
    BY BuffersAlone DEF captureVars, inputVars, cardVars, programVars
  <2> QED
    BY <2>1, CaptureKeepsBuffers DEF Next, vars
<1>3. BuffersKept => NoFreedBuffer
  BY DEF BuffersKept, NoFreedBuffer
<1> QED
  BY <1>1, <1>2, <1>3, PTL DEF Spec

-----------------------------------------------------------------------------
(* The channels, and how far the program is with each.                     *)

DviThread == {"task", "command"}
Starting == {"produce", "consume", "show"}
Stopping == {"off", "shutFrames", "shutDisplay", "joinProducer", "joinConsumer", "joinDisplay"}
Stages == {"none", "start"} \cup Starting \cup Stopping

\* The calls about a channel that are left, and the stage after a call.
Rest(ch, stage) ==
    CASE stage = "none" -> <<>>
      [] stage = "start" -> <<Step("start", ch)>>
      [] stage = "produce" -> <<Step("produce", ch), Step("consume", ch), Step("show", ch)>>
      [] stage = "consume" -> <<Step("consume", ch), Step("show", ch)>>
      [] stage = "show" -> <<Step("show", ch)>>
      [] stage = "off" ->
            <<Step("off", ch), Step("shutFrames", ch), Step("shutDisplay", ch),
              Step("joinProducer", ch), Step("joinConsumer", ch), Step("joinDisplay", ch)>>
      [] stage = "shutFrames" ->
            <<Step("shutFrames", ch), Step("shutDisplay", ch),
              Step("joinProducer", ch), Step("joinConsumer", ch), Step("joinDisplay", ch)>>
      [] stage = "shutDisplay" ->
            <<Step("shutDisplay", ch), Step("joinProducer", ch), Step("joinConsumer", ch),
              Step("joinDisplay", ch)>>
      [] stage = "joinProducer" ->
            <<Step("joinProducer", ch), Step("joinConsumer", ch), Step("joinDisplay", ch)>>
      [] stage = "joinConsumer" -> <<Step("joinConsumer", ch), Step("joinDisplay", ch)>>
      [] stage = "joinDisplay" -> <<Step("joinDisplay", ch)>>

Succeeding(stage) ==
    CASE stage = "produce" -> "consume" [] stage = "consume" -> "show"
      [] stage = "off" -> "shutFrames" [] stage = "shutFrames" -> "shutDisplay"
      [] stage = "shutDisplay" -> "joinProducer" [] stage = "joinProducer" -> "joinConsumer"
      [] stage = "joinConsumer" -> "joinDisplay" [] OTHER -> "none"

\* The calls of a thread, from the stages of the channels.
CallsLeft(st) == Rest(1, st[1]) \o Rest(2, st[2])
NoStage == [ch \in {1, 2} |-> "none"]

\* The channel was started and has not been stopped since, but may have ended by itself.
Alive(ch) == ch \in is_running \/ ch \in selfEnded
NoThread(ch) == producer[ch] = "none" /\ consumer[ch] = "none" /\ window[ch] = "none"

\* What is true of a channel at a stage: the threads that are to be started do not exist,
\* and those that were joined no longer; a channel that nothing is done with is alive, or
\* has no thread, and in the stop has none.
At(ch, stage) ==
    /\ stage \in {"none", "start"} => NoThread(ch) \/ (dviPhase = "run" /\ Alive(ch))
    /\ stage \in Starting => Alive(ch)
    /\ stage \in {"start"} \cup Starting => dviPhase = "run"
    /\ stage = "produce" => producer[ch] = "none"
    /\ stage \in {"produce", "consume"} => consumer[ch] = "none"
    /\ stage \in Starting => window[ch] = "none"
    /\ stage \in {"joinConsumer", "joinDisplay"} => producer[ch] = "none"
    /\ stage = "joinDisplay" => consumer[ch] = "none"

\* One thread at a time has calls to make, those of the stages.
InStage(t, st) ==
    /\ \A u \in DviThread : u # t => todo[u] = <<>>
    /\ dviPhase = "stop" => t = "command"
    /\ \/ todo[t] = CallsLeft(st)
       \/ t = "task" /\ st = NoStage /\ todo[t] = <<Step("begin", 0)>>
    /\ \A ch \in Dvi : At(ch, st[ch])

\* The pipe is open only while the consumer uses it.
PipeUsed ==
    /\ ffmpeg \subseteq Dvi
    /\ \A ch \in Dvi : consumer[ch] \in {"none", "new", "done"} => ch \notin ffmpeg

Underway == dviPhase \in {"run", "stop"}
Undisturbed == ~dviEarly /\ dviFaults = 0

ChannelsKept ==
    /\ dviFaults \in Nat /\ dviEarly \in BOOLEAN
    /\ DOMAIN todo = DviThread
    /\ DOMAIN producer = Dvi /\ DOMAIN consumer = Dvi /\ DOMAIN window = Dvi
    /\ Undisturbed =>
         /\ DviRestarts
         /\ Underway => /\ PipeUsed
                        /\ \E t \in DviThread, st \in [{1, 2} -> Stages] : InStage(t, st)

-----------------------------------------------------------------------------
(* The calls that are left.                                                *)

\* The first of the calls about a channel, and the others.
LEMMA RestOfStage ==
    ASSUME NEW ch, NEW stage \in Stages, NEW S, S = [do : Stages, ch : {ch}]
    PROVE  /\ Rest(ch, stage) \in Seq(S)
           /\ Rest(ch, stage) = <<>> <=> stage = "none"
           /\ stage # "none" =>
                /\ Head(Rest(ch, stage)) = Step(stage, ch)
                /\ Tail(Rest(ch, stage)) = Rest(ch, Succeeding(stage))
           /\ Succeeding(stage) \in Stages
<1>1. \A d \in Stages : Step(d, ch) \in S
  BY DEF Step
<1>2. /\ Step("start", ch) \in S /\ Step("produce", ch) \in S /\ Step("consume", ch) \in S
      /\ Step("show", ch) \in S /\ Step("off", ch) \in S /\ Step("shutFrames", ch) \in S
      /\ Step("shutDisplay", ch) \in S /\ Step("joinProducer", ch) \in S
      /\ Step("joinConsumer", ch) \in S /\ Step("joinDisplay", ch) \in S
  BY <1>1 DEF Stages, Starting, Stopping
<1> HIDE DEF Step
<1>3. CASE stage = "none"
  BY <1>3, EmptySeq DEF Rest, Succeeding, Stages
<1>4. CASE stage = "start"
  BY <1>2, <1>4 DEF Rest, Succeeding, Stages
<1>5. CASE stage = "produce"
  BY <1>2, <1>5 DEF Rest, Succeeding, Stages, Starting
<1>6. CASE stage = "consume"
  BY <1>2, <1>6 DEF Rest, Succeeding, Stages, Starting
<1>7. CASE stage = "show"
  BY <1>2, <1>7 DEF Rest, Succeeding, Stages, Starting
<1>8. CASE stage = "off"
  BY <1>2, <1>8 DEF Rest, Succeeding, Stages, Stopping
<1>9. CASE stage = "shutFrames"
  BY <1>2, <1>9 DEF Rest, Succeeding, Stages, Stopping
<1>10. CASE stage = "shutDisplay"
  BY <1>2, <1>10 DEF Rest, Succeeding, Stages, Stopping
<1>11. CASE stage = "joinProducer"
  BY <1>2, <1>11 DEF Rest, Succeeding, Stages, Stopping
<1>12. CASE stage = "joinConsumer"
  BY <1>2, <1>12 DEF Rest, Succeeding, Stages, Stopping
<1>13. CASE stage = "joinDisplay"
  BY <1>2, <1>13 DEF Rest, Succeeding, Stages, Stopping
<1> QED
  BY <1>3, <1>4, <1>5, <1>6, <1>7, <1>8, <1>9, <1>10, <1>11, <1>12, <1>13
  DEF Stages, Starting, Stopping

\* The head and the tail of one list before another.
LEMMA HeadOfConcat ==
    ASSUME NEW S, NEW a \in Seq(S), NEW b \in Seq(S), a # <<>>
    PROVE  a \o b # <<>> /\ Head(a \o b) = Head(a) /\ Tail(a \o b) = Tail(a) \o b
<1>1. /\ Len(a) \in Nat \ {0} /\ Len(b) \in Nat /\ Head(a) = a[1]
      /\ Tail(a) \in Seq(S) /\ Len(Tail(a)) = Len(a) - 1
      /\ \A k \in 1..Len(Tail(a)) : Tail(a)[k] = a[k + 1]
  BY EmptySeq, HeadTailProperties
<1>2. /\ a \o b \in Seq(S) /\ Len(a \o b) = Len(a) + Len(b)
      /\ \A k \in 1..(Len(a) + Len(b)) : (a \o b)[k] = IF k <= Len(a) THEN a[k] ELSE b[k - Len(a)]
  BY ConcatProperties
<1>3. a \o b # <<>>
  BY <1>1, <1>2, EmptySeq
<1>4. Head(a \o b) = (a \o b)[1] /\ (a \o b)[1] = a[1]
  BY <1>1, <1>2, <1>3
<1>5. /\ Tail(a \o b) \in Seq(S) /\ Len(Tail(a \o b)) = Len(a) + Len(b) - 1
      /\ \A k \in 1..Len(Tail(a \o b)) : Tail(a \o b)[k] = (a \o b)[k + 1]
  BY <1>2, <1>3, HeadTailProperties
<1>6. /\ Tail(a) \o b \in Seq(S) /\ Len(Tail(a) \o b) = (Len(a) - 1) + Len(b)
      /\ \A k \in 1..((Len(a) - 1) + Len(b)) :
            (Tail(a) \o b)[k] = IF k <= Len(a) - 1 THEN Tail(a)[k] ELSE b[k - (Len(a) - 1)]
  BY <1>1, ConcatProperties
<1>7. \A k \in 1..Len(Tail(a \o b)) : Tail(a \o b)[k] = (Tail(a) \o b)[k]
  <2> TAKE k \in 1..Len(Tail(a \o b))
  <2>1. k + 1 \in 1..(Len(a) + Len(b)) /\ k \in 1..((Len(a) - 1) + Len(b))
    BY <1>1, <1>5
  <2>2. CASE k <= Len(a) - 1
    <3>1. k \in 1..Len(Tail(a)) /\ k + 1 <= Len(a)
      BY <1>1, <2>1, <2>2
    <3> QED
      BY <1>1, <1>2, <1>5, <1>6, <2>1, <2>2, <3>1
  <2>3. CASE ~(k <= Len(a) - 1)
    <3>1. ~(k + 1 <= Len(a)) /\ (k + 1) - Len(a) = k - (Len(a) - 1)
      BY <1>1, <2>1, <2>3
    <3> QED
      BY <1>2, <1>5, <1>6, <2>1, <2>3, <3>1
  <2> QED
    BY <2>2, <2>3
<1>8. Len(Tail(a \o b)) = Len(Tail(a) \o b)
  BY <1>1, <1>5, <1>6
<1>9. Tail(a \o b) = Tail(a) \o b
  BY <1>5, <1>6, <1>7, <1>8, SeqEqual
<1> QED
  BY <1>1, <1>3, <1>4, <1>9

\* The calls that are left are steps.
LEMMA RestIsSeq ==
    ASSUME NEW ch \in {1, 2}, NEW stage \in Stages
    PROVE  Rest(ch, stage) \in Seq([do : Stages, ch : {1, 2}])
<1>1. Rest(ch, stage) \in Seq([do : Stages, ch : {ch}])
  BY RestOfStage
<1>2. [do : Stages, ch : {ch}] \subseteq [do : Stages, ch : {1, 2}]
  OBVIOUS
<1> QED
  BY <1>1, <1>2, SeqMonotonic

\* The call at hand is the stage of a channel; it is made, and the next stage comes.
LEMMA NextCall ==
    ASSUME NEW st \in [{1, 2} -> Stages], CallsLeft(st) # <<>>
    PROVE  \E ch \in {1, 2} :
              /\ st[ch] # "none"
              /\ Head(CallsLeft(st)) = Step(st[ch], ch)
              /\ Tail(CallsLeft(st)) = CallsLeft([st EXCEPT ![ch] = Succeeding(st[ch])])
              /\ st[ch] = "start" => Threads(ch) \o Tail(CallsLeft(st))
                                          = CallsLeft([st EXCEPT ![ch] = "produce"])
<1> DEFINE S == [do : Stages, ch : {1, 2}]
<1>1. st[1] \in Stages /\ st[2] \in Stages
  OBVIOUS
<1>2. /\ Rest(1, st[1]) \in Seq(S) /\ Rest(2, st[2]) \in Seq(S)
      /\ "none" \in Stages /\ "produce" \in Stages
      /\ \A ch \in {1, 2}, stage \in Stages : Rest(ch, stage) \in Seq(S)
  BY <1>1, RestIsSeq DEF Stages, Starting
<1>3. \A ch \in {1, 2} : Rest(ch, "none") = <<>> /\ Threads(ch) = Rest(ch, "produce")
  BY DEF Rest, Threads
<1>4. Succeeding("start") = "none"
  BY DEF Succeeding
<1>5. \A ch \in {1, 2}, stage \in Stages :
         stage # "none" => /\ Rest(ch, stage) # <<>>
                           /\ Head(Rest(ch, stage)) = Step(stage, ch)
                           /\ Tail(Rest(ch, stage)) = Rest(ch, Succeeding(stage))
                           /\ Succeeding(stage) \in Stages
  BY RestOfStage
<1> HIDE DEF S
<1>6. CASE st[1] # "none"
  <2> DEFINE st2 == [st EXCEPT ![1] = Succeeding(st[1])]
             st3 == [st EXCEPT ![1] = "produce"]
  <2>1. Rest(1, st[1]) # <<>> /\ Head(Rest(1, st[1])) = Step(st[1], 1)
        /\ Tail(Rest(1, st[1])) = Rest(1, Succeeding(st[1]))
    BY <1>1, <1>5, <1>6
  <2>2. st2[1] = Succeeding(st[1]) /\ st2[2] = st[2] /\ st3[1] = "produce" /\ st3[2] = st[2]
    OBVIOUS
  <2>3. /\ Head(CallsLeft(st)) = Step(st[1], 1)
        /\ Tail(CallsLeft(st)) = Rest(1, Succeeding(st[1])) \o Rest(2, st[2])
    <3>1. /\ Head(Rest(1, st[1]) \o Rest(2, st[2])) = Head(Rest(1, st[1]))
          /\ Tail(Rest(1, st[1]) \o Rest(2, st[2])) = Tail(Rest(1, st[1])) \o Rest(2, st[2])
      BY <1>2, <2>1, HeadOfConcat
    <3> QED
      BY <2>1, <3>1 DEF CallsLeft
  <2>4. Tail(CallsLeft(st)) = CallsLeft(st2)
    BY <2>2, <2>3 DEF CallsLeft
  <2>5. ASSUME st[1] = "start"
        PROVE  Threads(1) \o Tail(CallsLeft(st)) = CallsLeft(st3)
    <3>1. Tail(CallsLeft(st)) = <<>> \o Rest(2, st[2])
      BY <1>3, <1>4, <2>3, <2>5
    <3>2. Tail(CallsLeft(st)) = Rest(2, st[2])
      BY <1>2, <3>1, ConcatEmptySeq
    <3> QED
      BY <1>3, <2>2, <3>2 DEF CallsLeft
  <2> QED
    BY <1>6, <2>3, <2>4, <2>5
<1>7. CASE st[1] = "none"
  <2> DEFINE st2 == [st EXCEPT ![2] = Succeeding(st[2])]
             st3 == [st EXCEPT ![2] = "produce"]
  <2>1. \A stage \in Stages : Rest(1, "none") \o Rest(2, stage) = Rest(2, stage)
    BY <1>2, <1>3, ConcatEmptySeq
  <2>2. CallsLeft(st) = Rest(2, st[2])
    BY <1>1, <1>7, <2>1 DEF CallsLeft
  <2>3. st[2] # "none"
    BY <1>3, <2>2
  <2>4. Rest(2, st[2]) # <<>> /\ Head(Rest(2, st[2])) = Step(st[2], 2)
        /\ Tail(Rest(2, st[2])) = Rest(2, Succeeding(st[2])) /\ Succeeding(st[2]) \in Stages
    BY <1>1, <1>5, <2>3
  <2>5. st2[2] = Succeeding(st[2]) /\ st2[1] = "none" /\ st3[2] = "produce" /\ st3[1] = "none"
    BY <1>7
  <2>6. CallsLeft(st2) = Rest(2, Succeeding(st[2]))
    BY <2>1, <2>4, <2>5 DEF CallsLeft
  <2>7. CallsLeft(st3) = Rest(2, "produce")
    BY <1>2, <2>1, <2>5 DEF CallsLeft
  <2>8. ASSUME st[2] = "start"
        PROVE  Threads(2) \o Tail(CallsLeft(st)) = CallsLeft(st3)
    <3>1. Tail(CallsLeft(st)) = <<>>
      BY <1>3, <1>4, <2>2, <2>4, <2>8
    <3>2. Rest(2, "produce") \o <<>> = Rest(2, "produce")
      BY <1>2, ConcatEmptySeq
    <3> QED
      BY <1>3, <2>7, <3>1, <3>2
  <2> QED
    BY <2>2, <2>3, <2>4, <2>6, <2>8
<1> QED
  BY <1>6, <1>7

\* Nothing is left when nothing is done with any channel.
LEMMA NothingLeft ==
    ASSUME NEW st \in [{1, 2} -> Stages], CallsLeft(st) = <<>>
    PROVE  st[1] = "none" /\ st[2] = "none"
<1>1. Rest(1, st[1]) \in Seq([do : Stages, ch : {1, 2}])
      /\ Rest(2, st[2]) \in Seq([do : Stages, ch : {1, 2}])
  BY RestIsSeq
<1>2. Rest(1, st[1]) = <<>> /\ Rest(2, st[2]) = <<>>
  BY <1>1, ConcatEqualIffEmpty DEF CallsLeft
<1> QED
  BY <1>2, RestOfStage

\* The calls that begin a start, a stop, or nothing.
LEMMA CallsBegun ==
    ASSUME NEW S
    PROVE  LET Of2(stage) == [ch \in {1, 2} |-> IF ch \in S THEN stage ELSE "none"]
           IN  /\ Chosen(StartChannel, S) = CallsLeft(Of2("start"))
               /\ Chosen(StopChannel, S) = CallsLeft(Of2("off"))
BY DEF Chosen, CallsLeft, Rest, StartChannel, StopChannel

\* Where nothing is done with any channel, there is no call to make.
LEMMA NoCallLeft == CallsLeft(NoStage) = <<>> /\ NoStage \in [{1, 2} -> Stages]
<1>1. CallsLeft(NoStage) = <<>> \o <<>>
  BY DEF CallsLeft, NoStage, Rest
<1>2. <<>> \o <<>> = <<>>
  BY EmptySeq, ConcatEmptySeq
<1> QED
  BY <1>1, <1>2 DEF NoStage, Stages

-----------------------------------------------------------------------------
(* The steps of the channels, of the program and of its user.              *)

\* What a step leaves of the channels while nothing is called: no thread comes or goes.
ThreadsRemain ==
    \A ch \in Dvi : /\ producer'[ch] = "none" <=> producer[ch] = "none"
                    /\ consumer'[ch] = "none" <=> consumer[ch] = "none"
                    /\ window'[ch] = "none" <=> window[ch] = "none"
                    /\ Alive(ch) => Alive(ch)'

\* A step of the threads of a channel.
LEMMA ChannelsRemain ==
    ASSUME ChannelsKept, ThreadsRemain, UNCHANGED <<todo, dviEarly, dviPhase>>, Underway,
           dviFaults' \in Nat, dviFaults' = 0 => dviFaults = 0,
           DOMAIN producer' = Dvi, DOMAIN consumer' = Dvi, DOMAIN window' = Dvi,
           Undisturbed' => (PipeUsed => PipeUsed')
    PROVE  ChannelsKept'
<1>1. ASSUME Undisturbed'
      PROVE  DviRestarts' /\ PipeUsed' /\ \E t \in DviThread, st \in [{1, 2} -> Stages] : InStage(t, st)'
  <2>1. Undisturbed
    BY <1>1 DEF Undisturbed
  <2>2. PipeUsed'
    BY <1>1, <2>1 DEF ChannelsKept
  <2>3. PICK t \in DviThread, st \in [{1, 2} -> Stages] : InStage(t, st)
    BY <2>1 DEF ChannelsKept
  <2>4. \A ch \in Dvi : \A stage : At(ch, stage) => At(ch, stage)'
    BY DEF At, ThreadsRemain, NoThread
  <2>5. InStage(t, st)'
    BY <2>3, <2>4 DEF InStage
  <2>6. DviRestarts'
    BY DEF DviRestarts, Underway
  <2> QED
    BY <2>2, <2>5, <2>6
<1> QED
  BY <1>1 DEF ChannelsKept

\* The process has ended, or somebody was early, or a call has failed.
LEMMA NothingClaimed ==
    ASSUME ChannelsKept, dviFaults' \in Nat, dviEarly' \in BOOLEAN, DOMAIN todo' = DviThread,
           DOMAIN producer' = Dvi, DOMAIN consumer' = Dvi, DOMAIN window' = Dvi,
           Undisturbed' => ~Underway' /\ DviRestarts'
    PROVE  ChannelsKept'
BY DEF ChannelsKept

\* The producer of a channel opens the device, takes frames or cleans up.
LEMMA ProducerKeepsChannels ==
    ASSUME ChannelsKept, Underway, NEW c \in Dvi, producer_worker(c),
           UNCHANGED <<todo, dviEarly, dviCommands>>
    PROVE  ChannelsKept'
<1>1. dviFaults \in Nat /\ dviEarly \in BOOLEAN
  BY DEF ChannelsKept
<1>2. /\ DOMAIN producer' = Dvi /\ DOMAIN consumer' = Dvi /\ DOMAIN window' = Dvi
      /\ UNCHANGED <<dviPhase, window, ffmpeg>>
  BY DEF producer_worker, initDevice, TakeShot, cleanup, ChannelsKept, GoesOn
<1>3. CASE dviFaults' = dviFaults + 1
  <2>1. dviFaults' \in Nat /\ dviFaults' # 0
    BY <1>1, <1>3
  <2> QED
    BY <1>1, <1>2, <2>1, NothingClaimed DEF Undisturbed, ChannelsKept
<1>4. CASE UNCHANGED dviFaults /\ dviFaults' # dviFaults + 1
  <2>1. /\ UNCHANGED <<is_running, selfEnded>>
        /\ \A ch \in Dvi : \/ producer'[ch] = producer[ch]
                           \/ producer[ch] # "none" /\ producer'[ch] # "none"
        /\ \A ch \in Dvi : consumer'[ch] = consumer[ch]
                           \/ (consumer[ch] = "asleep" /\ consumer'[ch] = "woken")
    <3>1. CASE initDevice(c)
      BY <1>4, <3>1 DEF initDevice, DviFault, ChannelsKept
    <3>2. CASE TakeShot(c)
      BY <1>4, <3>2 DEF TakeShot, Woken, ChannelsKept
    <3>3. CASE cleanup(c)
      BY <1>4, <3>3 DEF cleanup, DviFault, ChannelsKept
    <3> QED
      BY <3>1, <3>2, <3>3 DEF producer_worker
  <2>2. ThreadsRemain
    BY <1>2, <2>1 DEF ThreadsRemain, Alive
  <2>3. PipeUsed => PipeUsed'
    BY <1>2, <2>1 DEF PipeUsed
  <2> QED
    BY <1>1, <1>2, <1>4, <2>2, <2>3, ChannelsRemain
<1>5. dviFaults' = dviFaults + 1 \/ UNCHANGED dviFaults
  BY DEF producer_worker, initDevice, TakeShot, cleanup, DviFault, NoDviFault
<1> QED
  BY <1>3, <1>4, <1>5

\* The consumer opens the pipe to ffmpeg, writes frames into it and closes it.
LEMMA ConsumerKeepsChannels ==
    ASSUME ChannelsKept, Underway, NEW c \in Dvi, consumer_worker(c),
           UNCHANGED <<todo, dviEarly, dviCommands>>
    PROVE  ChannelsKept'
<1>1. dviFaults \in Nat /\ dviEarly \in BOOLEAN
  BY DEF ChannelsKept
<1>2. /\ DOMAIN producer' = Dvi /\ DOMAIN consumer' = Dvi /\ DOMAIN window' = Dvi
      /\ UNCHANGED <<is_running, producer, selfEnded>>
  BY DEF consumer_worker, ChannelsKept
<1>3. dviFaults' = dviFaults + 1 \/ UNCHANGED dviFaults
  BY DEF consumer_worker, DviFault, NoDviFault
<1>4. CASE dviFaults' = dviFaults + 1
  <2>1. dviFaults' \in Nat /\ dviFaults' # 0
    BY <1>1, <1>4
  <2> QED
    BY <1>1, <1>2, <2>1, NothingClaimed DEF Undisturbed, ChannelsKept
<1>5. CASE UNCHANGED dviFaults /\ dviPhase' = "crash"
  BY <1>1, <1>2, <1>5, NothingClaimed DEF Underway, DviRestarts, ChannelsKept
<1>6. CASE dviFaults' = dviFaults /\ dviFaults' # dviFaults + 1 /\ dviPhase' # "crash"
  <2>1. /\ UNCHANGED dviPhase
        /\ \A ch \in Dvi : window'[ch] = window[ch]
                           \/ (window[ch] = "asleep" /\ window'[ch] = "woken")
        /\ consumer[c] # "none" /\ consumer'[c] # "none"
        /\ \A ch \in Dvi \ {c} : consumer'[ch] = consumer[ch]
        /\ ffmpeg' \ {c} = ffmpeg \ {c}
        /\ c \in ffmpeg' => c \in ffmpeg \/ consumer'[c] = "loop"
        /\ c \in ffmpeg' /\ consumer'[c] \in {"new", "done"} => FALSE
    <3>1. CASE consumer[c] = "new"
      BY <1>6, <3>1 DEF consumer_worker, ChannelsKept, DviFault, GoesOn, Pop
    <3>2. CASE consumer[c] = "wait"
      BY <1>6, <3>2 DEF consumer_worker, ChannelsKept, DviFault, GoesOn, Pop
    <3>3. CASE consumer[c] = "work"
      BY <1>6, <3>3 DEF consumer_worker, ChannelsKept, DviFault, GoesOn, Pop, Woken
    <3>4. CASE consumer[c] \in {"loop", "woken"}
      BY <1>6, <3>4 DEF consumer_worker, ChannelsKept, DviFault, GoesOn, Pop
    <3> QED
      BY <3>1, <3>2, <3>3, <3>4 DEF consumer_worker, Pop
  <2>2. ThreadsRemain
    BY <1>2, <2>1 DEF ThreadsRemain, Alive
  <2>3. PipeUsed => PipeUsed'
    BY <1>2, <2>1 DEF PipeUsed
  <2> QED
    BY <1>1, <1>2, <1>6, <2>1, <2>2, <2>3, ChannelsRemain
<1> QED
  BY <1>3, <1>4, <1>5, <1>6

\* The window of a channel shows frames, or a key in it ends the channel.
LEMMA DisplayKeepsChannels ==
    ASSUME ChannelsKept, Underway, NEW c \in Dvi, display_worker(c),
           UNCHANGED <<todo, dviEarly>>
    PROVE  ChannelsKept'
<1>1. dviFaults \in Nat /\ dviEarly \in BOOLEAN
  BY DEF ChannelsKept
<1>2. /\ DOMAIN producer' = Dvi /\ DOMAIN consumer' = Dvi /\ DOMAIN window' = Dvi
      /\ UNCHANGED <<producer, consumer, ffmpeg>>
  BY DEF display_worker, ChannelsKept
<1>3. dviFaults' = dviFaults + 1 \/ UNCHANGED dviFaults
  BY DEF display_worker, DviFault, NoDviFault
<1>4. CASE dviFaults' = dviFaults + 1
  <2>1. dviFaults' \in Nat /\ dviFaults' # 0
    BY <1>1, <1>4
  <2> QED
    BY <1>1, <1>2, <2>1, NothingClaimed DEF Undisturbed, ChannelsKept
<1>5. CASE dviFaults' = dviFaults /\ dviFaults' # dviFaults + 1
  <2>1. /\ UNCHANGED dviPhase
        /\ window[c] # "none" /\ window'[c] # "none"
        /\ \A ch \in Dvi \ {c} : window'[ch] = window[ch]
        /\ \A ch \in Dvi : Alive(ch) => Alive(ch)'
    <3>1. CASE window[c] = "new"
      BY <1>5, <3>1 DEF display_worker, ChannelsKept, DviFault, GoesOn, Pop, Alive
    <3>2. CASE window[c] = "wait"
      BY <1>5, <3>2 DEF display_worker, ChannelsKept, DviFault, GoesOn, Pop, Alive
    <3>3. CASE window[c] = "work"
      BY <1>5, <3>3 DEF display_worker, ChannelsKept, DviFault, GoesOn, Pop, Alive, Ends
    <3>4. CASE window[c] \in {"loop", "woken"}
      BY <1>5, <3>4 DEF display_worker, ChannelsKept, DviFault, GoesOn, Pop, Alive
    <3> QED
      BY <3>1, <3>2, <3>3, <3>4 DEF display_worker, Pop
  <2>2. ThreadsRemain
    BY <1>2, <2>1 DEF ThreadsRemain
  <2>3. PipeUsed => PipeUsed'
    BY <1>2 DEF PipeUsed
  <2> QED
    BY <1>1, <1>2, <1>5, <2>1, <2>2, <2>3, ChannelsRemain
<1> QED
  BY <1>3, <1>4, <1>5

\* The call that a thread must make, and what comes after it.
Staged(t, do, c, st) ==
    /\ InStage(t, st) /\ c \in {1, 2} /\ st[c] = do
    /\ Tail(todo[t]) = CallsLeft([st EXCEPT ![c] = Succeeding(do)])
    /\ do = "start" => Threads(c) \o Tail(todo[t]) = CallsLeft([st EXCEPT ![c] = "produce"])

\* The call that a thread must make is the stage of its channel.
LEMMA CallIsStage ==
    ASSUME ChannelsKept, Undisturbed, Underway, NEW t \in DviThread, NEW do, NEW c,
           Must(t, do, c), do # "begin"
    PROVE  \E st \in [{1, 2} -> Stages] : Staged(t, do, c, st)
<1>1. PICK u \in DviThread, st \in [{1, 2} -> Stages] : InStage(u, st)
  BY DEF ChannelsKept
<1>2. u = t
  BY <1>1 DEF InStage, Must
<1>3. Head(todo[t]) = Step(do, c) /\ todo[t] # <<>>
  BY DEF Must
<1>4. todo[t] = CallsLeft(st)
  <2>1. Head(<<Step("begin", 0)>>) # Step(do, c)
    BY DEF Step
  <2> QED
    BY <1>1, <1>2, <1>3, <2>1 DEF InStage
<1>5. PICK ch \in {1, 2} :
          /\ st[ch] # "none"
          /\ Head(CallsLeft(st)) = Step(st[ch], ch)
          /\ Tail(CallsLeft(st)) = CallsLeft([st EXCEPT ![ch] = Succeeding(st[ch])])
          /\ st[ch] = "start" => Threads(ch) \o Tail(CallsLeft(st))
                                      = CallsLeft([st EXCEPT ![ch] = "produce"])
  BY <1>3, <1>4, NextCall
<1>6. ch = c /\ st[ch] = do
  BY <1>3, <1>4, <1>5 DEF Step
<1> QED
  BY <1>1, <1>2, <1>4, <1>5, <1>6 DEF Staged

\* The stage of a channel moves on, and the other channels stay as they are.
LEMMA StageMoves ==
    ASSUME ChannelsKept, Undisturbed, Underway, NEW t \in DviThread,
           NEW st \in [{1, 2} -> Stages], InStage(t, st), NEW c \in Dvi, NEW stage \in Stages,
           todo' = [todo EXCEPT ![t] = CallsLeft([st EXCEPT ![c] = stage])],
           UNCHANGED <<dviFaults, dviEarly, dviPhase>>,
           DOMAIN producer' = Dvi, DOMAIN consumer' = Dvi, DOMAIN window' = Dvi,
           \A ch \in Dvi \ {c} : /\ producer'[ch] = producer[ch]
                                 /\ consumer'[ch] = consumer[ch]
                                 /\ window'[ch] = window[ch]
                                 /\ Alive(ch)' <=> Alive(ch),
           At(c, stage)', PipeUsed'
    PROVE  ChannelsKept'
<1> DEFINE st2 == [st EXCEPT ![c] = stage]
<1>1. st2 \in [{1, 2} -> Stages] /\ c \in {1, 2} /\ st2[c] = stage
      /\ \A ch \in Dvi : ch # c => st2[ch] = st[ch]
  BY DviAssumption
<1> HIDE DEF st2
<1>2. /\ DOMAIN todo' = DviThread /\ todo'[t] = CallsLeft(st2)
      /\ \A u \in DviThread : u # t => todo'[u] = todo[u]
  BY DEF ChannelsKept, st2
<1>3. \A ch \in Dvi : At(ch, st2[ch])'
  <2> SUFFICES ASSUME NEW ch \in Dvi
               PROVE  At(ch, st2[ch])'
    OBVIOUS
  <2>1. CASE ch = c
    BY <1>1, <2>1
  <2>2. CASE ch # c
    <3>1. At(ch, st[ch]) /\ st2[ch] = st[ch] /\ ch \in Dvi \ {c}
      BY <1>1, <2>2 DEF InStage
    <3>2. PICK x : x = st[ch]
      OBVIOUS
    <3>3. At(ch, x)
      BY <3>1, <3>2
    <3>4. At(ch, x)'
      BY <3>1, <3>3 DEF At, NoThread
    <3>5. st2'[ch] = x
      BY <3>1, <3>2 DEF st2
    <3> QED
      BY <3>4, <3>5
  <2> QED
    BY <2>1, <2>2
<1>4. InStage(t, st2)'
  BY <1>2, <1>3 DEF InStage
<1>5. DviRestarts'
  BY DEF DviRestarts, Underway
<1> QED
  BY <1>1, <1>2, <1>4, <1>5 DEF ChannelsKept, Undisturbed

\* A call of the program while nothing is claimed any more.
LEMMA CallsUnclaimed ==
    ASSUME ChannelsKept, NEW t \in DviThread, NEW c \in Dvi,
           StartDvi(t, c) \/ Spawn(t, c) \/ StopDvi(t, c) \/ JoinDvi(t, c),
           UNCHANGED <<dviFaults, dviEarly>>
    PROVE  /\ DOMAIN todo' = DviThread
           /\ DOMAIN producer' = Dvi /\ DOMAIN consumer' = Dvi /\ DOMAIN window' = Dvi
           /\ ~Undisturbed => ChannelsKept'
<1>1. DOMAIN todo' = DviThread
  BY DEF StartDvi, Spawn, StopDvi, JoinDvi, GoesTo, ChannelsKept
<1>2. DOMAIN producer' = Dvi /\ DOMAIN consumer' = Dvi /\ DOMAIN window' = Dvi
  BY DEF StartDvi, Spawn, StopDvi, JoinDvi, ChannelsKept
<1> QED
  BY <1>1, <1>2 DEF ChannelsKept, Undisturbed

\* A channel that is not alive has no thread, and gets its three.
LEMMA StartKeepsChannels ==
    ASSUME ChannelsKept, Underway, NEW t \in DviThread, NEW c \in Dvi, StartDvi(t, c),
           UNCHANGED <<dviFaults, dviEarly>>
    PROVE  ChannelsKept'
<1> SUFFICES ASSUME Undisturbed
             PROVE  ChannelsKept'
  BY CallsUnclaimed
<1>0. Must(t, "start", c) /\ UNCHANGED <<producer, consumer, window, ffmpeg, selfEnded>>
  BY DEF StartDvi
<1>11. PICK st \in [{1, 2} -> Stages] : Staged(t, "start", c, st)
  <2>1. "start" # "begin"
    OBVIOUS
  <2> QED
    BY <1>0, <2>1, CallIsStage
<1>1. /\ InStage(t, st) /\ c \in {1, 2} /\ st[c] = "start"
      /\ Tail(todo[t]) = CallsLeft([st EXCEPT ![c] = Succeeding("start")])
      /\ Threads(c) \o Tail(todo[t]) = CallsLeft([st EXCEPT ![c] = "produce"])
  BY <1>11 DEF Staged
<1>2. At(c, "start")
  BY <1>1 DEF InStage
<1>3. /\ DOMAIN todo' = DviThread
      /\ DOMAIN producer' = Dvi /\ DOMAIN consumer' = Dvi /\ DOMAIN window' = Dvi
  BY CallsUnclaimed
<1>4. PipeUsed'
  BY <1>0 DEF ChannelsKept, PipeUsed
<1>5. "none" \in Stages /\ "produce" \in Stages
  BY DEF Stages, Starting
<1>6. CASE c \in is_running
  <2>1. todo' = [todo EXCEPT ![t] = <<>> \o Tail(todo[t])] /\ UNCHANGED <<is_running, dviPhase>>
    BY <1>6 DEF StartDvi, GoesTo, GoesOn, ChannelsKept
  <2>2. <<>> \o Tail(todo[t]) = CallsLeft([st EXCEPT ![c] = "none"])
    <3>1. Tail(todo[t]) = CallsLeft([st EXCEPT ![c] = "none"])
      BY <1>1 DEF Succeeding
    <3>2. [st EXCEPT ![c] = "none"] \in [{1, 2} -> Stages]
      BY <1>5
    <3>3. \A f \in [{1, 2} -> Stages] : CallsLeft(f) \in Seq([do : Stages, ch : {1, 2}])
      BY RestIsSeq, ConcatProperties DEF CallsLeft
    <3> QED
      BY <3>1, <3>2, <3>3, ConcatEmptySeq
  <2>3. At(c, "none")'
    BY <1>0, <1>2, <1>6, <2>1 DEF At, Alive, Starting
  <2> QED
    BY <1>0, <1>1, <1>3, <1>4, <1>5, <2>1, <2>2, <2>3, StageMoves DEF Alive
<1>7. CASE c \notin is_running
  <2>1. /\ todo' = [todo EXCEPT ![t] = Threads(c) \o Tail(todo[t])]
        /\ is_running' = is_running \cup {c}
        /\ dviPhase' = IF {producer[c], consumer[c], window[c]} = {"none"}
                       THEN dviPhase ELSE "abort"
    BY <1>7 DEF StartDvi, GoesTo, ChannelsKept
  <2>4. todo' = [todo EXCEPT ![t] = CallsLeft([st EXCEPT ![c] = "produce"])]
    BY <1>1, <2>1
  <2>2. CASE NoThread(c)
    <3>1. dviPhase' = dviPhase
      BY <2>1, <2>2 DEF NoThread
    <3>2. At(c, "produce")'
      BY <1>0, <1>2, <2>1, <2>2, <3>1 DEF At, Alive, NoThread, Starting
    <3>3. \A ch \in Dvi \ {c} : Alive(ch)' <=> Alive(ch)
      BY <1>0, <2>1 DEF Alive
    <3> QED
      BY <1>0, <1>1, <1>3, <1>4, <1>5, <2>4, <3>1, <3>2, <3>3, StageMoves
  <2>3. CASE ~NoThread(c)
    <3>1. c \in selfEnded
      BY <1>2, <1>7, <2>3 DEF At, Alive
    <3>2. dviPhase' = "abort"
      BY <2>1, <2>3 DEF NoThread
    <3>3. DviRestarts' /\ ~Underway'
      BY <1>0, <3>1, <3>2 DEF DviRestarts, Underway
    <3> QED
      BY <1>3, <3>3, NothingClaimed DEF ChannelsKept
  <2> QED
    BY <2>2, <2>3
<1> QED
  BY <1>6, <1>7

\* The threads are started one after the other, and none of them exists by then.
LEMMA SpawnKeepsChannels ==
    ASSUME ChannelsKept, Underway, NEW t \in DviThread, NEW c \in Dvi, Spawn(t, c),
           UNCHANGED <<dviFaults, dviEarly>>
    PROVE  ChannelsKept'
<1> SUFFICES ASSUME Undisturbed
             PROVE  ChannelsKept'
  BY CallsUnclaimed
<1>0. /\ UNCHANGED <<is_running, ffmpeg, selfEnded>>
      /\ todo' = [todo EXCEPT ![t] = <<>> \o Tail(todo[t])]
  BY DEF Spawn, GoesTo, ChannelsKept
<1>1. PICK do \in Starting :
          /\ Must(t, do, c)
          /\ do = "produce" => /\ producer' = [producer EXCEPT ![c] = "new"]
                               /\ UNCHANGED <<consumer, window>>
                               /\ producer[c] = "none" => dviPhase' = dviPhase
          /\ do = "consume" => /\ consumer' = [consumer EXCEPT ![c] = "new"]
                               /\ UNCHANGED <<producer, window>>
                               /\ consumer[c] = "none" => dviPhase' = dviPhase
          /\ do = "show" => /\ window' = [window EXCEPT ![c] = "new"]
                            /\ UNCHANGED <<producer, consumer>>
                            /\ window[c] = "none" => dviPhase' = dviPhase
  BY DEF Spawn, Starting
<1>2. do # "begin" /\ do # "start" /\ do \in {"produce", "consume", "show"}
  BY DEF Starting
<1>31. PICK st \in [{1, 2} -> Stages] : Staged(t, do, c, st)
  BY <1>1, <1>2, CallIsStage
<1>3. /\ InStage(t, st) /\ c \in {1, 2} /\ st[c] = do
      /\ Tail(todo[t]) = CallsLeft([st EXCEPT ![c] = Succeeding(do)])
  BY <1>31 DEF Staged
<1>4. At(c, do)
  BY <1>3 DEF InStage
<1>5. dviPhase' = dviPhase
  BY <1>1, <1>2, <1>4 DEF At, Starting
<1>6. /\ DOMAIN producer' = Dvi /\ DOMAIN consumer' = Dvi /\ DOMAIN window' = Dvi
  BY CallsUnclaimed
<1>7. Succeeding(do) \in Stages
  BY <1>2 DEF Stages, Starting, Succeeding
<1>8. <<>> \o Tail(todo[t]) = CallsLeft([st EXCEPT ![c] = Succeeding(do)])
  <2>1. [st EXCEPT ![c] = Succeeding(do)] \in [{1, 2} -> Stages]
    BY <1>7
  <2>2. \A f \in [{1, 2} -> Stages] : CallsLeft(f) \in Seq([do : Stages, ch : {1, 2}])
    BY RestIsSeq, ConcatProperties DEF CallsLeft
  <2> QED
    BY <1>3, <2>1, <2>2, ConcatEmptySeq
<1>9. At(c, Succeeding(do))'
  <2>1. CASE do = "produce"
    <3>1. Succeeding(do) = "consume"
      BY <2>1 DEF Succeeding
    <3> QED
      BY <1>0, <1>1, <1>4, <1>5, <2>1, <3>1 DEF At, Alive, Starting
  <2>2. CASE do = "consume"
    <3>1. Succeeding(do) = "show"
      BY <2>2 DEF Succeeding
    <3> QED
      BY <1>0, <1>1, <1>4, <1>5, <2>2, <3>1 DEF At, Alive, Starting
  <2>3. CASE do = "show"
    <3>1. Succeeding(do) = "none"
      BY <2>3 DEF Succeeding
    <3> QED
      BY <1>0, <1>1, <1>4, <1>5, <2>3, <3>1 DEF At, Alive, Starting
  <2> QED
    BY <1>2, <2>1, <2>2, <2>3
<1>10. /\ \A ch \in Dvi \ {c} : /\ producer'[ch] = producer[ch] /\ consumer'[ch] = consumer[ch]
                                /\ window'[ch] = window[ch] /\ (Alive(ch)' <=> Alive(ch))
  BY <1>0, <1>1, <1>2 DEF ChannelsKept, Alive
<1>11. PipeUsed'
  <2>1. PipeUsed /\ (do = "consume" => consumer[c] = "none")
    BY <1>4 DEF ChannelsKept, At
  <2>2. \A ch \in Dvi : consumer'[ch] = consumer[ch] \/ consumer[ch] = "none"
    BY <1>1, <1>2, <2>1 DEF ChannelsKept
  <2> QED
    BY <1>0, <2>1, <2>2 DEF PipeUsed
<1>12. todo' = [todo EXCEPT ![t] = CallsLeft([st EXCEPT ![c] = Succeeding(do)])]
  BY <1>0, <1>8
<1> QED
  BY <1>3, <1>5, <1>6, <1>7, <1>9, <1>10, <1>11, <1>12, StageMoves

\* The flags of a stop are set.
LEMMA StopKeepsChannels ==
    ASSUME ChannelsKept, Underway, NEW t \in DviThread, NEW c \in Dvi, StopDvi(t, c),
           UNCHANGED <<dviFaults, dviEarly>>
    PROVE  ChannelsKept'
<1> SUFFICES ASSUME Undisturbed
             PROVE  ChannelsKept'
  BY CallsUnclaimed
<1>0. /\ UNCHANGED <<producer, ffmpeg, selfEnded, dviPhase>>
      /\ todo' = [todo EXCEPT ![t] = <<>> \o Tail(todo[t])]
  BY DEF StopDvi, GoesTo, GoesOn, ChannelsKept
<1>1. PICK do \in {"off", "shutFrames", "shutDisplay"} :
          /\ Must(t, do, c)
          /\ is_running' = is_running \/ is_running' = is_running \ {c}
          /\ consumer' = consumer \/ consumer' = [consumer EXCEPT ![c] = Woken(@)]
          /\ window' = window \/ window' = [window EXCEPT ![c] = Woken(@)]
  BY DEF StopDvi
<1>2. do # "begin" /\ do # "start"
  OBVIOUS
<1>31. PICK st \in [{1, 2} -> Stages] : Staged(t, do, c, st)
  BY <1>1, <1>2, CallIsStage
<1>3. /\ InStage(t, st) /\ c \in {1, 2} /\ st[c] = do
      /\ Tail(todo[t]) = CallsLeft([st EXCEPT ![c] = Succeeding(do)])
  BY <1>31 DEF Staged
<1>6. /\ DOMAIN producer' = Dvi /\ DOMAIN consumer' = Dvi /\ DOMAIN window' = Dvi
  BY CallsUnclaimed
<1>7. Succeeding(do) \in {"shutFrames", "shutDisplay", "joinProducer"} /\ Succeeding(do) \in Stages
  BY DEF Stages, Stopping, Succeeding
<1>8. <<>> \o Tail(todo[t]) = CallsLeft([st EXCEPT ![c] = Succeeding(do)])
  <2>1. [st EXCEPT ![c] = Succeeding(do)] \in [{1, 2} -> Stages]
    BY <1>7
  <2>2. \A f \in [{1, 2} -> Stages] : CallsLeft(f) \in Seq([do : Stages, ch : {1, 2}])
    BY RestIsSeq, ConcatProperties DEF CallsLeft
  <2> QED
    BY <1>3, <2>1, <2>2, ConcatEmptySeq
<1>9. At(c, Succeeding(do))'
  BY <1>7 DEF At, Starting
<1>10. /\ \A ch \in Dvi \ {c} : /\ producer'[ch] = producer[ch] /\ consumer'[ch] = consumer[ch]
                                /\ window'[ch] = window[ch] /\ (Alive(ch)' <=> Alive(ch))
  BY <1>0, <1>1 DEF ChannelsKept, Alive
<1>11. PipeUsed'
  <2>1. \A ch \in Dvi : consumer'[ch] = consumer[ch]
                        \/ (consumer[ch] = "asleep" /\ consumer'[ch] = "woken")
    BY <1>1 DEF ChannelsKept, Woken
  <2> QED
    BY <1>0, <2>1 DEF PipeUsed, ChannelsKept
<1>12. todo' = [todo EXCEPT ![t] = CallsLeft([st EXCEPT ![c] = Succeeding(do)])]
  BY <1>0, <1>8
<1>13. dviPhase' = dviPhase
  BY <1>0
<1> QED
  BY <1>3, <1>6, <1>7, <1>9, <1>10, <1>11, <1>12, <1>13, StageMoves

\* The threads are joined, the producer first; with the last of them the channel has none.
LEMMA JoinKeepsChannels ==
    ASSUME ChannelsKept, Underway, NEW t \in DviThread, NEW c \in Dvi, JoinDvi(t, c),
           UNCHANGED <<dviFaults, dviEarly>>
    PROVE  ChannelsKept'
<1> SUFFICES ASSUME Undisturbed
             PROVE  ChannelsKept'
  BY CallsUnclaimed
<1>0. /\ UNCHANGED <<is_running, ffmpeg, dviPhase>>
      /\ todo' = [todo EXCEPT ![t] = <<>> \o Tail(todo[t])]
  BY DEF JoinDvi, GoesTo, GoesOn, ChannelsKept
<1>1. PICK do \in {"joinProducer", "joinConsumer", "joinDisplay"} :
          /\ Must(t, do, c)
          /\ selfEnded' = selfEnded \/ selfEnded' = selfEnded \ {c}
          /\ do = "joinProducer" => /\ producer' = [producer EXCEPT ![c] = "none"]
                                    /\ UNCHANGED <<consumer, window>>
          /\ do = "joinConsumer" => /\ consumer' = [consumer EXCEPT ![c] = "none"]
                                    /\ UNCHANGED <<producer, window>>
                                    /\ consumer[c] \in {"none", "done"}
          /\ do = "joinDisplay" => /\ window' = [window EXCEPT ![c] = "none"]
                                   /\ UNCHANGED <<producer, consumer>>
  BY DEF JoinDvi
<1>2. do # "begin" /\ do # "start"
  OBVIOUS
<1>31. PICK st \in [{1, 2} -> Stages] : Staged(t, do, c, st)
  BY <1>1, <1>2, CallIsStage
<1>3. /\ InStage(t, st) /\ c \in {1, 2} /\ st[c] = do
      /\ Tail(todo[t]) = CallsLeft([st EXCEPT ![c] = Succeeding(do)])
  BY <1>31 DEF Staged
<1>4. At(c, do)
  BY <1>3 DEF InStage
<1>6. /\ DOMAIN producer' = Dvi /\ DOMAIN consumer' = Dvi /\ DOMAIN window' = Dvi
  BY CallsUnclaimed
<1>7. Succeeding(do) \in Stages
  BY DEF Stages, Stopping, Succeeding
<1>8. <<>> \o Tail(todo[t]) = CallsLeft([st EXCEPT ![c] = Succeeding(do)])
  <2>1. [st EXCEPT ![c] = Succeeding(do)] \in [{1, 2} -> Stages]
    BY <1>7
  <2>2. \A f \in [{1, 2} -> Stages] : CallsLeft(f) \in Seq([do : Stages, ch : {1, 2}])
    BY RestIsSeq, ConcatProperties DEF CallsLeft
  <2> QED
    BY <1>3, <2>1, <2>2, ConcatEmptySeq
<1>9. At(c, Succeeding(do))'
  <2>1. CASE do = "joinProducer"
    <3>1. Succeeding(do) = "joinConsumer" /\ producer'[c] = "none"
      BY <1>1, <2>1 DEF Succeeding, ChannelsKept
    <3> QED
      BY <3>1 DEF At, Starting
  <2>2. CASE do = "joinConsumer"
    <3>1. Succeeding(do) = "joinDisplay" /\ producer'[c] = "none" /\ consumer'[c] = "none"
      BY <1>1, <1>4, <2>2 DEF Succeeding, ChannelsKept, At
    <3> QED
      BY <3>1 DEF At, Starting
  <2>3. CASE do = "joinDisplay"
    <3>1. Succeeding(do) = "none" /\ NoThread(c)'
      BY <1>1, <1>4, <2>3 DEF Succeeding, ChannelsKept, At, NoThread
    <3> QED
      BY <3>1 DEF At, Starting
  <2> QED
    BY <2>1, <2>2, <2>3
<1>10. /\ \A ch \in Dvi \ {c} : /\ producer'[ch] = producer[ch] /\ consumer'[ch] = consumer[ch]
                                /\ window'[ch] = window[ch] /\ (Alive(ch)' <=> Alive(ch))
  BY <1>0, <1>1 DEF ChannelsKept, Alive
<1>11. PipeUsed'
  <2>1. \A ch \in Dvi : consumer'[ch] = consumer[ch] \/ consumer[ch] \in {"none", "done"}
    BY <1>1 DEF ChannelsKept
  <2> QED
    BY <1>0, <2>1 DEF PipeUsed, ChannelsKept
<1>12. todo' = [todo EXCEPT ![t] = CallsLeft([st EXCEPT ![c] = Succeeding(do)])]
  BY <1>0, <1>8
<1>13. dviPhase' = dviPhase
  BY <1>0
<1> QED
  BY <1>3, <1>6, <1>7, <1>9, <1>10, <1>11, <1>12, <1>13, StageMoves

\* The stage of a list of calls that has just been given.
BegunAt(S, stage) == [ch \in {1, 2} |-> IF ch \in S THEN stage ELSE "none"]

\* While a thread has nothing to do, nothing is done with any channel.
LEMMA NothingDone ==
    ASSUME ChannelsKept, Undisturbed, Underway, \A t \in DviThread : todo[t] = <<>>
    PROVE  \A ch \in Dvi : At(ch, "none")
<1>1. PICK t \in DviThread, st \in [{1, 2} -> Stages] : InStage(t, st)
  BY DEF ChannelsKept
<1>2. todo[t] = CallsLeft(st)
  <2>1. <<Step("begin", 0)>> # <<>> /\ todo[t] = <<>>
    OBVIOUS
  <2> QED
    BY <1>1, <2>1 DEF InStage
<1>3. st[1] = "none" /\ st[2] = "none"
  BY <1>2, NothingLeft
<1> QED
  BY <1>1, <1>3, DviAssumption DEF InStage

\* The task begins with the channels that the command line names, or throws.
LEMMA BeginKeepsChannels ==
    ASSUME ChannelsKept, Underway, NEW S \in SUBSET Dvi, startFlickerDetectionDvi(S)
    PROVE  ChannelsKept'
<1>1. /\ Must("task", "begin", 0)
      /\ UNCHANGED <<channelVars, dviEarly, dviCommands>>
      /\ dviFaults \in Nat /\ dviEarly \in BOOLEAN
      /\ DOMAIN producer' = Dvi /\ DOMAIN consumer' = Dvi /\ DOMAIN window' = Dvi
      /\ DOMAIN todo' = DviThread
  BY DEF startFlickerDetectionDvi, ChannelsKept, channelVars, GoesTo
<1>2. CASE dviFaults' = dviFaults + 1
  <2>1. dviFaults' \in Nat /\ dviFaults' # 0
    BY <1>1, <1>2
  <2> QED
    BY <1>1, <2>1, NothingClaimed DEF Undisturbed
<1>3. CASE GoesTo("task", Chosen(StartChannel, S)) /\ GoesOn /\ NoDviFault
  <2>0. UNCHANGED <<dviFaults, dviPhase, dviEarly>>
    BY <1>1, <1>3 DEF GoesOn, NoDviFault
  <2>1. CASE ~Undisturbed
    BY <1>1, <2>0, <2>1 DEF ChannelsKept, Undisturbed
  <2>2. CASE Undisturbed
    <3>1. PICK t \in DviThread, st \in [{1, 2} -> Stages] : InStage(t, st)
      BY <2>2 DEF ChannelsKept
    <3>2. t = "task" /\ todo["task"] # <<>> /\ Head(todo["task"]) = Step("begin", 0)
      BY <1>1, <3>1 DEF InStage, Must, DviThread
    <3>3. todo["task"] = <<Step("begin", 0)>> /\ st = NoStage
      <4>1. CASE todo["task"] = CallsLeft(st)
        <5>1. PICK ch \in {1, 2} : Head(CallsLeft(st)) = Step(st[ch], ch)
          BY <3>2, <4>1, NextCall
        <5>2. st[ch] = "begin" /\ st[ch] \in Stages
          BY <3>2, <4>1, <5>1 DEF Step
        <5> QED
          BY <5>2 DEF Stages, Starting, Stopping
      <4> QED
        BY <3>1, <3>2, <4>1 DEF InStage
    <3>4. Tail(todo["task"]) = <<>>
      BY <3>3
    <3>5. Chosen(StartChannel, S) = CallsLeft(BegunAt(S, "start"))
      BY CallsBegun DEF BegunAt
    <3>6. BegunAt(S, "start") \in [{1, 2} -> Stages]
      BY DEF BegunAt, Stages
    <3>7. CallsLeft(BegunAt(S, "start")) \in Seq([do : Stages, ch : {1, 2}])
      BY <3>6, RestIsSeq, ConcatProperties DEF CallsLeft
    <3>8. todo' = [todo EXCEPT !["task"] = CallsLeft(BegunAt(S, "start"))]
      <4>1. todo' = [todo EXCEPT !["task"] = Chosen(StartChannel, S) \o Tail(todo["task"])]
        BY <1>3 DEF GoesTo, ChannelsKept, DviThread
      <4>2. Chosen(StartChannel, S) \o Tail(todo["task"]) = CallsLeft(BegunAt(S, "start"))
        BY <3>4, <3>5, <3>7, ConcatEmptySeq
      <4> QED
        BY <4>1, <4>2
    <3>9. dviPhase = "run"
      BY <3>1, <3>2 DEF InStage, Underway
    <3>10. \A ch \in Dvi : At(ch, "none")
      BY <3>1, <3>3, DviAssumption DEF InStage, NoStage
    <3>11. \A ch \in Dvi : At(ch, BegunAt(S, "start")[ch])'
      <4> SUFFICES ASSUME NEW ch \in Dvi
                   PROVE  At(ch, BegunAt(S, "start")[ch])'
        OBVIOUS
      <4>1. NoThread(ch) \/ Alive(ch)
        BY <3>10 DEF At
      <4>2. BegunAt(S, "start")[ch] \in {"none", "start"}
        BY DviAssumption DEF BegunAt
      <4>3. dviPhase' = "run" /\ (NoThread(ch)' \/ Alive(ch)')
        BY <1>1, <2>0, <3>9, <4>1 DEF channelVars, NoThread, Alive
      <4>4. PICK x \in {"none", "start"} : x = BegunAt(S, "start")[ch]
        BY <4>2
      <4>5. At(ch, x)'
        BY <4>3 DEF At, Starting
      <4> QED
        BY <4>4, <4>5 DEF BegunAt
    <3>12. InStage("task", BegunAt(S, "start"))'
      <4>1. /\ todo'["task"] = CallsLeft(BegunAt(S, "start"))
            /\ \A u \in DviThread : u # "task" => todo'[u] = <<>>
        BY <3>1, <3>2, <3>8 DEF InStage, ChannelsKept, DviThread
      <4>2. dviPhase' # "stop"
        BY <2>0, <3>9
      <4> QED
        BY <3>11, <4>1, <4>2 DEF InStage, BegunAt
    <3>13. PipeUsed'
      BY <1>1, <2>2 DEF ChannelsKept, PipeUsed, channelVars
    <3>14. DviRestarts'
      BY <2>0, <3>9 DEF DviRestarts
    <3> QED
      BY <1>1, <2>0, <3>6, <3>12, <3>13, <3>14 DEF ChannelsKept, DviThread
  <2> QED
    BY <2>1, <2>2
<1> QED
  BY <1>2, <1>3 DEF startFlickerDetectionDvi, DviFault

\* A command, or the stop, is given to a thread that has nothing to do.
LEMMA GivenKeepsChannels ==
    ASSUME ChannelsKept, Underway, todo["command"] = <<>>, dviPhase = "run",
           NEW st \in [{1, 2} -> Stages],
           todo' = [todo EXCEPT !["command"] = CallsLeft(st)],
           dviEarly' = (dviEarly \/ todo["task"] # <<>>),
           UNCHANGED <<channelVars, dviFaults>>, dviPhase' \in {"run", "stop"},
           \A ch \in Dvi : \/ st[ch] \in {"none", "start"} /\ dviPhase' = "run"
                           \/ st[ch] = "off"
    PROVE  ChannelsKept'
<1>1. /\ dviFaults' \in Nat /\ dviEarly' \in BOOLEAN /\ DOMAIN todo' = DviThread
      /\ DOMAIN producer' = Dvi /\ DOMAIN consumer' = Dvi /\ DOMAIN window' = Dvi
  BY DEF ChannelsKept, channelVars
<1>2. ASSUME Undisturbed'
      PROVE  DviRestarts' /\ PipeUsed' /\ InStage("command", st)'
  <2>1. Undisturbed /\ todo["task"] = <<>>
    BY <1>2 DEF Undisturbed, ChannelsKept
  <2>2. \A ch \in Dvi : At(ch, "none")
    BY <2>1, NothingDone DEF DviThread
  <2>3. \A ch \in Dvi : At(ch, st[ch])'
    <3> SUFFICES ASSUME NEW ch \in Dvi
                 PROVE  At(ch, st[ch])'
      OBVIOUS
    <3>1. PICK x : x = st[ch]
      OBVIOUS
    <3>2. NoThread(ch)' \/ Alive(ch)'
      BY <2>2 DEF At, NoThread, Alive, channelVars
    <3>3. At(ch, x)'
      BY <3>1, <3>2 DEF At, Starting
    <3> QED
      BY <3>1, <3>3
  <2>4. /\ todo'["command"] = CallsLeft(st)
        /\ \A u \in DviThread : u # "command" => todo'[u] = <<>>
    BY <2>1 DEF DviThread, ChannelsKept
  <2>5. InStage("command", st)'
    BY <2>3, <2>4 DEF InStage
  <2>6. PipeUsed'
    BY <2>1 DEF ChannelsKept, PipeUsed, channelVars
  <2>7. DviRestarts'
    BY DEF DviRestarts
  <2> QED
    BY <2>5, <2>6, <2>7
<1> QED
  BY <1>1, <1>2 DEF ChannelsKept, DviThread

\* The operator and the stop start or stop channels while no such call is left.
LEMMA CommandsKeepChannels ==
    ASSUME ChannelsKept, Underway,
           \/ StopAllDvi
           \/ \E S \in SUBSET Dvi : \/ DviCommand(Chosen(StartChannel, S))
                                    \/ DviCommand(Chosen(StopChannel, S))
    PROVE  ChannelsKept'
<1>1. \A S, stage : stage \in Stages => BegunAt(S, stage) \in [{1, 2} -> Stages]
  BY DEF BegunAt, Stages
<1>2. "start" \in Stages /\ "off" \in Stages
  BY DEF Stages, Stopping
<1>3. ASSUME NEW S \in SUBSET Dvi, DviCommand(Chosen(StartChannel, S))
      PROVE  ChannelsKept'
  <2>1. todo' = [todo EXCEPT !["command"] = CallsLeft(BegunAt(S, "start"))]
    BY <1>3, CallsBegun DEF DviCommand, BegunAt
  <2>2. \A ch \in Dvi : BegunAt(S, "start")[ch] \in {"none", "start"}
    BY DviAssumption DEF BegunAt
  <2>3. /\ todo["command"] = <<>> /\ dviPhase = "run" /\ dviPhase' = "run"
        /\ dviEarly' = (dviEarly \/ todo["task"] # <<>>) /\ UNCHANGED <<channelVars, dviFaults>>
    BY <1>3 DEF DviCommand, GoesOn, NoDviFault
  <2> QED
    BY <1>1, <1>2, <2>1, <2>2, <2>3, GivenKeepsChannels
<1>4. ASSUME NEW S \in SUBSET Dvi, DviCommand(Chosen(StopChannel, S))
      PROVE  ChannelsKept'
  <2>1. todo' = [todo EXCEPT !["command"] = CallsLeft(BegunAt(S, "off"))]
    BY <1>4, CallsBegun DEF DviCommand, BegunAt
  <2>2. \A ch \in Dvi : BegunAt(S, "off")[ch] = "none" \/ BegunAt(S, "off")[ch] = "off"
    BY DviAssumption DEF BegunAt
  <2>3. /\ todo["command"] = <<>> /\ dviPhase = "run" /\ dviPhase' = "run"
        /\ dviEarly' = (dviEarly \/ todo["task"] # <<>>) /\ UNCHANGED <<channelVars, dviFaults>>
    BY <1>4 DEF DviCommand, GoesOn, NoDviFault
  <2> QED
    BY <1>1, <1>2, <2>1, <2>2, <2>3, GivenKeepsChannels
<1>5. ASSUME StopAllDvi
      PROVE  ChannelsKept'
  <2>1. todo' = [todo EXCEPT !["command"] = CallsLeft(BegunAt(Dvi, "off"))]
    BY <1>5, CallsBegun DEF StopAllDvi, BegunAt
  <2>2. \A ch \in Dvi : BegunAt(Dvi, "off")[ch] = "off"
    BY DviAssumption DEF BegunAt
  <2>3. /\ todo["command"] = <<>> /\ dviPhase = "run" /\ dviPhase' = "stop"
        /\ dviEarly' = (dviEarly \/ todo["task"] # <<>>) /\ UNCHANGED <<channelVars, dviFaults>>
    BY <1>5 DEF StopAllDvi, NoDviFault
  <2> QED
    BY <1>1, <1>2, <2>1, <2>2, <2>3, GivenKeepsChannels
<1> QED
  BY <1>3, <1>4, <1>5

\* The process ends when every channel has been stopped.
LEMMA ExitKeepsChannels ==
    ASSUME ChannelsKept, DviExit
    PROVE  ChannelsKept'
<1>1. /\ dviPhase = "stop" /\ dviPhase' = "exit" /\ \A t \in DviThread : todo[t] = <<>>
      /\ UNCHANGED <<channelVars, todo, dviEarly, dviFaults>>
  BY DEF DviExit, NoDviFault, DviThread
<1>2. ASSUME Undisturbed'
      PROVE  DviRestarts'
  <2>1. Undisturbed /\ Underway
    BY <1>1, <1>2 DEF Undisturbed, Underway
  <2>2. \A ch \in Dvi : At(ch, "none")
    BY <1>1, <2>1, NothingDone
  <2>3. \A ch \in Dvi : NoThread(ch)
    BY <1>1, <2>2 DEF At
  <2>4. ffmpeg = {}
    BY <2>1, <2>3 DEF ChannelsKept, PipeUsed, NoThread
  <2>5. ffmpeg' = {} /\ \A ch \in Dvi : producer'[ch] = "none" /\ consumer'[ch] = "none"
                                        /\ window'[ch] = "none"
    BY <1>1, <2>3, <2>4 DEF channelVars, NoThread
  <2> QED
    BY <1>1, <2>5 DEF DviRestarts
<1>3. ~Underway'
  BY <1>1 DEF Underway
<1> QED
  BY <1>1, <1>2, <1>3, NothingClaimed DEF ChannelsKept, channelVars

\* Every step of the DVI half.
LEMMA DviKeepsChannels ==
    ASSUME ChannelsKept, DviNext
    PROVE  ChannelsKept'
<1>1. Underway
  BY DEF DviNext, Underway
<1>2. ASSUME NEW ch \in Dvi, producer_worker(ch) \/ consumer_worker(ch),
             UNCHANGED <<todo, dviEarly, dviCommands>>
      PROVE  ChannelsKept'
  BY <1>1, <1>2, ProducerKeepsChannels, ConsumerKeepsChannels
<1>3. ASSUME NEW ch \in Dvi, display_worker(ch), UNCHANGED <<todo, dviEarly>>
      PROVE  ChannelsKept'
  BY <1>1, <1>3, DisplayKeepsChannels
<1>4. ASSUME NEW t \in {"task", "command"}, NEW ch \in Dvi,
             StartDvi(t, ch) \/ Spawn(t, ch) \/ StopDvi(t, ch) \/ JoinDvi(t, ch),
             NoDviFault, UNCHANGED <<dviEarly, dviCommands>>
      PROVE  ChannelsKept'
  <2>1. t \in DviThread /\ UNCHANGED <<dviFaults, dviEarly>>
    BY <1>4 DEF DviThread, NoDviFault
  <2> QED
    BY <1>1, <1>4, <2>1, StartKeepsChannels, SpawnKeepsChannels, StopKeepsChannels,
       JoinKeepsChannels
<1>5. ASSUME NEW S \in SUBSET Dvi \ {{}},
             \/ startFlickerDetectionDvi(S)
             \/ DviCommand(Chosen(StartChannel, S)) \/ DviCommand(Chosen(StopChannel, S))
      PROVE  ChannelsKept'
  <2>1. S \in SUBSET Dvi
    BY <1>5
  <2> QED
    BY <1>1, <1>5, <2>1, BeginKeepsChannels, CommandsKeepChannels
<1>6. StopAllDvi \/ DviExit => ChannelsKept'
  BY <1>1, CommandsKeepChannels, ExitKeepsChannels
<1> QED
  BY <1>2, <1>3, <1>4, <1>5, <1>6 DEF DviNext

\* DviRestarts, for any number of frames, failures and commands: a channel that was
\* stopped can be started again, and the program is terminated only over one that had
\* ended by itself; when it ends, every thread was joined and every pipe closed.
THEOREM ChannelsRestart == Spec => []DviRestarts
<1>1. Init => ChannelsKept
  <2> SUFFICES ASSUME Init
               PROVE  ChannelsKept
    OBVIOUS
  <2>1. /\ dviFaults = 0 /\ dviEarly = FALSE /\ dviPhase = "run" /\ ffmpeg = {}
        /\ producer = [ch \in Dvi |-> "none"] /\ consumer = [ch \in Dvi |-> "none"]
        /\ window = [ch \in Dvi |-> "none"]
    BY DEF Init, DviInit, Of
  <2>2. /\ DOMAIN todo = DviThread /\ todo["command"] = <<>>
        /\ todo["task"] = <<>> \/ todo["task"] = <<Step("begin", 0)>>
    BY DEF Init, DviThread
  <2>3. \A ch \in Dvi : At(ch, "none")
    BY <2>1 DEF At, NoThread, Starting
  <2>4. \A ch \in Dvi : NoStage[ch] = "none"
    BY DviAssumption DEF NoStage
  <2>5. InStage("task", NoStage) /\ NoStage \in [{1, 2} -> Stages] /\ "task" \in DviThread
    BY <2>1, <2>2, <2>3, <2>4, NoCallLeft DEF InStage, DviThread
  <2>6. PipeUsed /\ DviRestarts
    BY <2>1 DEF PipeUsed, DviRestarts
  <2> QED
    BY <2>1, <2>2, <2>5, <2>6 DEF ChannelsKept
<1>2. ChannelsKept /\ [Next]_vars => ChannelsKept'
  <2> SUFFICES ASSUME ChannelsKept, [Next]_vars
               PROVE  ChannelsKept'
    OBVIOUS
  <2>1. ASSUME UNCHANGED dviVars
        PROVE  ChannelsKept'
    <3>1. UNCHANGED <<is_running, producer, consumer, window, ffmpeg, selfEnded, todo, dviPhase,
                      dviEarly, dviFaults>>
      BY <2>1 DEF dviVars, channelVars
    <3>2. CASE Underway
      <4>1. ThreadsRemain
        BY <3>1 DEF ThreadsRemain, Alive
      <4>2. PipeUsed => PipeUsed'
        BY <3>1 DEF PipeUsed
      <4> QED
        BY <3>1, <3>2, <4>1, <4>2, ChannelsRemain DEF ChannelsKept
    <3>3. CASE ~Underway
      <4>1. DviRestarts => DviRestarts'
        BY <3>1 DEF DviRestarts
      <4> QED
        BY <3>1, <3>3, <4>1 DEF ChannelsKept, Undisturbed, Underway
    <3> QED
      BY <3>2, <3>3
  <2> QED
    BY <2>1, DviKeepsChannels DEF Next, vars
<1>3. ChannelsKept => DviRestarts
  BY DEF ChannelsKept, Undisturbed, DviRestarts
<1> QED
  BY <1>1, <1>2, <1>3, PTL DEF Spec
================================================================================

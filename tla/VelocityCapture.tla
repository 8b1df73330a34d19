--------------------------- MODULE VelocityCapture ---------------------------
(***************************************************************************)
(* The Velocity half of FlickerDetection (DriverManager.cpp): two cards    *)
(* with two inputs.  For every frame a card calls back; the callback       *)
(* copies the frame from the DMA buffer and queues it, a worker of the     *)
(* input converts and judges it and queues it for the display thread, and  *)
(* the display thread shows it and writes it to the video file.            *)
(*                                                                         *)
(* What the program itself does (start-up, the operator's commands, the    *)
(* stop) is a script of steps; a step that fails gives up the rest of its  *)
(* script, as an exception does.  The return code is one global variable   *)
(* for all threads, so that a call may also seem to fail.                  *)
(*                                                                         *)
(* A frame is its number.  What is only counted, drawn or printed is left  *)
(* out.                                                                    *)
(***************************************************************************)
EXTENDS Integers, Sequences, Functions

CONSTANTS MaxFrames,    \* bound: the frames that all the inputs deliver
          MaxFaults,    \* bound: the calls of the driver that fail, or seem to
          MaxCommands   \* bound: the commands of the operator

Card == {1, 2}
Input == Card \X {1, 2}
InputsOf(c) == {c} \X {1, 2}
\* The empty image that ends a display thread.
End == -1

VARIABLES
    opened,     \* cards whose driver handle is not 0
    enabled,    \* card1Running, card2Running
    receiving,  \* cards whose flow control is on
    passing,    \* cards whose flow-through is on
    held,       \* inputs with a DMA buffer, gpMem1_1 to gpMem2_2
    folder,     \* inputs whose folders are known
    writer,     \* inputs whose video file is open
    isRunning,
    callback,   \* per input, "idle" or "copy": the buffer is being read
    shot,       \* per input, the number of the frame in its DMA buffer
    queue,      \* per input, the frames for its worker
    worker,     \* per input, where its worker is; "none": no thread
    inHand,     \* per input, the frame its worker handles
    live,       \* isRunning_card1_channel1 and its like
    image,      \* per input, the frame in bgrImage_card1_channel1 and its like
    screen,     \* per input, the frames for its display thread
    display,    \* per input, where its display thread is
    showing,    \* per input, the frame its display thread has taken
    recorded,   \* per input, the last frame that went into a video file
    script,     \* per thread of the program, the calls it has to make
    phase,      \* "run", "stop", "leave", then "exit", "abort" or "crash"
    early,      \* a command or the stop came before the start-up was over
    commands,
    faults

inputVars == <<callback, shot, queue, worker, inHand, live, image, screen, display,
               showing, recorded>>
cardVars == <<opened, enabled, receiving, passing, held, folder, writer, isRunning>>
programVars == <<script, phase, early, commands>>
captureVars == <<inputVars, cardVars, programVars, faults>>

All(value) == [i \in Input |-> value]

CaptureInit ==
    /\ opened = {} /\ enabled = {} /\ receiving = {} /\ passing = {}
    /\ held = {} /\ folder = {} /\ writer = {} /\ isRunning = TRUE
    /\ callback = All("idle") /\ shot = All(0) /\ queue = All(<<>>)
    /\ worker = All("none") /\ inHand = All(0) /\ live = All(FALSE)
    /\ image = All(0) /\ screen = All(<<>>) /\ display = All("none")
    /\ showing = All(0) /\ recorded = All(0)
    /\ early = FALSE

Fault == faults < MaxFaults /\ faults' = faults + 1
NoFault == faults' = faults

-----------------------------------------------------------------------------
(* The callbacks, in a thread of the driver.                               *)

Interrupt(c, i) ==
    /\ isRunning /\ i \in InputsOf(c) /\ c \in opened \cap receiving
    /\ i \in held /\ callback[i] = "idle"
    /\ FoldFunction(+, 0, shot) < MaxFrames

\* A thread that waits for its condition has released the mutex.
Queue(i) ==
    /\ worker[i] # "wait"
    /\ queue' = [queue EXCEPT ![i] = Append(@, shot[i])]
    /\ worker' = [worker EXCEPT ![i] = IF @ = "asleep" THEN "wake" ELSE @]

\* The buffer is copied, and queued under the mutex of the queue.
UserCallBack_Card1(i) ==
    \/ /\ Interrupt(1, i)
       /\ callback' = [callback EXCEPT ![i] = "copy"]
       /\ shot' = [shot EXCEPT ![i] = @ + 1]
       /\ NoFault /\ UNCHANGED <<queue, worker>>
    \/ /\ i[1] = 1 /\ callback[i] = "copy"
       /\ \/ Queue(i) /\ NoFault
          \/ Fault /\ UNCHANGED <<queue, worker>>
       /\ callback' = [callback EXCEPT ![i] = "idle"]
       /\ UNCHANGED shot

\* The callback of card 2 holds the mutex throughout, and does not look at the result:
\* a frame that could not be fetched is the one before once more.
UserCallBack_Card2(i) ==
    \/ /\ Interrupt(2, i) /\ worker[i] # "wait"
       /\ callback' = [callback EXCEPT ![i] = "copy"]
       /\ \/ shot' = [shot EXCEPT ![i] = @ + 1] /\ NoFault
          \/ Fault /\ UNCHANGED shot
       /\ UNCHANGED <<queue, worker>>
    \/ /\ i[1] = 2 /\ callback[i] = "copy" /\ Queue(i)
       /\ callback' = [callback EXCEPT ![i] = "idle"]
       /\ NoFault /\ UNCHANGED shot

-----------------------------------------------------------------------------
(* The workers.                                                            *)

MutexFree(i) == ~(i[1] = 2 /\ callback[i] = "copy")

\* Where the loop goes on: it looks at the flag and at the buffer.
Loop(running, i) == IF running /\ i \in held THEN "wake" ELSE "done"

\* The thread that start made declares itself running.
BeginWorker(i) ==
    /\ worker[i] = "new"
    /\ live' = [live EXCEPT ![i] = TRUE]
    /\ worker' = [worker EXCEPT ![i] = Loop(TRUE, i)]
    /\ UNCHANGED <<queue, inHand>>

\* Mutant: the newest frame is taken.
NewestFrame(q) == [frame |-> q[Len(q)], rest |-> SubSeq(q, 1, Len(q) - 1)]

OldestFrame(q) == [frame |-> Head(q), rest |-> Tail(q)]

\* Under the mutex, the predicate of the condition variable; "wait": it was false,
\* and the thread is about to sleep.
TakeFrame(i) ==
    /\ worker[i] = "wake" /\ MutexFree(i)
    /\ IF queue[i] # <<>>
       THEN /\ inHand' = [inHand EXCEPT ![i] = OldestFrame(queue[i]).frame]
            /\ queue' = [queue EXCEPT ![i] = OldestFrame(@).rest]
            /\ worker' = [worker EXCEPT ![i] = "convert"]
       ELSE /\ worker' = [worker EXCEPT ![i] = IF live[i] THEN "wait" ELSE "done"]
            /\ UNCHANGED <<inHand, queue>>
    /\ UNCHANGED live

FallAsleep(i) ==
    /\ worker[i] = "wait"
    /\ worker' = [worker EXCEPT ![i] = "asleep"]
    /\ UNCHANGED <<queue, inHand, live>>

Work(i) ==
    /\ BeginWorker(i) \/ TakeFrame(i) \/ FallAsleep(i)
    /\ UNCHANGED <<callback, shot, image, screen, display, showing, recorded, faults>>

\* The frame is converted into the one image of the input, drawn on and judged;
\* the display thread gets a second header for the same pixels.  An exception on the
\* way ends the handling, and the frame is not shown.
Handle(i) ==
    /\ \/ /\ worker[i] = "convert"
          /\ image' = [image EXCEPT ![i] = inHand[i]]
          /\ worker' = [worker EXCEPT ![i] = "judge"]
          /\ NoFault /\ UNCHANGED screen
       \/ /\ worker[i] = "judge"
          /\ worker' = [worker EXCEPT ![i] = Loop(live[i], i)]
          /\ \/ screen' = [screen EXCEPT ![i] = Append(@, inHand[i])] /\ NoFault
             \/ Fault /\ UNCHANGED screen
          /\ UNCHANGED image
    /\ UNCHANGED <<callback, shot, queue, inHand, live, display, showing, recorded>>

\* One function for every input, copied by hand.
HandleCard1Channel1 == Handle(<<1, 1>>)
HandleCard1Channel2 == Handle(<<1, 2>>)
HandleCard2Channel1 == Handle(<<2, 1>>)
HandleCard2Channel2 == Handle(<<2, 2>>)

-----------------------------------------------------------------------------
(* The display threads.                                                    *)

\* A display thread that runs before its worker has begun ends at once.
ShowOn(i) == IF live[i] THEN "pop" ELSE "done"

\* The window cannot be made, or the thread enters its loop.
OpenWindow(i) ==
    /\ display[i] = "new"
    /\ \/ Fault /\ display' = [display EXCEPT ![i] = "done"]
       \/ NoFault /\ display' = [display EXCEPT ![i] = ShowOn(i)]
    /\ UNCHANGED <<screen, showing, recorded>>

TakeImage(i) ==
    /\ display[i] = "pop" /\ screen[i] # <<>>
    /\ screen' = [screen EXCEPT ![i] = Tail(@)]
    /\ showing' = [showing EXCEPT ![i] = Head(screen[i])]
    /\ display' = [display EXCEPT ![i] = IF Head(screen[i]) = End THEN ShowOn(i) ELSE "show"]
    /\ NoFault /\ UNCHANGED recorded

\* What is shown and written is what the pixels are by now.
ShowImage(i) ==
    /\ display[i] = "show"
    /\ recorded' = [recorded EXCEPT ![i] = IF i \in writer THEN image[i] ELSE @]
    /\ display' = [display EXCEPT ![i] = ShowOn(i)]
    /\ NoFault /\ UNCHANGED <<screen, showing>>

Show(i) ==
    /\ OpenWindow(i) \/ TakeImage(i) \/ ShowImage(i)
    /\ UNCHANGED <<callback, shot, queue, worker, inHand, live, image>>

-----------------------------------------------------------------------------
(* The calls that the program makes.                                       *)

Call(do, at) == [do |-> do, at |-> at]

\* The next call of a thread, with what it is about.
Calls(t, do, at) == script[t] # <<>> /\ Head(Head(script[t])) = Call(do, at)

\* The thread goes on, with these calls first.
Expand(t, calls) ==
    LET rest == calls \o Tail(Head(script[t]))
    IN  script' = [script EXCEPT ![t] = (IF rest = <<>> THEN <<>> ELSE <<rest>>) \o Tail(@)]
Advance(t) == Expand(t, <<>>)

\* An exception: the rest of this script is given up.
GiveUp(t) == script' = [script EXCEPT ![t] = Tail(@)]

Both(Step(_), c) == Step(<<c, 1>>) \o Step(<<c, 2>>)

\* Mutant: without the second in which callbacks end.
OffAtOnce(c) == <<Call("off", c)>>

Off(c) == <<Call("off", c), Call("settle", c)>>
On(c) == <<Call("on", c)>>
Alloc(i) == <<Call("alloc", i)>>
Start(i) == <<Call("start", i)>>
Stop(i) == <<Call("signal", i), Call("join", i), Call("joinDisplay", i)>>
Free(i) == <<Call("free", i)>>
Folder(i) == <<Call("folder", i)>>
\* The calls about one channel of a card, or about both.
Each(Step(_), c, S) ==
    (IF <<c, 1>> \in S THEN Step(<<c, 1>>) ELSE <<>>) \o (IF <<c, 2>> \in S THEN Step(<<c, 2>>) ELSE <<>>)

initializeCard(c, S) ==
    <<Call("open", c)>> \o Off(c) \o <<Call("prepare", c)>> \o Each(Alloc, c, S)
        \o <<Call("prepare", c)>> \o Each(Start, c, S)

startVideoCapture == <<Call("writers", 0)>> \o On(1) \o On(2)

stopCard(c, S) ==
    Each(Stop, c, S) \o Off(c) \o <<Call("release", c)>> \o Each(Free, c, S) \o On(c)

restartCard(c, S) ==
    Off(c) \o Each(Alloc, c, S) \o <<Call("writers", 0)>> \o Each(Folder, c, S)
        \o Each(Start, c, S) \o On(c)

stopVideoCapture ==
    Off(1) \o Off(2) \o <<Call("threads", 1), Call("threads", 2)>>
        \o <<Call("release", 1), Call("release", 2)>>

stopFlickerDetection ==
    <<Call("halt", 0)>> \o stopVideoCapture \o <<Call("close", 1), Call("close", 2)>>

startTestLoopback ==
    <<Call("writers", 0), Call("pattern", 1), Call("pattern", 2), Call("minute", 0)>>

\* The thread of main, for the inputs that the command line names.
startFlickerDetection(S, loopback) ==
    LET cards == [c \in Card |-> S \cap InputsOf(c)]
        init(c) == IF cards[c] = {} THEN <<>> ELSE <<initializeCard(c, S)>>
    IN  <<<<Call("begin", S)>>>> \o init(1) \o init(2)
            \o (IF loopback THEN <<startTestLoopback, stopFlickerDetection>>
                            ELSE <<startVideoCapture>>)

\* Folders and CUDA; a failure here stops everything.
Begin(t) ==
    /\ \E S \in SUBSET Input :
        /\ Calls(t, "begin", S)
        /\ \/ folder' = S /\ Advance(t) /\ NoFault
           \/ /\ Fault /\ UNCHANGED folder
              /\ script' = [script EXCEPT ![t] = <<stopFlickerDetection>>]
    /\ UNCHANGED <<inputVars, opened, enabled, receiving, passing, held, writer, isRunning>>

OpenDriver(t, c) ==
    /\ Calls(t, "open", c)
    /\ opened' = opened \cup {c} /\ Advance(t)
    /\ UNCHANGED <<inputVars, enabled, receiving, passing, held, folder, writer, isRunning>>

\* The flow-through that is switched off is always the one of the first card.
configureDriver(t, c) ==
    /\ \/ Calls(t, "off", c) /\ c \in opened
          /\ passing' = passing \ {1}
          /\ receiving' = receiving \ {c} /\ enabled' = enabled \ {c}
       \/ Calls(t, "on", c) /\ c \in opened
          /\ passing' = passing \cup {c}
          /\ receiving' = receiving \cup {c} /\ enabled' = enabled \cup {c}
       \/ (Calls(t, "off", c) \/ Calls(t, "on", c)) /\ c \notin opened
          /\ UNCHANGED <<passing, receiving, enabled>>
    /\ Advance(t)
    /\ UNCHANGED <<inputVars, opened, held, folder, writer, isRunning>>

\* The second that configureDriver sleeps, in which a callback that runs ends; and what
\* is only asked of the card: version, resolution, routing, self test, PCI.
Settle(t, c) ==
    /\ \/ Calls(t, "settle", c) /\ \A i \in InputsOf(c) : callback[i] = "idle"
       \/ Calls(t, "prepare", c)
    /\ Advance(t) /\ UNCHANGED <<inputVars, cardVars>>

allocateMemoryBuffers(t, i) ==
    /\ Calls(t, "alloc", i)
    /\ IF i[1] \in opened THEN held' = held \cup {i} /\ Advance(t)
                          ELSE UNCHANGED held /\ GiveUp(t)
    /\ UNCHANGED <<inputVars, opened, enabled, receiving, passing, folder, writer, isRunning>>

deAllocateMemoryBuffers(t, i) ==
    /\ Calls(t, "free", i)
    /\ IF i \in held THEN held' = held \ {i} /\ Advance(t) ELSE UNCHANGED held /\ GiveUp(t)
    /\ UNCHANGED <<inputVars, opened, enabled, receiving, passing, folder, writer, isRunning>>

\* A file for every buffer of a card that is not running, up to the first that has no
\* folder, or that cannot be opened.
Before(i, j) == i[1] < j[1] \/ (i[1] = j[1] /\ i[2] < j[2])
initializeVideoWriters(t) ==
    LET due == {i \in held : i[1] \in opened \ enabled}
        named == {i \in due : \A j \in due : j = i \/ Before(j, i) => j \in folder}
    IN  /\ Calls(t, "writers", 0)
        /\ \/ /\ writer' = writer \cup named /\ NoFault
              /\ IF named = due THEN Advance(t) ELSE GiveUp(t)
           \/ /\ Fault /\ GiveUp(t)
              /\ \E i \in named : writer' = writer \cup {j \in named : Before(j, i)}
        /\ UNCHANGED <<inputVars, opened, enabled, receiving, passing, held, folder, isRunning>>

createDirectory(t, i) ==
    /\ Calls(t, "folder", i)
    /\ folder' = folder \cup {i} /\ Advance(t)
    /\ UNCHANGED <<inputVars, opened, enabled, receiving, passing, held, writer, isRunning>>

\* A file that is closed while the display thread writes to it: anything may happen.
videoWritersRelease(t, c) ==
    /\ Calls(t, "release", c)
    /\ writer' = writer \ InputsOf(c) /\ Advance(t)
    /\ \/ UNCHANGED phase
       \/ /\ \E i \in InputsOf(c) \cap writer : display[i] = "show"
          /\ phase' = "crash"
    /\ UNCHANGED <<inputVars, opened, enabled, receiving, passing, held, folder, isRunning>>

StartThread(t, i) ==
    /\ Calls(t, "start", i) /\ Advance(t)
    /\ IF worker[i] = "none"
       THEN /\ worker' = [worker EXCEPT ![i] = "new"]
            /\ display' = [display EXCEPT ![i] = "new"]
       ELSE UNCHANGED <<worker, display>>
    /\ UNCHANGED <<callback, shot, queue, inHand, live, image, screen, showing, recorded, cardVars>>

\* The flag is cleared and the condition notified, without the mutex.
SignalThread(t, i) ==
    /\ Calls(t, "signal", i) /\ Advance(t)
    /\ live' = [live EXCEPT ![i] = FALSE]
    /\ worker' = [worker EXCEPT ![i] = IF @ = "asleep" THEN "wake" ELSE @]
    /\ UNCHANGED <<callback, shot, queue, inHand, image, screen, display, showing, recorded,
                   cardVars>>

JoinThread(t, i) ==
    /\ Calls(t, "join", i) /\ Advance(t) /\ worker[i] \in {"none", "done"}
    /\ worker' = [worker EXCEPT ![i] = "none"]
    /\ live' = [live EXCEPT ![i] = FALSE]
    /\ screen' = [screen EXCEPT ![i] = Append(@, End)]
    /\ UNCHANGED <<callback, shot, queue, inHand, image, display, showing, recorded, cardVars>>

stopDisplayThread(t, i) ==
    /\ Calls(t, "joinDisplay", i) /\ Advance(t) /\ display[i] \in {"none", "done"}
    /\ display' = [display EXCEPT ![i] = "none"]
    /\ UNCHANGED <<callback, shot, queue, worker, inHand, live, image, screen, showing, recorded,
                   cardVars>>

StopThreads(t, c) ==
    /\ Calls(t, "threads", c)
    /\ Expand(t, IF c \in opened THEN Both(Stop, c) ELSE <<>>)
    /\ UNCHANGED <<inputVars, cardVars>>

Halt(t) ==
    /\ Calls(t, "halt", 0) /\ Advance(t)
    /\ isRunning' = FALSE
    /\ UNCHANGED <<inputVars, opened, enabled, receiving, passing, held, folder, writer>>

closeCard(t, c) ==
    /\ Calls(t, "close", c) /\ Advance(t)
    /\ opened' = opened \ {c} /\ held' = held \ InputsOf(c)
    /\ UNCHANGED <<inputVars, enabled, receiving, passing, folder, writer, isRunning>>

\* The cards show a test pattern to themselves; threads start for both channels, with a
\* buffer or without.
TestPattern(t, c) ==
    /\ Calls(t, "pattern", c)
    /\ \/ /\ c \in opened
          /\ receiving' = receiving \cup {c} /\ passing' = passing \cup {c}
          /\ \/ Expand(t, Both(Start, c)) /\ NoFault
             \/ /\ Fault
                /\ script' = [script EXCEPT ![t] = <<Both(Start, c)>> \o Tail(@)]
       \/ c \notin opened /\ Advance(t) /\ NoFault /\ UNCHANGED <<receiving, passing>>
    /\ UNCHANGED <<inputVars, opened, enabled, held, folder, writer, isRunning>>

TestMinute(t) ==
    /\ Calls(t, "minute", 0) /\ Advance(t)
    /\ isRunning' = FALSE /\ live' = All(FALSE)
    /\ UNCHANGED <<opened, enabled, receiving, passing, held, folder, writer, callback, shot,
                   queue, worker, inHand, image, screen, display, showing, recorded>>

\* A call that fails, or that finds another thread's return code.  The flow-through of
\* the first card is off before the flow control of a card fails.
Throw(t) ==
    /\ script[t] # <<>> /\ Fault /\ GiveUp(t)
    /\ LET call == Head(Head(script[t]))
       IN  /\ call.do \in {"open", "off", "on", "prepare", "alloc", "free", "folder"}
           /\ call.do \in {"off", "on"} => call.at \in opened
           /\ passing' = IF call.do = "off" THEN passing \ {1} ELSE passing
    /\ UNCHANGED <<inputVars, opened, enabled, receiving, held, folder, writer, isRunning>>

Make(t) ==
    \/ /\ \/ Halt(t) \/ TestMinute(t)
          \/ \E c \in Card : OpenDriver(t, c) \/ configureDriver(t, c) \/ Settle(t, c)
                             \/ StopThreads(t, c) \/ closeCard(t, c)
          \/ \E i \in Input : allocateMemoryBuffers(t, i) \/ deAllocateMemoryBuffers(t, i)
                              \/ createDirectory(t, i) \/ StartThread(t, i)
                              \/ SignalThread(t, i) \/ JoinThread(t, i) \/ stopDisplayThread(t, i)
       /\ NoFault /\ UNCHANGED <<phase, early, commands>>
    \/ /\ Begin(t) \/ initializeVideoWriters(t) \/ Throw(t) \/ \E c \in Card : TestPattern(t, c)
       /\ UNCHANGED <<phase, early, commands>>
    \/ \E c \in Card : videoWritersRelease(t, c) /\ NoFault /\ UNCHANGED <<early, commands>>

\* The command thread, and the thread that waits for a signal: one of them stops all.
Command(calls) ==
    /\ phase = "run" /\ script["stop"] = <<>> /\ commands < MaxCommands
    /\ script' = [script EXCEPT !["stop"] = <<calls>>]
    /\ commands' = commands + 1 /\ early' = (early \/ script["main"] # <<>>)
    /\ NoFault /\ UNCHANGED <<inputVars, cardVars, phase>>

processCommands ==
    \/ \E c \in Card : \E S \in {{<<c, 1>>}, {<<c, 2>>}, InputsOf(c)} :
           Command(stopCard(c, S)) \/ Command(restartCard(c, S))
    \/ Command(<<Call("release", 1), Call("release", 2)>> \o Off(1) \o Off(2))
    \/ Command(On(1) \o On(2))

\* A loopback test ends by itself, and gets no signal here.
stopAllSystemsOnce ==
    /\ phase = "run" \/ (phase = "loop" /\ script["main"] = <<>>)
    /\ script["stop"] = <<>>
    /\ phase' = "stop" /\ early' = (early \/ script["main"] # <<>>)
    /\ script' = [script EXCEPT !["stop"] = <<stopFlickerDetection>>]
    /\ NoFault /\ UNCHANGED <<inputVars, cardVars, commands>>

\* A thread that was not joined ends the process with an abort.
Ended == IF \A i \in Input : worker[i] = "none" /\ display[i] = "none" THEN "exit" ELSE "abort"

\* Mutant: the destructor stops nothing.
LeaveAtOnce ==
    /\ phase = "stop" /\ ~isRunning /\ \A t \in {"main", "stop"} : script[t] = <<>>
    /\ phase' = Ended /\ NoFault /\ UNCHANGED <<inputVars, cardVars, script, early, commands>>

\* All the threads of main are joined; the destructor of the driver manager stops once
\* more what is still open.
Leave ==
    /\ phase \in {"stop", "leave"} /\ \A t \in {"main", "stop"} : script[t] = <<>>
    /\ phase = "stop" => ~isRunning
    /\ IF phase = "stop" /\ opened # {}
       THEN phase' = "leave" /\ script' = [script EXCEPT !["stop"] = <<stopFlickerDetection>>]
       ELSE phase' = Ended /\ UNCHANGED script
    /\ NoFault /\ UNCHANGED <<inputVars, cardVars, early, commands>>

CaptureNext ==
    /\ phase \notin {"exit", "abort", "crash"}
    /\ \/ \E i \in Input :
           \/ /\ UserCallBack_Card1(i) \/ UserCallBack_Card2(i)
              /\ UNCHANGED <<inHand, live, image, screen, display, showing, recorded, cardVars,
                             programVars>>
           \/ (Work(i) \/ Show(i)) /\ UNCHANGED <<cardVars, programVars>>
       \/ /\ HandleCard1Channel1 \/ HandleCard1Channel2 \/ HandleCard2Channel1
             \/ HandleCard2Channel2
          /\ UNCHANGED <<cardVars, programVars>>
       \/ \E t \in {"main", "stop"} : Make(t)
       \/ processCommands \/ stopAllSystemsOnce \/ Leave

-----------------------------------------------------------------------------
(* Properties.                                                             *)

\* The DMA buffer that a callback copies from is not freed under it: the flow is off,
\* and a second has passed, before stopCard or closeCard frees it (a command that comes
\* while the start-up turns the flow on does free it).
NoFreedBuffer == ~early => \A i \in Input : callback[i] = "copy" => i \in held

\* A process that was told to stop after its start-up leaves no card open, no video file
\* unfinished and no thread, even when one call of the stop failed: the destructor of
\* the driver manager makes a second attempt.
ExitIsQuiet ==
    phase \in {"exit", "abort"} /\ ~early =>
        /\ phase = "exit" /\ opened = {} /\ held = {} /\ writer = {}
        /\ \A i \in Input : callback[i] = "idle"

\* The frames of an input come into its video in the order in which they were
\* taken, across the stops and restarts of its threads.
VideoInOrder == [][\A i \in Input : recorded'[i] >= recorded[i]]_captureVars

\* The display thread shows the frame that the worker queued for it, a copy of its own.
FrameIsCloned == \A i \in Input : display[i] = "show" => image[i] = showing[i]
=============================================================================

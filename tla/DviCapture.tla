------------------------------ MODULE DviCapture ------------------------------
(***************************************************************************)
(* The DVI half of FlickerDetection (DviManager.cpp): per channel a thread *)
(* that takes frames from the capture device, one that judges them and     *)
(* writes them to ffmpeg, and one that shows them, with a queue between    *)
(* each two.  A queue is shut down by a flag that is set without its       *)
(* mutex, so that a thread that is about to sleep may miss it.             *)
(*                                                                         *)
(* An operator starts and stops channels, and may press a key in a window. *)
(* Only the number of a frame matters here.                                *)
(***************************************************************************)
EXTENDS Integers, Sequences, Functions

CONSTANTS Dvi,             \* the channels, of {1, 2}; they share nothing but the commands
          MaxDviFrames,    \* bound: the frames that the devices deliver
          MaxDviFaults,    \* bound: the calls that fail
          MaxDviCommands   \* bound: the operator's commands and keys

ASSUME DviAssumption == Dvi \subseteq {1, 2}

VARIABLES
    is_running,     \* the channels that are to run
    frame_queue,    \* per channel, the frames for its consumer
    display_queue,  \* per channel, the frames for its window
    shut,           \* per channel, which of its queues are shut down
    producer,       \* per channel, where its producer is; "none": no thread
    consumer,
    window,
    ffmpeg,         \* channels whose pipe to ffmpeg is open
    written,        \* per channel, the last frame that went into the pipe
    todo,           \* per thread of the program, the calls it has to make
    dviPhase,       \* "run", "stop", then "exit", "abort" or "crash"
    selfEnded,      \* channels that have ended by themselves since they were stopped
    dviEarly,       \* a command came before the start was over
    dviCommands,
    dviFaults

channelVars == <<is_running, frame_queue, display_queue, shut, producer, consumer, window,
                 ffmpeg, written, selfEnded>>
dviVars == <<channelVars, todo, dviPhase, dviEarly, dviCommands, dviFaults>>

Of(value) == [ch \in Dvi |-> value]

DviInit ==
    /\ is_running = {} /\ frame_queue = Of(<<>>) /\ display_queue = Of(<<>>)
    /\ shut = Of({}) /\ producer = Of("none") /\ consumer = Of("none") /\ window = Of("none")
    /\ ffmpeg = {} /\ written = Of(0) /\ selfEnded = {}
    /\ dviPhase = "run" /\ dviEarly = FALSE /\ dviCommands = 0 /\ dviFaults = 0

DviFault == dviFaults < MaxDviFaults /\ dviFaults' = dviFaults + 1
NoDviFault == dviFaults' = dviFaults
GoesOn == UNCHANGED dviPhase

-----------------------------------------------------------------------------
(* The queue, ThreadSafeQueue.                                             *)

\* A reader that has found nothing, and holds the mutex until it sleeps: "wait".
Woken(where) == IF where = "asleep" THEN "woken" ELSE where

\* wait_and_pop, by a reader that looks at the running flag between two calls.
Pop(ch, where, q, name, next) ==
    /\ where \in {"loop", "woken"}
    /\ where = "loop" => ch \in is_running
    /\ next = IF q # <<>> THEN "work" ELSE IF name \in shut[ch] THEN "loop" ELSE "wait"

-----------------------------------------------------------------------------
(* The threads of a channel.                                               *)

Ends(ch) == selfEnded' = selfEnded \cup {ch}

\* The device does not open, and the thread ends, or it streams.
initDevice(ch) ==
    /\ producer[ch] = "new"
    /\ \/ /\ DviFault /\ is_running' = is_running \ {ch} /\ Ends(ch)
          /\ producer' = [producer EXCEPT ![ch] = "done"]
       \/ /\ NoDviFault /\ producer' = [producer EXCEPT ![ch] = "poll"]
          /\ UNCHANGED <<is_running, selfEnded>>
    /\ UNCHANGED <<frame_queue, consumer>>

\* A frame comes.
TakeShot(ch) ==
    /\ producer[ch] = "poll" /\ ch \in is_running /\ consumer[ch] # "wait"
    /\ FoldFunction(+, 0, [c \in Dvi |-> written[c] + Len(frame_queue[c])]) < MaxDviFrames
    /\ frame_queue' = [frame_queue EXCEPT ![ch] = Append(@, written[ch] + Len(@) + 1)]
    /\ consumer' = [consumer EXCEPT ![ch] = Woken(@)]
    /\ NoDviFault /\ UNCHANGED <<is_running, producer, selfEnded>>

\* The channel was stopped, or the device fails: then the channel is left running.
cleanup(ch) ==
    /\ producer[ch] = "poll"
    /\ IF ch \in is_running THEN DviFault /\ Ends(ch) ELSE NoDviFault /\ UNCHANGED selfEnded
    /\ producer' = [producer EXCEPT ![ch] = "done"]
    /\ UNCHANGED <<is_running, frame_queue, consumer>>

producer_worker(ch) ==
    /\ initDevice(ch) \/ TakeShot(ch) \/ cleanup(ch)
    /\ GoesOn /\ UNCHANGED <<display_queue, shut, window, ffmpeg, written>>

\* Folders, pipe and statistics first; a pipe that could not be opened is used all
\* the same, by the next frame or by the end.
consumer_worker(ch) ==
    LET To(where) == consumer' = [consumer EXCEPT ![ch] = where]
    IN  /\ \/ /\ consumer[ch] = "new" /\ To("loop") /\ GoesOn
              /\ \/ ffmpeg' = ffmpeg \cup {ch} /\ NoDviFault
                 \/ DviFault /\ UNCHANGED ffmpeg
              /\ UNCHANGED <<frame_queue, display_queue, window, written>>
           \/ /\ \E next \in {"work", "loop", "wait"} :
                    Pop(ch, consumer[ch], frame_queue[ch], "frame", next) /\ To(next)
              /\ GoesOn /\ NoDviFault
              /\ UNCHANGED <<frame_queue, display_queue, window, ffmpeg, written>>
           \/ /\ consumer[ch] = "wait" /\ To("asleep") /\ GoesOn /\ NoDviFault
              /\ UNCHANGED <<frame_queue, display_queue, window, ffmpeg, written>>
           \/ /\ consumer[ch] = "work" /\ window[ch] # "wait"
              /\ To("loop") /\ NoDviFault
              /\ frame_queue' = [frame_queue EXCEPT ![ch] = Tail(@)]
              /\ written' = [written EXCEPT ![ch] = Head(frame_queue[ch])]
              /\ display_queue' = [display_queue EXCEPT ![ch] = Append(@, Head(frame_queue[ch]))]
              /\ window' = [window EXCEPT ![ch] = Woken(@)]
              /\ dviPhase' = IF ch \in ffmpeg THEN dviPhase ELSE "crash"
              /\ UNCHANGED ffmpeg
           \/ /\ consumer[ch] = "loop" /\ ch \notin is_running
              /\ To("done") /\ NoDviFault
              /\ ffmpeg' = ffmpeg \ {ch}
              /\ dviPhase' = IF ch \in ffmpeg THEN dviPhase ELSE "crash"
              /\ UNCHANGED <<frame_queue, display_queue, window, written>>
        /\ UNCHANGED <<is_running, shut, producer, selfEnded>>

\* A window that cannot be made is an exception that nobody catches.  A key ends the
\* channel.
display_worker(ch) ==
    LET To(where) == window' = [window EXCEPT ![ch] = where]
    IN  /\ \/ /\ window[ch] = "new"
              /\ \/ To("loop") /\ GoesOn /\ NoDviFault
                 \/ DviFault /\ dviPhase' = "abort" /\ UNCHANGED window
              /\ UNCHANGED <<is_running, display_queue, selfEnded, dviCommands>>
           \/ /\ \E next \in {"work", "loop", "wait"} :
                    Pop(ch, window[ch], display_queue[ch], "display", next) /\ To(next)
              /\ GoesOn /\ NoDviFault
              /\ UNCHANGED <<is_running, display_queue, selfEnded, dviCommands>>
           \/ /\ window[ch] = "wait" /\ To("asleep") /\ GoesOn /\ NoDviFault
              /\ UNCHANGED <<is_running, display_queue, selfEnded, dviCommands>>
           \/ /\ window[ch] = "work" /\ GoesOn /\ NoDviFault
              /\ display_queue' = [display_queue EXCEPT ![ch] = Tail(@)]
              /\ \/ To("loop") /\ UNCHANGED <<is_running, selfEnded, dviCommands>>
                 \/ /\ dviCommands < MaxDviCommands /\ dviCommands' = dviCommands + 1
                    /\ To("done") /\ is_running' = is_running \ {ch} /\ Ends(ch)
           \/ /\ window[ch] = "loop" /\ ch \notin is_running
              /\ To("done") /\ GoesOn /\ NoDviFault
              /\ UNCHANGED <<is_running, display_queue, selfEnded, dviCommands>>
        /\ UNCHANGED <<frame_queue, shut, producer, consumer, ffmpeg, written>>

-----------------------------------------------------------------------------
(* The calls of the program.                                               *)

Step(do, ch) == [do |-> do, ch |-> ch]
Must(t, do, ch) == todo[t] # <<>> /\ Head(todo[t]) = Step(do, ch)
GoesTo(t, calls) == todo' = [todo EXCEPT ![t] = calls \o Tail(@)]

Threads(ch) == <<Step("produce", ch), Step("consume", ch), Step("show", ch)>>

\* Mutant: the display thread is not joined.
StopTwo(ch) ==
    <<Step("off", ch), Step("shutFrames", ch), Step("shutDisplay", ch),
      Step("joinProducer", ch), Step("joinConsumer", ch)>>

StopChannel(ch) ==
    <<Step("off", ch), Step("shutFrames", ch), Step("shutDisplay", ch),
      Step("joinProducer", ch), Step("joinConsumer", ch), Step("joinDisplay", ch)>>

\* Channel 1, channel 2 or both.
Chosen(Calls2(_), S) ==
    (IF 1 \in S THEN Calls2(1) ELSE <<>>) \o (IF 2 \in S THEN Calls2(2) ELSE <<>>)
StartChannel(ch) == <<Step("start", ch)>>

\* A channel that is not running gets new queues and three threads.  Old threads lose
\* the queues they use, and the next step ends the program in any case.
StartDvi(t, ch) ==
    /\ Must(t, "start", ch)
    /\ IF ch \in is_running
       THEN /\ GoesTo(t, <<>>) /\ GoesOn
            /\ UNCHANGED <<is_running, frame_queue, display_queue, shut>>
       ELSE /\ GoesTo(t, Threads(ch))
            /\ dviPhase' = IF {producer[ch], consumer[ch], window[ch]} = {"none"}
                           THEN dviPhase ELSE "abort"
            /\ is_running' = is_running \cup {ch}
            /\ frame_queue' = [frame_queue EXCEPT ![ch] = <<>>]
            /\ display_queue' = [display_queue EXCEPT ![ch] = <<>>]
            /\ shut' = [shut EXCEPT ![ch] = {}]
    /\ UNCHANGED <<producer, consumer, window, ffmpeg, written, selfEnded>>

\* A thread object that was not joined must not be given a new thread: the program is
\* terminated.
Spawn(t, ch) ==
    /\ \/ /\ Must(t, "produce", ch)
          /\ producer' = [producer EXCEPT ![ch] = "new"] /\ UNCHANGED <<consumer, window>>
          /\ dviPhase' = IF producer[ch] = "none" THEN dviPhase ELSE "abort"
       \/ /\ Must(t, "consume", ch)
          /\ consumer' = [consumer EXCEPT ![ch] = "new"] /\ UNCHANGED <<producer, window>>
          /\ dviPhase' = IF consumer[ch] = "none" THEN dviPhase ELSE "abort"
       \/ /\ Must(t, "show", ch)
          /\ window' = [window EXCEPT ![ch] = "new"] /\ UNCHANGED <<producer, consumer>>
          /\ dviPhase' = IF window[ch] = "none" THEN dviPhase ELSE "abort"
    /\ GoesTo(t, <<>>)
    /\ UNCHANGED <<is_running, frame_queue, display_queue, shut, ffmpeg, written, selfEnded>>

StopDvi(t, ch) ==
    /\ \/ /\ Must(t, "off", ch)
          /\ is_running' = is_running \ {ch} /\ UNCHANGED <<shut, consumer, window>>
       \/ /\ Must(t, "shutFrames", ch)
          /\ shut' = [shut EXCEPT ![ch] = @ \cup {"frame"}]
          /\ consumer' = [consumer EXCEPT ![ch] = Woken(@)] /\ UNCHANGED <<is_running, window>>
       \/ /\ Must(t, "shutDisplay", ch)
          /\ shut' = [shut EXCEPT ![ch] = @ \cup {"display"}]
          /\ window' = [window EXCEPT ![ch] = Woken(@)] /\ UNCHANGED <<is_running, consumer>>
    /\ GoesTo(t, <<>>) /\ GoesOn
    /\ UNCHANGED <<frame_queue, display_queue, producer, ffmpeg, written, selfEnded>>

\* A join waits for the end of the thread.
JoinDvi(t, ch) ==
    LET Gone(pc) == pc[ch] \in {"none", "done"}
        Joined(pc) == [pc EXCEPT ![ch] = "none"]
    IN  /\ \/ /\ Must(t, "joinProducer", ch) /\ Gone(producer)
              /\ producer' = Joined(producer) /\ UNCHANGED <<consumer, window>>
           \/ /\ Must(t, "joinConsumer", ch) /\ Gone(consumer)
              /\ consumer' = Joined(consumer) /\ UNCHANGED <<producer, window>>
           \/ /\ Must(t, "joinDisplay", ch) /\ Gone(window)
              /\ window' = Joined(window) /\ UNCHANGED <<producer, consumer>>
        /\ selfEnded' = IF Must(t, "joinDisplay", ch) THEN selfEnded \ {ch} ELSE selfEnded
        /\ GoesTo(t, <<>>) /\ GoesOn
        /\ UNCHANGED <<is_running, frame_queue, display_queue, shut, ffmpeg, written>>

\* The task of main checks CUDA and makes the folders; what it throws leaves the thread
\* and ends the process, with the Velocity recording in it.
startFlickerDetectionDvi(S) ==
    /\ Must("task", "begin", 0)
    /\ \/ GoesTo("task", Chosen(StartChannel, S)) /\ GoesOn /\ NoDviFault
       \/ DviFault /\ dviPhase' = "abort" /\ UNCHANGED todo
    /\ UNCHANGED <<channelVars, dviEarly, dviCommands>>

DviCommand(calls) ==
    /\ dviPhase = "run" /\ todo["command"] = <<>> /\ dviCommands < MaxDviCommands
    /\ todo' = [todo EXCEPT !["command"] = calls]
    /\ dviCommands' = dviCommands + 1 /\ dviEarly' = (dviEarly \/ todo["task"] # <<>>)
    /\ GoesOn /\ NoDviFault /\ UNCHANGED channelVars

\* stopAllSystemsOnce, and the destructor after it, which finds nothing to stop.
StopAllDvi ==
    /\ dviPhase = "run" /\ todo["command"] = <<>>
    /\ todo' = [todo EXCEPT !["command"] = Chosen(StopChannel, Dvi)]
    /\ dviPhase' = "stop" /\ dviEarly' = (dviEarly \/ todo["task"] # <<>>)
    /\ NoDviFault /\ UNCHANGED <<channelVars, dviCommands>>

\* The task ends when no channel is running.
DviExit ==
    /\ dviPhase = "stop" /\ is_running = {}
    /\ \A t \in {"task", "command"} : todo[t] = <<>>
    /\ dviPhase' = "exit"
    /\ NoDviFault /\ UNCHANGED <<channelVars, todo, dviEarly, dviCommands>>

DviNext ==
    /\ dviPhase \in {"run", "stop"}
    /\ \/ \E ch \in Dvi : /\ producer_worker(ch) \/ consumer_worker(ch)
                          /\ UNCHANGED <<todo, dviEarly, dviCommands>>
       \/ \E ch \in Dvi : display_worker(ch) /\ UNCHANGED <<todo, dviEarly>>
       \/ \E t \in {"task", "command"}, ch \in Dvi :
             /\ StartDvi(t, ch) \/ Spawn(t, ch) \/ StopDvi(t, ch) \/ JoinDvi(t, ch)
             /\ NoDviFault /\ UNCHANGED <<dviEarly, dviCommands>>
       \/ \E S \in SUBSET Dvi \ {{}} :
             \/ startFlickerDetectionDvi(S)
             \/ DviCommand(Chosen(StartChannel, S)) \/ DviCommand(Chosen(StopChannel, S))
       \/ StopAllDvi \/ DviExit

-----------------------------------------------------------------------------
(* Properties.                                                             *)

\* A channel that was stopped can be started again, as the command "restart dvi" does:
\* the program is terminated only over a channel that had ended by itself, by a key
\* or because its device failed.  And it leaves no thread, and no video unfinished.
DviRestarts ==
    ~dviEarly /\ dviFaults = 0 =>
        /\ dviPhase = "abort" => selfEnded # {}
        /\ dviPhase = "exit" => ffmpeg = {} /\ \A ch \in Dvi :
               {producer[ch], consumer[ch], window[ch]} = {"none"}
=============================================================================

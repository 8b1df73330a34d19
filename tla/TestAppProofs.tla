---------------------------- MODULE TestAppProofs ----------------------------
(***************************************************************************)
(* Theorems about the test applications (TestApp), for any length of the   *)
(* warm-up and of the test, any number of losses and any width of the      *)
(* hand-over's numbers.                                                    *)
(***************************************************************************)
EXTENDS TestApp, SequenceTheorems, FiniteSetTheorems, TLAPS

StartSteps == {"eal", "ports", "prbs", "queues", "rawInit", "extInit", "rx", "tx", "rawRun",
               "health", "extRun", "ptp", "psu", "loop"}
StopSteps == {"dump", "ptpStop", "ptpJoin", "healthJoin", "psuStop", "rawJoin", "flush", "join",
              "mmms", "ptpFree", "healthFree", "rawFree", "prbsFree", "portsFree", "ealFree",
              "exit"}
Step == StartSteps \cup StopSteps
FreeSteps == {"ptpFree", "healthFree", "rawFree", "prbsFree", "portsFree", "ealFree", "exit"}
Basic == {"eal", "ports", "prbs"}

\* The steps and the threads an application starts with.
Begins ==
    [dtn |-> StartSteps,
     cmc |-> {"eal", "ports", "prbs", "queues", "rx", "tx", "psu", "loop"},
     vmc |-> {"eal", "ports", "prbs", "queues", "ptp", "rx", "tx", "psu", "loop"},
     hsn |-> {"eal", "ports", "prbs", "queues", "rx", "tx", "loop"}]
ThreadsOf ==
    [dtn |-> Thread, cmc |-> {"rx", "tx", "psu"}, vmc |-> {"ptp", "rx", "tx", "psu"},
     hsn |-> {"rx", "tx"}]

\* The step after which the threads of a class have ended.
JoinOf ==
    [rx |-> "join", tx |-> "join", ext |-> "join", raw |-> "flush", health |-> "healthJoin",
     ptp |-> "ptpJoin", psu |-> "psuStop"]

\* The order all scripts respect: what every thread uses, the threads, then what
\* waits for them, then what frees.
Rank ==
    [x \in Step |->
        IF x = "eal" THEN 1 ELSE IF x = "ports" THEN 2 ELSE IF x = "prbs" THEN 3
        ELSE IF x = "queues" THEN 4
        ELSE IF x \in StartSteps THEN 5
        ELSE IF x \notin FreeSteps THEN 6 ELSE 7]
Ranked(s) == \A i, j \in 1..Len(s) : i <= j => Rank[s[i]] <= Rank[s[j]]

\* A step that is still to be taken.
Ahead(s, x) == \E i \in 1..Len(s) : s[i] = x

Opens(s, a) == s \in Seq(Step) /\ Ranked(s) /\ \A i \in 1..Len(s) : s[i] \in Begins[a]
Closes(s) == s \in Seq(Step) /\ Ranked(s) /\ \A i \in 1..Len(s) : s[i] \in StopSteps

-----------------------------------------------------------------------------
(* The scripts.                                                            *)

\* The scripts that start are in order.
LEMMA StartsOpen == \A a \in App : Opens(StartOf[a], a)
<1>1. ASSUME NEW s \in Seq(Step), NEW a, NEW n \in Nat, Len(s) = n,
             \A i \in 1..n : s[i] \in Begins[a],
             \A i \in 1..n : Rank[s[i]] = IF i <= 4 THEN i ELSE 5
      PROVE  Opens(s, a)
  BY <1>1 DEF Opens, Ranked
<1>2. Opens(DtnStart, "dtn")
  <2>1. /\ DtnStart \in Seq(Step) /\ Len(DtnStart) = 14
        /\ \A i \in 1..14 : DtnStart[i] \in Begins["dtn"]
        /\ \A i \in 1..14 : Rank[DtnStart[i]] = IF i <= 4 THEN i ELSE 5
    BY DEF DtnStart, DtnSetUp, DtnWorkers, Rank, Step, StartSteps, StopSteps, FreeSteps, Begins
  <2> QED
    BY <1>1, <2>1
<1>3. Opens(CmcStart, "cmc")
  <2>1. /\ CmcStart \in Seq(Step) /\ Len(CmcStart) = 8
        /\ \A i \in 1..8 : CmcStart[i] \in Begins["cmc"]
        /\ \A i \in 1..8 : Rank[CmcStart[i]] = IF i <= 4 THEN i ELSE 5
    BY DEF CmcStart, Rank, Step, StartSteps, StopSteps, FreeSteps, Begins
  <2> QED
    BY <1>1, <2>1
<1>4. Opens(VmcStart, "vmc")
  <2>1. /\ VmcStart \in Seq(Step) /\ Len(VmcStart) = 9
        /\ \A i \in 1..9 : VmcStart[i] \in Begins["vmc"]
        /\ \A i \in 1..9 : Rank[VmcStart[i]] = IF i <= 4 THEN i ELSE 5
    BY DEF VmcStart, Rank, Step, StartSteps, StopSteps, FreeSteps, Begins
  <2> QED
    BY <1>1, <2>1
<1>5. Opens(HsnStart, "hsn")
  <2>1. /\ HsnStart \in Seq(Step) /\ Len(HsnStart) = 7
        /\ \A i \in 1..7 : HsnStart[i] \in Begins["hsn"]
        /\ \A i \in 1..7 : Rank[HsnStart[i]] = IF i <= 4 THEN i ELSE 5
    BY DEF HsnStart, Rank, Step, StartSteps, StopSteps, FreeSteps, Begins
  <2> QED
    BY <1>1, <2>1
<1> QED
  BY <1>2, <1>3, <1>4, <1>5 DEF App, StartOf

\* The scripts that stop are in order, and wait for every thread of the application.
LEMMA StopsClose ==
    \A a \in App : /\ Closes(StopOf[a])
                   /\ \A t \in ThreadsOf[a] : Ahead(StopOf[a], JoinOf[t])
<1>1. ASSUME NEW s \in Seq(Step), NEW k \in Nat, NEW n \in Nat, Len(s) = n,
             \A i \in 1..n : s[i] \in StopSteps,
             \A i \in 1..n : Rank[s[i]] = IF i < k THEN 6 ELSE 7
      PROVE  Closes(s)
  BY <1>1 DEF Closes, Ranked
<1>2. Closes(DtnStop) /\ \A t \in Thread : Ahead(DtnStop, JoinOf[t])
  <2>1. DtnStop \in Seq(Step)
    <3>1. /\ <<"dump", "ptpStop", "ptpJoin", "healthJoin", "psuStop", "rawJoin",
               "flush", "join", "ptpFree", "healthFree", "rawFree">> \in Seq(Step)
          /\ FreeAll \in Seq(Step)
      BY DEF FreeAll, Step, StopSteps
    <3> QED
      BY <3>1, ConcatProperties DEF DtnStop
  <2>2. /\ Len(DtnStop) = 15
        /\ DtnStop[1] = "dump" /\ DtnStop[2] = "ptpStop" /\ DtnStop[3] = "ptpJoin"
        /\ DtnStop[4] = "healthJoin" /\ DtnStop[5] = "psuStop" /\ DtnStop[6] = "rawJoin"
        /\ DtnStop[7] = "flush" /\ DtnStop[8] = "join" /\ DtnStop[9] = "ptpFree"
        /\ DtnStop[10] = "healthFree" /\ DtnStop[11] = "rawFree"
        /\ DtnStop[12] = "prbsFree" /\ DtnStop[13] = "portsFree"
        /\ DtnStop[14] = "ealFree" /\ DtnStop[15] = "exit"
    BY DEF DtnStop, FreeAll
  <2>3. /\ \A i \in 1..15 : DtnStop[i] \in StopSteps
        /\ \A i \in 1..15 : Rank[DtnStop[i]] = IF i < 9 THEN 6 ELSE 7
    BY <2>2 DEF Rank, Step, StartSteps, StopSteps, FreeSteps
  <2>4. \A t \in Thread : \E i \in 1..15 : DtnStop[i] = JoinOf[t]
    BY <2>2 DEF Thread, JoinOf
  <2>5. Len(DtnStop) = 15
    BY <2>2
  <2>6. Closes(DtnStop)
    BY <1>1, <2>1, <2>3, <2>5
  <2>7. \A t \in Thread : Ahead(DtnStop, JoinOf[t])
    BY <2>4, <2>5 DEF Ahead
  <2> QED
    BY <2>6, <2>7
<1>3. Closes(CmcStop) /\ \A t \in ThreadsOf["cmc"] : Ahead(CmcStop, JoinOf[t])
  <2>1. CmcStop \in Seq(Step)
    <3>1. <<"psuStop", "flush", "join", "mmms">> \in Seq(Step) /\ FreeAll \in Seq(Step)
      BY DEF FreeAll, Step, StopSteps
    <3> QED
      BY <3>1, ConcatProperties DEF CmcStop
  <2>2. /\ Len(CmcStop) = 8
        /\ CmcStop[1] = "psuStop" /\ CmcStop[2] = "flush" /\ CmcStop[3] = "join"
        /\ CmcStop[4] = "mmms" /\ CmcStop[5] = "prbsFree" /\ CmcStop[6] = "portsFree"
        /\ CmcStop[7] = "ealFree" /\ CmcStop[8] = "exit"
    BY DEF CmcStop, FreeAll
  <2>3. /\ \A i \in 1..8 : CmcStop[i] \in StopSteps
        /\ \A i \in 1..8 : Rank[CmcStop[i]] = IF i < 5 THEN 6 ELSE 7
    BY <2>2 DEF Rank, Step, StartSteps, StopSteps, FreeSteps
  <2>4. \A t \in ThreadsOf["cmc"] : \E i \in 1..8 : CmcStop[i] = JoinOf[t]
    BY <2>2 DEF ThreadsOf, JoinOf
  <2>5. Len(CmcStop) = 8
    BY <2>2
  <2>6. Closes(CmcStop)
    BY <1>1, <2>1, <2>3, <2>5
  <2>7. \A t \in ThreadsOf["cmc"] : Ahead(CmcStop, JoinOf[t])
    BY <2>4, <2>5 DEF Ahead
  <2> QED
    BY <2>6, <2>7
<1>4. Closes(VmcStop) /\ \A t \in ThreadsOf["vmc"] : Ahead(VmcStop, JoinOf[t])
  <2>1. VmcStop \in Seq(Step)
    <3>1. /\ <<"ptpStop", "ptpJoin", "psuStop", "flush", "join">> \in Seq(Step)
          /\ FreeAll \in Seq(Step)
      BY DEF FreeAll, Step, StopSteps
    <3> QED
      BY <3>1, ConcatProperties DEF VmcStop
  <2>2. /\ Len(VmcStop) = 9
        /\ VmcStop[1] = "ptpStop" /\ VmcStop[2] = "ptpJoin" /\ VmcStop[3] = "psuStop"
        /\ VmcStop[4] = "flush" /\ VmcStop[5] = "join" /\ VmcStop[6] = "prbsFree"
        /\ VmcStop[7] = "portsFree" /\ VmcStop[8] = "ealFree" /\ VmcStop[9] = "exit"
    BY DEF VmcStop, FreeAll
  <2>3. /\ \A i \in 1..9 : VmcStop[i] \in StopSteps
        /\ \A i \in 1..9 : Rank[VmcStop[i]] = IF i < 6 THEN 6 ELSE 7
    BY <2>2 DEF Rank, Step, StartSteps, StopSteps, FreeSteps
  <2>4. \A t \in ThreadsOf["vmc"] : \E i \in 1..9 : VmcStop[i] = JoinOf[t]
    BY <2>2 DEF ThreadsOf, JoinOf
  <2>5. Len(VmcStop) = 9
    BY <2>2
  <2>6. Closes(VmcStop)
    BY <1>1, <2>1, <2>3, <2>5
  <2>7. \A t \in ThreadsOf["vmc"] : Ahead(VmcStop, JoinOf[t])
    BY <2>4, <2>5 DEF Ahead
  <2> QED
    BY <2>6, <2>7
<1>5. Closes(HsnStop) /\ \A t \in ThreadsOf["hsn"] : Ahead(HsnStop, JoinOf[t])
  <2>1. /\ HsnStop \in Seq(Step) /\ Len(HsnStop) = 4 /\ HsnStop[1] = "join"
        /\ \A i \in 1..4 : HsnStop[i] \in StopSteps
        /\ \A i \in 1..4 : Rank[HsnStop[i]] = IF i < 2 THEN 6 ELSE 7
    BY DEF HsnStop, Rank, Step, StartSteps, StopSteps, FreeSteps
  <2>2. \A t \in ThreadsOf["hsn"] : JoinOf[t] = "join"
    BY DEF ThreadsOf, JoinOf
  <2>3. Closes(HsnStop)
    BY <1>1, <2>1
  <2>4. 1 \in 1..Len(HsnStop) /\ HsnStop[1] = "join"
    BY <2>1
  <2>5. \A t \in ThreadsOf["hsn"] : Ahead(HsnStop, JoinOf[t])
    BY <2>2, <2>4 DEF Ahead
  <2> QED
    BY <2>3, <2>5
<1>6. ThreadsOf["dtn"] = Thread
  BY DEF ThreadsOf
<1> QED
  BY <1>2, <1>3, <1>4, <1>5, <1>6 DEF App, StopOf

\* So are the ends of them that a failed step leaves.
LEMMA FailuresClose ==
    ASSUME NEW step \in {"eal", "ports", "queues", "rx", "tx"}
    PROVE  /\ Closes(OnFailure(step))
           /\ app = "hsn" /\ step \in {"rx", "tx"} => OnFailure(step) = StopOf["hsn"]
<1>1. ASSUME NEW s \in Seq(Step), \A i \in 1..Len(s) : s[i] \in StopSteps /\ Rank[s[i]] = 7
      PROVE  Closes(s)
  BY <1>1 DEF Closes, Ranked
<1>2. /\ <<"exit">> \in Seq(Step) /\ <<"ealFree", "exit">> \in Seq(Step)
      /\ FreeAll \in Seq(Step)
  BY DEF FreeAll, Step, StopSteps
<1>3. Closes(<<"exit">>) /\ Closes(<<"ealFree", "exit">>)
  <2>1. /\ Rank["exit"] = 7 /\ Rank["ealFree"] = 7
    BY DEF Rank, Step, StartSteps, StopSteps, FreeSteps
  <2> QED
    <3>1. \A i \in 1..Len(<<"exit">>) :
              <<"exit">>[i] \in StopSteps /\ Rank[<<"exit">>[i]] = 7
      BY <2>1 DEF StopSteps
    <3>2. \A i \in 1..Len(<<"ealFree", "exit">>) :
              /\ <<"ealFree", "exit">>[i] \in StopSteps
              /\ Rank[<<"ealFree", "exit">>[i]] = 7
      BY <2>1 DEF StopSteps
    <3> QED
      BY <1>1, <1>2, <3>1, <3>2
<1>4. Closes(FreeAll)
  <2>1. /\ Len(FreeAll) = 4
        /\ \A i \in 1..4 : FreeAll[i] \in StopSteps /\ Rank[FreeAll[i]] = 7
    BY DEF FreeAll, Rank, Step, StartSteps, StopSteps, FreeSteps
  <2> QED
    BY <1>1, <1>2, <2>1
<1>5. Closes(HsnStop) /\ StopOf["hsn"] = HsnStop
  <2>1. StopOf["hsn"] = HsnStop /\ "hsn" \in App
    BY DEF StopOf, App
  <2> QED
    BY <2>1, StopsClose
<1> QED
  BY <1>3, <1>4, <1>5 DEF OnFailure

\* Taking the first step of a script.
LEMMA TailOfScript ==
    ASSUME NEW s \in Seq(Step), s # <<>>, Ranked(s)
    PROVE  /\ Tail(s) \in Seq(Step) /\ Ranked(Tail(s)) /\ Head(s) \in Step
           /\ Ahead(s, Head(s))
           /\ \A i \in 1..Len(Tail(s)) : i + 1 \in 1..Len(s) /\ Tail(s)[i] = s[i + 1]
           /\ \A x : Ahead(Tail(s), x) => Ahead(s, x)
           /\ \A x : Ahead(s, x) => x = Head(s) \/ Ahead(Tail(s), x)
           /\ \A x : Ahead(s, x) => Rank[Head(s)] <= Rank[x]
<1>1. /\ Tail(s) \in Seq(Step) /\ Len(Tail(s)) = Len(s) - 1 /\ Len(s) \in Nat \ {0}
      /\ \A i \in 1..Len(Tail(s)) : i + 1 \in 1..Len(s) /\ Tail(s)[i] = s[i + 1]
      /\ Head(s) = s[1]
  OBVIOUS
<1>2. Ranked(Tail(s))
  <2> SUFFICES ASSUME NEW i \in 1..Len(Tail(s)), NEW j \in 1..Len(Tail(s)), i <= j
               PROVE  Rank[Tail(s)[i]] <= Rank[Tail(s)[j]]
    BY DEF Ranked
  <2>1. i + 1 <= j + 1
    OBVIOUS
  <2> QED
    BY <1>1, <2>1 DEF Ranked
<1>3. ASSUME NEW x, Ahead(Tail(s), x) PROVE Ahead(s, x)
  <2>1. PICK i \in 1..Len(Tail(s)) : Tail(s)[i] = x
    BY <1>3 DEF Ahead
  <2> QED
    BY <1>1, <2>1 DEF Ahead
<1>4. ASSUME NEW x, Ahead(s, x)
      PROVE  (x = Head(s) \/ Ahead(Tail(s), x)) /\ Rank[Head(s)] <= Rank[x]
  <2>1. PICK i \in 1..Len(s) : s[i] = x
    BY <1>4 DEF Ahead
  <2>2. 1 \in 1..Len(s) /\ 1 <= i
    BY <1>1
  <2>3. Rank[s[1]] <= Rank[s[i]]
    BY <2>2 DEF Ranked
  <2>4. CASE i = 1
    BY <1>1, <2>1, <2>3, <2>4
  <2>5. CASE i # 1
    <3>1. i - 1 \in 1..Len(Tail(s)) /\ (i - 1) + 1 = i
      BY <1>1, <2>5
    <3>2. Tail(s)[i - 1] = x
      BY <1>1, <2>1, <3>1
    <3> QED
      BY <1>1, <2>1, <2>3, <3>1, <3>2 DEF Ahead
  <2> QED
    BY <2>4, <2>5
<1>5. Head(s) \in Step /\ Ahead(s, Head(s))
  BY <1>1 DEF Ahead
<1> QED
  BY <1>1, <1>2, <1>3, <1>4, <1>5

\* A script that stops holds no step that starts.
LEMMA ClosedIsNotStarting ==
    ASSUME NEW s, Closes(s)
    PROVE  ~(s # <<>> /\ Head(s) \in StartSteps)
<1>1. SUFFICES ASSUME s # <<>>, Head(s) \in StartSteps PROVE FALSE
  OBVIOUS
<1>2. Head(s) = s[1] /\ 1 \in 1..Len(s)
  BY <1>1 DEF Closes
<1> QED
  BY <1>1, <1>2 DEF Closes, StartSteps, StopSteps

-----------------------------------------------------------------------------
(* Nothing is freed in use.                                                *)

Life == {"none", "running", "ended"}

\* The scripts and the types.
InOrder ==
    /\ app \in App
    /\ life \in [Thread -> Life]
    /\ Opens(todo, app) \/ Closes(todo)

Starting == todo # <<>> /\ Head(todo) \in StartSteps

\* A failed launch, but for the HSN application, ends it with its lcores running.
Excused == launch_failed /\ app # "hsn"

\* A script that has yet to provide what every thread uses.
Early(s) == \E x \in Basic \cup {"queues"} : Ahead(s, x)

\* While the application starts, what every thread uses is there or will be before the
\* first thread is, and what was initialised is held.
StartsWhole ==
    Starting => /\ \A r \in Basic : r \in held \/ Ahead(todo, r)
                /\ Early(todo) => \A t \in Thread : life[t] = "none"
                /\ "raw" \in on => "raw" \in held

\* When it stops, each thread that still runs is going to be waited for.
StopsWaiting ==
    (todo # <<>> /\ ~Starting /\ ~Excused) =>
        \A t \in Thread : life[t] = "running" => Ahead(todo, JoinOf[t])

OnlyItsThreads == \A t \in Thread : life[t] # "none" => t \in ThreadsOf[app]

\* The hand-over is the CMC application's.
HandoverIsCmc == pc \in {"trigger", "arm", "check", "timeout", "poll"} => app = "cmc"

UseInv ==
    /\ InOrder /\ StartsWhole /\ StopsWaiting /\ OnlyItsThreads
    /\ "psu" \in on => "psu" \in held
    /\ HandoverIsCmc
    /\ NothingFreedInUse

usevars == <<app, pc, todo, on, held, life, launch_failed>>

\* What the main thread knows of its place in the script when it takes a step.
LEMMA PlaceOf ==
    ASSUME InOrder, NEW step \in Step, At(step)
    PROVE  /\ todo \in Seq(Step) /\ todo # <<>> /\ Ranked(todo) /\ Head(todo) = step
           /\ step \in StartSteps => /\ Starting /\ Opens(todo, app) /\ step \in Begins[app]
                                     /\ Opens(Tail(todo), app)
           /\ step \in StopSteps => ~Starting /\ Closes(todo) /\ Closes(Tail(todo))
<1>1. todo \in Seq(Step) /\ todo # <<>> /\ Ranked(todo) /\ Head(todo) = step
  BY DEF InOrder, Opens, Closes, At
<1>2. Head(todo) = todo[1] /\ 1 \in 1..Len(todo)
  BY <1>1
<1>3. /\ Tail(todo) \in Seq(Step) /\ Ranked(Tail(todo))
      /\ \A i \in 1..Len(Tail(todo)) : i + 1 \in 1..Len(todo) /\ Tail(todo)[i] = todo[i + 1]
  BY <1>1, TailOfScript
<1>4. StartSteps \cap StopSteps = {} /\ Begins[app] \subseteq StartSteps
  BY DEF StartSteps, StopSteps, Begins, InOrder, App
<1>5. CASE step \in StartSteps
  <2>1. Opens(todo, app)
    BY <1>1, <1>2, <1>4, <1>5 DEF InOrder, Closes
  <2>2. step \in Begins[app]
    BY <1>1, <1>2, <2>1 DEF Opens
  <2>3. Opens(Tail(todo), app)
    BY <1>3, <2>1 DEF Opens
  <2> QED
    BY <1>1, <1>4, <1>5, <2>1, <2>2, <2>3 DEF Starting
<1>6. CASE step \in StopSteps
  <2>1. Closes(todo)
    BY <1>1, <1>2, <1>4, <1>6 DEF InOrder, Opens
  <2>2. Closes(Tail(todo))
    BY <1>3, <2>1 DEF Closes
  <2> QED
    BY <1>1, <1>4, <1>6, <2>1, <2>2 DEF Starting
<1> QED
  BY <1>1, <1>5, <1>6 DEF Step

\* A step of a script that stops, or of one whose resources are not what it is about.
LEMMA SkipKeeps ==
    ASSUME UseInv, NEW step \in Step \ Basic, At(step), Done,
           UNCHANGED <<app, on, held, life, launch_failed>>,
           \A t \in Thread : JoinOf[t] = step => life[t] # "running"
    PROVE  UseInv'
<1>1. /\ todo \in Seq(Step) /\ todo # <<>> /\ Ranked(todo) /\ Head(todo) = step
      /\ step \in StartSteps => Starting /\ Opens(Tail(todo), app)
      /\ step \in StopSteps => ~Starting /\ Closes(Tail(todo))
  BY PlaceOf DEF UseInv
<1>2. /\ \A x : Ahead(Tail(todo), x) => Ahead(todo, x)
      /\ \A x : Ahead(todo, x) => x = Head(todo) \/ Ahead(Tail(todo), x)
  BY <1>1, TailOfScript
<1>3. todo' = Tail(todo)
  BY DEF Done
<1>4. InOrder'
  BY <1>1, <1>3 DEF UseInv, InOrder, Step
<1>5. Starting' => Starting
  BY <1>1, <1>3, ClosedIsNotStarting DEF Starting, Step
<1>6. StartsWhole'
  BY <1>1, <1>2, <1>3, <1>5 DEF UseInv, StartsWhole, Early
<1>7. StopsWaiting'
  <2>1. SUFFICES ASSUME NEW t \in Thread, life[t] = "running", todo' # <<>>, ~Starting',
                        ~Excused
                 PROVE  Ahead(Tail(todo), JoinOf[t])
    BY <1>3 DEF StopsWaiting, Excused
  <2>2. CASE step \in StartSteps
    <3>1. Opens(Tail(todo), app) /\ Tail(todo) # <<>>
      BY <1>1, <1>3, <2>1, <2>2
    <3>2. Head(Tail(todo)) = Tail(todo)[1] /\ 1 \in 1..Len(Tail(todo))
      BY <3>1 DEF Opens
    <3>3. Begins[app] \subseteq StartSteps
      BY DEF StartSteps, Begins, UseInv, InOrder, App
    <3> QED
      BY <1>3, <2>1, <3>1, <3>2, <3>3 DEF Starting, Opens
  <2>3. CASE step \in StopSteps
    <3>1. Ahead(todo, JoinOf[t]) /\ JoinOf[t] # step
      BY <1>1, <2>1, <2>3 DEF UseInv, StopsWaiting
    <3> QED
      BY <1>1, <1>2, <3>1
  <2> QED
    BY <2>2, <2>3 DEF Step
<1> QED
  BY <1>4, <1>6, <1>7
  DEF UseInv, OnlyItsThreads, HandoverIsCmc, NothingFreedInUse, Uses, Done

\* A step of a script that starts: it adds to what is held, and starts no thread
\* before all that threads use is there.
LEMMA StartKeeps ==
    ASSUME UseInv, NEW step \in StartSteps, At(step), Done,
           UNCHANGED <<app, launch_failed>>,
           held \subseteq held', step \in Basic => step \in held',
           "raw" \in on' => "raw" \in on \/ "raw" \in held',
           "psu" \in on' => "psu" \in on \/ "psu" \in held',
           life' \in [Thread -> Life],
           \A t \in Thread :
               life'[t] # life[t] =>
                   /\ Rank[step] = 5 /\ t \in ThreadsOf[app]
                   /\ t \in {"raw", "health", "psu"} => t \in held'
                   /\ t = "ptp" /\ app = "dtn" => "ptp" \in held'
    PROVE  UseInv'
<1>1. /\ todo \in Seq(Step) /\ todo # <<>> /\ Ranked(todo) /\ Head(todo) = step
      /\ Starting /\ Opens(Tail(todo), app)
  BY PlaceOf DEF UseInv, Step
<1>2. /\ \A x : Ahead(Tail(todo), x) => Ahead(todo, x)
      /\ \A x : Ahead(todo, x) => x = Head(todo) \/ Ahead(Tail(todo), x)
      /\ \A x : Ahead(todo, x) => Rank[Head(todo)] <= Rank[x]
  BY <1>1, TailOfScript
<1>3. todo' = Tail(todo)
  BY DEF Done
<1>4. InOrder'
  BY <1>1, <1>3 DEF UseInv, InOrder
<1>5. /\ \A r \in Basic : r \in held \/ Ahead(todo, r)
      /\ Early(todo) => \A t \in Thread : life[t] = "none"
      /\ "raw" \in on => "raw" \in held
  BY <1>1 DEF UseInv, StartsWhole
<1>7. ASSUME NEW t \in Thread, life'[t] # life[t]
      PROVE  Basic \subseteq held /\ ~Early(todo)
  <2>1. Rank[step] = 5
    BY <1>7
  <2>2. ASSUME NEW x \in Basic \cup {"queues"} PROVE ~Ahead(todo, x)
    <3>1. Rank[x] \in 0..4
      BY <2>2 DEF Rank, Basic, Step, StartSteps
    <3>2. Ahead(todo, x) => 5 <= Rank[x]
      BY <1>1, <1>2, <2>1
    <3> QED
      BY <3>1, <3>2
  <2> QED
    BY <1>5, <2>2 DEF Early
<1>8. \A r \in Basic : r \in held' \/ Ahead(Tail(todo), r)
  BY <1>1, <1>2, <1>5
<1>9. Early(Tail(todo)) => \A t \in Thread : life'[t] = "none"
  BY <1>2, <1>5, <1>7 DEF Early
<1>10. /\ "raw" \in on' => "raw" \in held'
       /\ "psu" \in on' => "psu" \in held'
  BY <1>5 DEF UseInv
<1>11. StartsWhole'
  BY <1>3, <1>8, <1>9, <1>10 DEF StartsWhole
<1>12. StopsWaiting'
  <2>1. SUFFICES ASSUME todo' # <<>> PROVE Starting'
    BY DEF StopsWaiting
  <2>2. /\ Head(Tail(todo)) = Tail(todo)[1] /\ 1 \in 1..Len(Tail(todo))
        /\ Begins[app] \subseteq StartSteps
    BY <1>1, <1>3, <2>1 DEF Opens, StartSteps, Begins, UseInv, InOrder, App
  <2> QED
    BY <1>1, <1>3, <2>1, <2>2 DEF Starting, Opens
<1>13. OnlyItsThreads'
  BY DEF UseInv, OnlyItsThreads
<1>14. NothingFreedInUse'
  <2>1. SUFFICES ASSUME launch_failed => app = "hsn", NEW t \in Thread, life'[t] = "running"
                 PROVE  Uses(t)' \subseteq held'
    BY DEF NothingFreedInUse
  <2>2. /\ Basic \cap Uses(t) \subseteq held' /\ Basic \cap Uses(t)' = Basic \cap Uses(t)
        /\ t \in {"raw", "health", "psu"} => t \in held'
        /\ t = "ptp" /\ app = "dtn" => "ptp" \in held'
    <3>1. Basic \cap Uses(t)' = Basic \cap Uses(t)
      BY DEF Uses, Basic, Thread
    <3>2. CASE life'[t] # life[t]
      BY <1>7, <3>1, <3>2
    <3>3. CASE life'[t] = life[t]
      <4>1. Uses(t) \subseteq held
        BY <2>1, <3>3 DEF UseInv, NothingFreedInUse
      <4>2. /\ t \in {"raw", "health", "psu"} => t \in Uses(t)
            /\ t = "ptp" /\ app = "dtn" => "ptp" \in Uses(t)
        BY DEF Uses
      <4> QED
        BY <3>1, <4>1, <4>2
    <3> QED
      BY <3>1, <3>2, <3>3
  <2>3. Uses(t)' \subseteq Basic \cup {"raw", "health", "psu", "ptp"}
    BY DEF Uses, Basic, Thread
  <2>4. /\ "raw" \in Uses(t)' => t = "raw" \/ "raw" \in on'
        /\ "psu" \in Uses(t)' => t = "psu" \/ "psu" \in on'
        /\ "health" \in Uses(t)' => t = "health"
        /\ "ptp" \in Uses(t)' => t = "ptp" /\ app = "dtn"
    BY DEF Uses, Thread
  <2> QED
    BY <1>10, <2>2, <2>3, <2>4
<1> QED
  BY <1>4, <1>10, <1>11, <1>12, <1>13, <1>14 DEF UseInv, HandoverIsCmc, Done

\* The loop ends, or does not yet: the script that stops waits for every thread.
LEMMA TurnKeeps ==
    ASSUME UseInv, UNCHANGED <<app, on, held, life, launch_failed>>,
           todo' \in {todo, <<>>, StopOf[app]}, HandoverIsCmc'
    PROVE  UseInv'
<1>1. CASE todo' = todo
  BY <1>1 DEF UseInv, InOrder, StartsWhole, StopsWaiting, Starting, Excused, OnlyItsThreads,
              NothingFreedInUse, Uses
<1>2. CASE todo' # todo
  <2>1. app \in App
    BY DEF UseInv, InOrder
  <2>2. Closes(<<>>)
    BY DEF Closes, Ranked
  <2>3. Closes(todo')
    BY <1>2, <2>1, <2>2, StopsClose
  <2>4. ~Starting'
    BY <2>3, ClosedIsNotStarting DEF Starting
  <2>5. StopsWaiting'
    <3>1. SUFFICES ASSUME todo' # <<>>, NEW t \in Thread, life[t] = "running"
                   PROVE  Ahead(todo', JoinOf[t])
      BY DEF StopsWaiting
    <3>2. todo' = StopOf[app] /\ t \in ThreadsOf[app]
      BY <1>2, <3>1 DEF UseInv, OnlyItsThreads
    <3> QED
      BY <2>1, <3>2, StopsClose
  <2>6. InOrder'
    BY <2>3 DEF UseInv, InOrder
  <2> QED
    BY <2>4, <2>5, <2>6 DEF UseInv, StartsWhole, OnlyItsThreads, NothingFreedInUse, Uses
<1> QED
  BY <1>1, <1>2

\* A step that fails: nothing runs yet, or the failure is the exception, or the HSN
\* application waits for its lcores.
LEMMA FailKeeps ==
    ASSUME UseInv, NEW step \in {"eal", "ports", "queues", "rx", "tx"}, At(step), Fail(step),
           UNCHANGED <<app, on, held, life>>,
           launch_failed' = IF step \in {"rx", "tx"} THEN TRUE ELSE launch_failed
    PROVE  UseInv'
<1>1. step \in StartSteps
  BY DEF StartSteps
<1>2. /\ todo \in Seq(Step) /\ todo # <<>> /\ Ranked(todo) /\ Head(todo) = step /\ Starting
  BY <1>1, PlaceOf DEF UseInv, Step
<1>3. todo' = OnFailure(step) /\ Closes(todo')
  BY FailuresClose DEF Fail
<1>4. ~Starting'
  BY <1>3, ClosedIsNotStarting DEF Starting
<1>5. StopsWaiting'
  <2>1. SUFFICES ASSUME ~Excused', NEW t \in Thread, life[t] = "running"
                 PROVE  Ahead(todo', JoinOf[t])
    BY DEF StopsWaiting
  <2>2. CASE step \in {"rx", "tx"}
    <3>1. app = "hsn" /\ todo' = StopOf["hsn"]
      BY <1>3, <2>1, <2>2, FailuresClose DEF Excused
    <3>2. "hsn" \in App /\ t \in ThreadsOf["hsn"]
      BY <2>1, <3>1 DEF App, UseInv, OnlyItsThreads
    <3> QED
      BY <3>1, <3>2, StopsClose
  <2>3. CASE step \in {"eal", "ports", "queues"}
    <3>1. Ahead(todo, step)
      BY <1>2, TailOfScript
    <3>2. Early(todo)
      BY <2>3, <3>1 DEF Early, Basic
    <3> QED
      BY <1>2, <2>1, <3>2 DEF UseInv, StartsWhole
  <2> QED
    BY <2>2, <2>3
<1>6. InOrder'
  BY <1>3 DEF UseInv, InOrder
<1> QED
  BY <1>4, <1>5, <1>6
  DEF UseInv, StartsWhole, OnlyItsThreads, HandoverIsCmc, NothingFreedInUse, Uses, Fail

\* The PSU telemetry stops after its thread was joined, and main forgets it.
LEMMA StopTelemetryKeeps ==
    ASSUME UseInv, StopPsuTelemetry
    PROVE  UseInv'
<1>1. /\ At("psuStop") /\ Done /\ life["psu"] # "running"
      /\ held' = held \ {"psu"} /\ on' = on \ {"psu"}
      /\ app' = app /\ life' = life /\ launch_failed' = launch_failed
  BY DEF StopPsuTelemetry, Joined, appvars
<1>2. "psuStop" \in StopSteps /\ "psuStop" \in Step
  BY DEF StopSteps, Step
<1>3. /\ todo \in Seq(Step) /\ todo # <<>> /\ Ranked(todo) /\ Head(todo) = "psuStop"
      /\ ~Starting /\ Closes(Tail(todo))
  BY <1>1, <1>2, PlaceOf DEF UseInv
<1>4. \A x : Ahead(todo, x) => x = Head(todo) \/ Ahead(Tail(todo), x)
  BY <1>3, TailOfScript
<1>5. todo' = Tail(todo)
  BY <1>1 DEF Done
<1>6. InOrder'
  BY <1>1, <1>3, <1>5 DEF UseInv, InOrder
<1>7. ~Starting'
  BY <1>3, <1>5, ClosedIsNotStarting DEF Starting
<1>8. StopsWaiting'
  <2>1. SUFFICES ASSUME NEW t \in Thread, life[t] = "running", ~Excused
                 PROVE  Ahead(Tail(todo), JoinOf[t])
    BY <1>1, <1>5 DEF StopsWaiting, Excused
  <2>2. t # "psu" /\ JoinOf[t] # "psuStop"
    BY <1>1, <2>1 DEF JoinOf, Thread
  <2> QED
    BY <1>3, <1>4, <2>1, <2>2 DEF UseInv, StopsWaiting
<1>9. NothingFreedInUse'
  <2>1. SUFFICES ASSUME launch_failed => app = "hsn", NEW t \in Thread, life[t] = "running"
                 PROVE  Uses(t)' \subseteq held'
    BY <1>1 DEF NothingFreedInUse
  <2>2. Uses(t) \subseteq held
    BY <2>1 DEF UseInv, NothingFreedInUse
  <2>3. t # "psu"
    BY <1>1, <2>1
  <2>4. Uses(t)' \subseteq Uses(t) \ {"psu"}
    BY <1>1, <2>3 DEF Uses, Thread
  <2> QED
    BY <1>1, <2>2, <2>4
<1> QED
  BY <1>1, <1>6, <1>7, <1>8, <1>9
  DEF UseInv, StartsWhole, OnlyItsThreads, HandoverIsCmc, Done

\* What a stopping script frees: every thread has ended, the failed launch excepted.
LEMMA FreeKeeps ==
    ASSUME UseInv, NEW step \in FreeSteps, NEW r \in Resource \cup {"none"}, r # "psu",
           Free(step, r)
    PROVE  UseInv'
<1>1. /\ At(step) /\ Done /\ held' = held \ {r}
      /\ app' = app /\ on' = on /\ life' = life /\ launch_failed' = launch_failed
  BY DEF Free, appvars
<1>2. step \in StopSteps /\ step \in Step
  BY DEF StopSteps, FreeSteps, Step
<1>3. /\ todo \in Seq(Step) /\ todo # <<>> /\ Ranked(todo) /\ Head(todo) = step
      /\ ~Starting /\ Closes(Tail(todo))
  BY <1>1, <1>2, PlaceOf DEF UseInv
<1>4. \A x : Ahead(todo, x) => Rank[step] <= Rank[x]
  BY <1>3, TailOfScript
<1>5. todo' = Tail(todo)
  BY <1>1 DEF Done
<1>6. InOrder'
  BY <1>1, <1>3, <1>5 DEF UseInv, InOrder
<1>7. ~Starting'
  BY <1>3, <1>5, ClosedIsNotStarting DEF Starting
<1>8. ASSUME ~Excused, NEW t \in Thread PROVE life[t] # "running"
  <2>1. Rank[step] = 7
    BY <1>2 DEF Rank, FreeSteps, StartSteps
  <2>2. JoinOf[t] \in StopSteps \ FreeSteps /\ Rank[JoinOf[t]] = 6
    BY DEF JoinOf, Thread, StopSteps, FreeSteps, StartSteps, Step, Rank
  <2>3. ~Ahead(todo, JoinOf[t])
    BY <1>4, <2>1, <2>2
  <2> QED
    BY <1>3, <1>8, <2>3 DEF UseInv, StopsWaiting
<1>9. StopsWaiting'
  BY <1>1, <1>8 DEF StopsWaiting, Excused
<1>10. NothingFreedInUse'
  BY <1>1, <1>8 DEF NothingFreedInUse, Excused
<1>11. "psu" \in on' => "psu" \in held'
  BY <1>1 DEF UseInv
<1> QED
  BY <1>1, <1>6, <1>7, <1>9, <1>10, <1>11
  DEF UseInv, StartsWhole, OnlyItsThreads, HandoverIsCmc, Done

\* A thread that ends uses nothing any more.
LEMMA EndKeeps ==
    ASSUME UseInv, NEW t \in Thread, life' = [life EXCEPT ![t] = "ended"],
           life[t] = "running", UNCHANGED <<app, pc, todo, on, held, launch_failed>>
    PROVE  UseInv'
<1>1. /\ life' \in [Thread -> Life]
      /\ \A u \in Thread : life'[u] = "running" => life[u] = "running"
      /\ \A u \in Thread : life'[u] # "none" => life[u] # "none"
      /\ \A u \in Thread : life[u] = "none" => life'[u] = "none"
  BY DEF UseInv, InOrder, Life
<1>2. InOrder' /\ OnlyItsThreads'
  BY <1>1 DEF UseInv, InOrder, OnlyItsThreads
<1>3. StartsWhole'
  BY <1>1 DEF UseInv, StartsWhole, Starting
<1>4. StopsWaiting'
  BY <1>1 DEF UseInv, StopsWaiting, Starting, Excused
<1>5. NothingFreedInUse'
  BY <1>1 DEF UseInv, NothingFreedInUse, Uses
<1> QED
  BY <1>2, <1>3, <1>4, <1>5 DEF UseInv, HandoverIsCmc

\* The steps that acquire what every thread uses.
LEMMA AcquireKeeps ==
    ASSUME UseInv, \/ InitializeEal \/ InitializePorts \/ InitPortTxrx \/ HsnSetupPort
                   \/ InitPrbsCache
    PROVE  UseInv'
<1>1. ASSUME NEW step \in {"eal", "ports", "queues"}, Acquire(step)
      PROVE  UseInv'
  <2>1. /\ At(step) /\ on' = on /\ life' = life /\ app' = app
        /\ launch_failed' = launch_failed
    BY <1>1 DEF Acquire, appvars, KeepThreads
  <2>2. step \in StartSteps
    BY DEF StartSteps
  <2>3. CASE Done /\ held' = held \cup ({step} \cap Resource)
    <3>1. held \subseteq held' /\ (step \in Basic => step \in held')
      BY <2>3 DEF Basic, Resource
    <3> QED
      BY <2>1, <2>2, <2>3, <3>1, StartKeeps DEF UseInv, InOrder
  <2>4. CASE Fail(step) /\ UNCHANGED held
    <3>1. launch_failed' = IF step \in {"rx", "tx"} THEN TRUE ELSE launch_failed
      BY <2>1
    <3> QED
      BY <2>1, <2>4, <3>1, FailKeeps
  <2> QED
    BY <1>1, <2>3, <2>4 DEF Acquire
<1>2. ASSUME InitPrbsCache PROVE UseInv'
  <2>1. /\ At("prbs") /\ Done /\ held' = held \cup {"prbs"} /\ on' = on /\ life' = life
        /\ app' = app /\ launch_failed' = launch_failed /\ "prbs" \in StartSteps
    BY <1>2 DEF InitPrbsCache, appvars, KeepThreads, StartSteps
  <2> QED
    BY <2>1, StartKeeps DEF UseInv, InOrder
<1> QED
  BY <1>1, <1>2 DEF InitializeEal, InitializePorts, InitPortTxrx, HsnSetupPort

\* A thread is started by a step of the rank of those that start threads.
LEMMA LaunchKeeps ==
    ASSUME UseInv,
           \/ LaunchRx \/ LaunchTx \/ StartRawSocketWorkers
           \/ StartHealthMonitor \/ StartExtTxWorkers \/ StartPtp \/ StartPsuTelemetry
    PROVE  UseInv'
<1>1. /\ life \in [Thread -> Life]
      /\ \A t \in Thread : [life EXCEPT ![t] = "running"] \in [Thread -> Life]
      /\ \A t, u \in Thread : u # t => [life EXCEPT ![t] = "running"][u] = life[u]
  BY DEF UseInv, InOrder, Life
<1>2. /\ \A x \in {"rx", "tx", "rawRun", "health", "extRun", "ptp", "psu"} :
             x \in StartSteps /\ x \in Step /\ Rank[x] = 5 /\ x \notin Basic
  BY DEF StartSteps, Step, Rank, Basic
<1>3. ASSUME NEW x \in {"rx", "tx", "rawRun", "health", "extRun", "ptp", "psu"}, At(x)
      PROVE  /\ Starting /\ x \in Begins[app]
  BY <1>2, <1>3, PlaceOf DEF UseInv
<1>4. ASSUME NEW x \in {"rx", "tx", "rawRun", "health", "extRun", "ptp", "psu"}, At(x),
             NEW t \in Thread,
             t = IF x = "rawRun" THEN "raw" ELSE IF x = "extRun" THEN "ext" ELSE x
      PROVE  t \in ThreadsOf[app]
  <2>1. x \in Begins[app] /\ app \in App
    BY <1>3, <1>4 DEF UseInv, InOrder
  <2> QED
    BY <1>4, <2>1 DEF Begins, ThreadsOf, App
<1>5. {"rx", "tx", "raw", "ext", "health", "ptp", "psu"} \subseteq Thread
  BY DEF Thread
<1>6. ASSUME NEW t \in {"rx", "tx"}, LaunchWorkers(t) PROVE UseInv'
  <2>1. /\ At(t) /\ app' = app /\ on' = on /\ held' = held
    BY <1>6 DEF LaunchWorkers, appvars
  <2>2. t \in Thread /\ t \in ThreadsOf[app]
    BY <1>4, <1>5, <2>1
  <2>3. CASE Done /\ life' = [life EXCEPT ![t] = "running"] /\ launch_failed' = launch_failed
    BY <1>1, <1>2, <2>1, <2>2, <2>3, StartKeeps
  <2>4. CASE Fail(t) /\ launch_failed' = TRUE /\ life' = life
    <3>1. launch_failed' = IF t \in {"rx", "tx"} THEN TRUE ELSE launch_failed
      BY <2>4
    <3> QED
      BY <2>1, <2>4, <3>1, FailKeeps
  <2> QED
    BY <1>6, <2>3, <2>4 DEF LaunchWorkers
<1>7. ASSUME StartRawSocketWorkers PROVE UseInv'
  <2>1. /\ At("rawRun") /\ Done /\ app' = app /\ held' = held
        /\ launch_failed' = launch_failed /\ on' \subseteq on
        /\ \/ life' = life
           \/ "raw" \in on /\ life' = [life EXCEPT !["raw"] = "running"]
    BY <1>7 DEF StartRawSocketWorkers, appvars
  <2>2. "raw" \in on => "raw" \in held
    BY <1>3, <2>1 DEF UseInv, StartsWhole
  <2>3. "raw" \in Thread /\ "raw" \in ThreadsOf[app]
    BY <1>4, <1>5, <2>1
  <2> QED
    BY <1>1, <1>2, <2>1, <2>2, <2>3, StartKeeps
<1>8. ASSUME StartHealthMonitor PROVE UseInv'
  <2>1. /\ At("health") /\ Done /\ app' = app /\ launch_failed' = launch_failed
        /\ \/ on' = on /\ held' = held /\ life' = life
           \/ /\ on' = on \cup {"health"} /\ held' = held \cup {"health"}
              /\ life' \in {life, [life EXCEPT !["health"] = "running"]}
    BY <1>8 DEF StartHealthMonitor, appvars
  <2>2. "health" \in Thread /\ "health" \in ThreadsOf[app]
    BY <1>4, <1>5, <2>1
  <2> QED
    BY <1>1, <1>2, <2>1, <2>2, StartKeeps
<1>9. ASSUME StartExtTxWorkers PROVE UseInv'
  <2>1. /\ At("extRun") /\ Done /\ app' = app /\ launch_failed' = launch_failed
        /\ on' = on /\ held' = held
        /\ life' \in {life, [life EXCEPT !["ext"] = "running"]}
    BY <1>9 DEF StartExtTxWorkers, appvars
  <2>2. "ext" \in Thread /\ "ext" \in ThreadsOf[app]
    BY <1>4, <1>5, <2>1
  <2> QED
    BY <1>1, <1>2, <2>1, <2>2, StartKeeps
<1>10. ASSUME StartPtp PROVE UseInv'
  <2>1. /\ At("ptp") /\ Done /\ app' = app /\ launch_failed' = launch_failed
        /\ \/ on' = on /\ held' = held /\ life' = life
           \/ /\ on' = on \cup {"ptp"} /\ held' = held \cup {"ptp"}
              /\ life' = [life EXCEPT !["ptp"] = "running"]
    BY <1>10 DEF StartPtp, PtpInit, PtpStart, appvars
  <2>2. "ptp" \in Thread /\ "ptp" \in ThreadsOf[app]
    BY <1>4, <1>5, <2>1
  <2> QED
    BY <1>1, <1>2, <2>1, <2>2, StartKeeps
<1>11. ASSUME StartPsuTelemetry PROVE UseInv'
  <2>1. /\ At("psu") /\ Done /\ app' = app /\ launch_failed' = launch_failed
        /\ \/ on' = on /\ held' = held /\ life' = life
           \/ /\ on' = on \cup {"psu"} /\ held' = held \cup {"psu"}
              /\ life' \in {life, [life EXCEPT !["psu"] = "running"]}
    BY <1>11 DEF StartPsuTelemetry, appvars, flags
  <2>2. "psu" \in Thread /\ "psu" \in ThreadsOf[app]
    BY <1>4, <1>5, <2>1
  <2> QED
    BY <1>1, <1>2, <2>1, <2>2, StartKeeps
<1> QED
  BY <1>6, <1>7, <1>8, <1>9, <1>10, <1>11 DEF LaunchRx, LaunchTx

\* The parts whose initialisation may fail.
LEMMA OptionalKeeps ==
    ASSUME UseInv, InitRawSocketPorts \/ ExtTxInit
    PROVE  UseInv'
<1>1. /\ life \in [Thread -> Life]
      /\ {"rawInit", "extInit"} \subseteq StartSteps \ Basic
  BY DEF UseInv, InOrder, StartSteps, Basic
<1>2. ASSUME InitRawSocketPorts PROVE UseInv'
  <2>1. /\ At("rawInit") /\ Done /\ app' = app /\ life' = life
        /\ launch_failed' = launch_failed
        /\ \/ on' = on \cup {"raw"} /\ held' = held \cup {"raw"}
           \/ on' = on /\ held' = held
    BY <1>2 DEF InitRawSocketPorts, appvars, KeepThreads
  <2> QED
    BY <1>1, <2>1, StartKeeps
<1>3. ASSUME ExtTxInit PROVE UseInv'
  <2>1. /\ At("extInit") /\ Done /\ app' = app /\ life' = life /\ held' = held
        /\ launch_failed' = launch_failed /\ on' \in {on, on \cup {"ext"}}
    BY <1>3 DEF ExtTxInit, appvars, KeepThreads
  <2> QED
    BY <1>1, <2>1, StartKeeps
<1> QED
  BY <1>2, <1>3

\* The script after a turn of a loop.
LEMMA LoopTodo ==
    ASSUME UseInv,
           \/ EnterLoop \/ Wake \/ RenderDtn \/ RenderPtp \/ Second \/ CmcWake
           \/ SendTrigger \/ ArmHandover \/ CheckTimeout \/ DeclareTimeout \/ PollHandover
    PROVE  todo' \in {todo, <<>>, StopOf[app]}
<1>1. ASSUME NextSecond PROVE todo' \in {todo, <<>>, StopOf[app]}
  BY <1>1 DEF NextSecond
<1>2. ASSUME app = "cmc", Quit PROVE todo' \in {todo, <<>>, StopOf[app]}
  BY <1>2 DEF Quit, StopOf
<1>3. CASE EnterLoop
  BY <1>1, <1>3 DEF EnterLoop
<1>4. CASE Wake
  BY <1>1, <1>4 DEF Wake, WakeWith
<1>5. CASE RenderDtn \/ ArmHandover \/ CheckTimeout \/ DeclareTimeout
  BY <1>5 DEF RenderDtn, ArmHandover, CheckTimeout, DeclareTimeout
<1>6. CASE RenderPtp
  BY <1>1, <1>6 DEF RenderPtp
<1>7. CASE Second
  BY <1>7 DEF Second, mainvars
<1>8. CASE CmcWake
  BY <1>1, <1>8 DEF CmcWake
<1>9. CASE SendTrigger
  <2>1. app = "cmc"
    BY <1>9 DEF SendTrigger, UseInv, HandoverIsCmc
  <2> QED
    BY <1>2, <1>9, <2>1 DEF SendTrigger
<1>10. CASE PollHandover
  <2>1. app = "cmc"
    BY <1>10 DEF PollHandover, UseInv, HandoverIsCmc
  <2> QED
    BY <1>1, <1>2, <1>10, <2>1 DEF PollHandover
<1> QED
  BY <1>3, <1>4, <1>5, <1>6, <1>7, <1>8, <1>9, <1>10

\* The loops, as far as they concern what is held: they go on, or end.
LEMMA LoopKeeps ==
    ASSUME UseInv,
           \/ EnterLoop \/ Wake \/ RenderDtn \/ RenderPtp \/ Second \/ CmcWake
           \/ SendTrigger \/ ArmHandover \/ CheckTimeout \/ DeclareTimeout \/ PollHandover
    PROVE  UseInv'
<1>1. UNCHANGED <<app, on, held, life, launch_failed>>
  BY DEF EnterLoop, Wake, WakeWith, RenderDtn, RenderPtp, Second, CmcWake, SendTrigger,
         ArmHandover, CheckTimeout, DeclareTimeout, PollHandover, appvars, resources
<1>2. todo' \in {todo, <<>>, StopOf[app]}
  BY LoopTodo
<1>3. HandoverIsCmc'
  <2>1. NextSecond \/ Quit => pc' \in {"run", "sleep"}
    BY DEF NextSecond, Quit
  <2>2. \/ pc' \in {"run", "sleep", "render", "renderPtp"} \/ pc' = pc
        \/ pc \in {"trigger", "arm", "check", "timeout", "poll"} \/ app = "cmc"
    BY <2>1 DEF EnterLoop, Wake, WakeWith, RenderDtn, RenderPtp, Second, CmcWake,
                SendTrigger, ArmHandover, CheckTimeout, DeclareTimeout, PollHandover, mainvars
  <2> QED
    BY <1>1, <2>2 DEF UseInv, HandoverIsCmc
<1> QED
  BY <1>1, <1>2, <1>3, TurnKeeps

\* The steps that end the application, one after the other.
LEMMA EndingKeeps ==
    ASSUME UseInv,
           \/ Dump \/ StopPtp \/ JoinPtp \/ JoinHealth \/ JoinRaw \/ WaitLcores \/ Flush
           \/ StopPsuTelemetry \/ FinalizeHandover \/ CleanupPtp \/ CleanupHealth
           \/ CleanupPrbs \/ CleanupPorts \/ CleanupEal \/ CleanupRaw \/ Exit
    PROVE  UseInv'
<1>1. StopSteps \subseteq Step \ Basic
  BY DEF Step, StopSteps, Basic
<1>2. ASSUME NEW step \in StopSteps, NEW threads, Join(step, threads),
             \A t \in Thread : JoinOf[t] = step => t \in threads
      PROVE  UseInv'
  <2>1. /\ At(step) /\ Done /\ UNCHANGED <<app, on, held, life, launch_failed>>
        /\ \A t \in threads : life[t] # "running"
    BY <1>2 DEF Join, Joined, appvars, resources
  <2> QED
    BY <1>1, <1>2, <2>1, SkipKeeps
<1>3. /\ \A t \in Thread : JoinOf[t] = "ptpJoin" => t \in {"ptp"}
      /\ \A t \in Thread : JoinOf[t] = "healthJoin" => t \in {"health"}
      /\ \A t \in Thread : JoinOf[t] = "flush" => t \in {"raw"}
      /\ \A t \in Thread : JoinOf[t] = "join" => t \in {"rx", "tx", "ext"}
      /\ \A t \in Thread : JoinOf[t] \notin {"rawJoin", "dump", "ptpStop", "mmms", "exit"}
      /\ {"ptpJoin", "healthJoin", "flush", "join", "rawJoin", "dump", "ptpStop", "mmms",
          "exit"} \subseteq StopSteps
  BY DEF JoinOf, Thread, StopSteps
<1>4. CASE JoinPtp
  BY <1>2, <1>3, <1>4 DEF JoinPtp
<1>5. CASE JoinHealth
  BY <1>2, <1>3, <1>5 DEF JoinHealth
<1>6. CASE JoinRaw
  BY <1>2, <1>3, <1>6 DEF JoinRaw
<1>7. CASE WaitLcores
  BY <1>2, <1>3, <1>7 DEF WaitLcores
<1>8. CASE Flush
  BY <1>2, <1>3, <1>8 DEF Flush
<1>9. CASE StopPsuTelemetry
  BY <1>9, StopTelemetryKeeps
<1>10. CASE Dump
  <2>1. At("dump") /\ Done /\ UNCHANGED <<app, on, held, life, launch_failed>>
    BY <1>10 DEF Dump, appvars, resources
  <2> QED
    BY <1>1, <1>3, <2>1, SkipKeeps
<1>11. CASE StopPtp
  <2>1. At("ptpStop") /\ Done /\ UNCHANGED <<app, on, held, life, launch_failed>>
    BY <1>11 DEF StopPtp, appvars, resources
  <2> QED
    BY <1>1, <1>3, <2>1, SkipKeeps
<1>12. CASE FinalizeHandover
  <2>1. At("mmms") /\ Done /\ UNCHANGED <<app, on, held, life, launch_failed>>
    BY <1>12 DEF FinalizeHandover, appvars, resources
  <2> QED
    BY <1>1, <1>3, <2>1, SkipKeeps
<1>13. CASE \/ CleanupPtp \/ CleanupHealth \/ CleanupPrbs \/ CleanupPorts \/ CleanupEal
            \/ CleanupRaw
  <2>1. PICK step \in FreeSteps, r \in Resource \cup {"none"} : r # "psu" /\ Free(step, r)
    <3>1. {"ptpFree", "healthFree", "rawFree", "prbsFree", "portsFree", "ealFree"}
              \subseteq FreeSteps
      BY DEF FreeSteps
    <3>2. {"ptp", "health", "raw", "prbs", "ports", "eal", "none"}
              \subseteq (Resource \cup {"none"}) \ {"psu"}
      BY DEF Resource
    <3>3. CASE CleanupRaw
      <4>1. PICK r \in {"raw", "none"} : Free("rawFree", r)
        BY <3>3 DEF CleanupRaw
      <4> QED
        BY <3>1, <3>2, <4>1
    <3>4. CASE ~CleanupRaw
      BY <1>13, <3>1, <3>2, <3>4
      DEF CleanupPtp, CleanupHealth, CleanupPrbs, CleanupPorts, CleanupEal
    <3> QED
      BY <3>3, <3>4
  <2> QED
    BY <2>1, FreeKeeps
<1>14. CASE Exit
  <2>1. /\ UNCHANGED <<app, on, held, life, launch_failed>>
        /\ todo' = <<>> /\ pc' = "exited"
    BY <1>14 DEF Exit, appvars, resources
  <2>2. HandoverIsCmc'
    BY <2>1 DEF HandoverIsCmc
  <2> QED
    BY <2>1, <2>2, TurnKeeps
<1> QED
  BY <1>4, <1>5, <1>6, <1>7, <1>8, <1>9, <1>10, <1>11, <1>12, <1>13, <1>14

\* The threads, the device, the operator.
LEMMA OthersKeep ==
    ASSUME UseInv,
           \/ \E t \in Thread : Leave(t)
           \/ ListenerFails \/ StoreHealth \/ HsnBuild \/ HsnPush \/ QueueBlocks
           \/ DeviceDelivers \/ DeviceLoses \/ Signal \/ UNCHANGED vars
    PROVE  UseInv'
<1>1. ASSUME UNCHANGED usevars PROVE UseInv'
  <2>1. HandoverIsCmc' /\ todo' = todo
    BY <1>1 DEF usevars, UseInv, HandoverIsCmc
  <2> QED
    BY <1>1, <2>1, TurnKeeps DEF usevars
<1>2. ASSUME NEW t \in Thread, Leave(t) PROVE UseInv'
  BY <1>2, EndKeeps DEF Leave, appvars, mainvars
<1>3. ASSUME ListenerFails PROVE UseInv'
  <2>1. "psu" \in Thread
    BY DEF Thread
  <2> QED
    BY <1>3, <2>1, EndKeeps DEF ListenerFails, appvars, mainvars
<1>4. ASSUME \/ StoreHealth \/ HsnBuild \/ HsnPush \/ QueueBlocks
             \/ DeviceDelivers \/ DeviceLoses \/ Signal \/ UNCHANGED vars
      PROVE  UNCHANGED usevars
  BY <1>4 DEF StoreHealth, HsnBuild, HsnPush, QueueBlocks, DeviceDelivers, DeviceLoses, Signal,
              vars, usevars, appvars, mainvars, resources
<1> QED
  BY <1>1, <1>2, <1>3, <1>4

\* It holds at the start: no thread, everything ahead.
LEMMA UseInvInit == Init => UseInv
<1> SUFFICES ASSUME Init PROVE UseInv
  OBVIOUS
<1>1. /\ app \in App /\ todo = StartOf[app] /\ on = {} /\ held = {} /\ pc = "run"
      /\ life = [t \in Thread |-> "none"]
  BY DEF Init
<1>2. Opens(todo, app)
  BY <1>1, StartsOpen
<1>3. Len(todo) >= 4 /\ todo[1] = "eal" /\ todo[2] = "ports" /\ todo[3] = "prbs"
  <2>1. /\ Len(DtnStart) >= 4 /\ DtnStart[1] = "eal" /\ DtnStart[2] = "ports"
        /\ DtnStart[3] = "prbs"
    BY DEF DtnStart, DtnSetUp, DtnWorkers
  <2>2. /\ Len(CmcStart) >= 4 /\ CmcStart[1] = "eal" /\ CmcStart[2] = "ports"
        /\ CmcStart[3] = "prbs"
    BY DEF CmcStart
  <2>3. /\ Len(VmcStart) >= 4 /\ VmcStart[1] = "eal" /\ VmcStart[2] = "ports"
        /\ VmcStart[3] = "prbs"
    BY DEF VmcStart
  <2>4. /\ Len(HsnStart) >= 4 /\ HsnStart[1] = "eal" /\ HsnStart[2] = "ports"
        /\ HsnStart[3] = "prbs"
    BY DEF HsnStart
  <2>5. todo \in {DtnStart, CmcStart, VmcStart, HsnStart}
    BY <1>1 DEF App, StartOf
  <2>6. CASE todo = DtnStart
    BY <2>1, <2>6
  <2>7. CASE todo = CmcStart
    BY <2>2, <2>7
  <2>8. CASE todo = VmcStart
    BY <2>3, <2>8
  <2>9. CASE todo = HsnStart
    BY <2>4, <2>9
  <2> QED
    BY <2>5, <2>6, <2>7, <2>8, <2>9
<1>4. \A r \in Basic : Ahead(todo, r)
  <2>1. 1 \in 1..Len(todo) /\ 2 \in 1..Len(todo) /\ 3 \in 1..Len(todo)
    BY <1>2, <1>3 DEF Opens
  <2> QED
    BY <1>3, <2>1 DEF Ahead, Basic
<1>5. Starting
  BY <1>2, <1>3 DEF Starting, StartSteps, Opens
<1>6. InOrder
  BY <1>1, <1>2 DEF InOrder, Life
<1>7. HandoverIsCmc
  BY <1>1 DEF HandoverIsCmc
<1> QED
  BY <1>1, <1>4, <1>5, <1>6, <1>7
  DEF UseInv, StartsWhole, StopsWaiting, OnlyItsThreads, NothingFreedInUse

\* Every step preserves it.
LEMMA UseInvNext == UseInv /\ [Next]_vars => UseInv'
<1> SUFFICES ASSUME UseInv, [Next]_vars PROVE UseInv'
  OBVIOUS
<1>1. CASE InitializeEal \/ InitializePorts \/ InitPortTxrx \/ HsnSetupPort \/ InitPrbsCache
  BY <1>1, AcquireKeeps
<1>2. CASE InitRawSocketPorts \/ ExtTxInit
  BY <1>2, OptionalKeeps
<1>3. CASE \/ LaunchRx \/ LaunchTx \/ StartRawSocketWorkers
           \/ StartHealthMonitor \/ StartExtTxWorkers \/ StartPtp \/ StartPsuTelemetry
  BY <1>3, LaunchKeeps
<1>4. CASE \/ EnterLoop \/ Wake \/ RenderDtn \/ RenderPtp \/ Second \/ CmcWake
           \/ SendTrigger \/ ArmHandover \/ CheckTimeout \/ DeclareTimeout \/ PollHandover
  BY <1>4, LoopKeeps
<1>5. CASE \/ Dump \/ StopPtp \/ JoinPtp \/ JoinHealth \/ JoinRaw \/ WaitLcores \/ Flush
           \/ StopPsuTelemetry \/ FinalizeHandover \/ CleanupPtp \/ CleanupHealth
           \/ CleanupPrbs \/ CleanupPorts \/ CleanupEal \/ CleanupRaw \/ Exit
  BY <1>5, EndingKeeps
<1>6. CASE \/ \E t \in Thread : Leave(t)
           \/ ListenerFails \/ StoreHealth \/ HsnBuild \/ HsnPush \/ QueueBlocks
           \/ DeviceDelivers \/ DeviceLoses \/ Signal \/ UNCHANGED vars
  BY <1>6, OthersKeep
<1> QED
  BY <1>1, <1>2, <1>3, <1>4, <1>5, <1>6 DEF Next, Main

\* Nothing is freed in use: the scripts of the four main threads acquire what the
\* threads use before they start one and wait for each thread before they free, with
\* the failures in between; a launch that fails in three of them is the exception
\* the property names.
THEOREM NothingFreedHolds == Spec => []NothingFreedInUse
<1>1. UseInv => NothingFreedInUse
  BY DEF UseInv
<1> QED
  BY <1>1, UseInvInit, UseInvNext, PTL DEF Spec

-----------------------------------------------------------------------------
(* The summary.                                                            *)

Slots == [dtn : Nat, ptp : Nat, health : Nat]
Dumped == [slot : Slots, note : Nat]
Test == [sec : Nat, time : Nat, warm : BOOLEAN, asked : Nat]
Snap == [slot : Slots, frozen : BOOLEAN, dump : Seq(Dumped)]

SnapTypes ==
    /\ test \in Test /\ snap \in Snap /\ ate \in BOOLEAN
    /\ force_quit \in BOOLEAN
    /\ pc # "run" => todo = <<>>

\* The tables show the second n, or the one before it when n ended the warm-up.
Shows(n) ==
    /\ snap.slot.dtn = n \/ (snap.slot.dtn + 1 = n /\ n = WarmUp)
    /\ ~ate => snap.slot.ptp = snap.slot.dtn

\* The last second that may have been stored.
Latest == IF snap.frozen THEN test.sec - 1 ELSE test.sec

\* What the dump is going to be, or was, about the request.
Tells(slot, note) ==
    /\ slot.dtn \in {test.asked - 1, test.asked} /\ slot.health <= test.asked
    /\ ~ate => slot.ptp = slot.dtn
    /\ note <= slot.dtn + 1 + (IF WarmUp \in (slot.dtn + 1)..note THEN 1 ELSE 0)

SnapInv ==
    /\ snap.frozen => force_quit
    /\ force_quit => test.asked = Latest
    /\ snap.slot.health <= Latest
    /\ Starting => test.sec = 0 /\ ~snap.frozen /\ snap.slot.dtn = 0 /\ snap.slot.ptp = 0
    /\ pc = "sleep" => ~snap.frozen /\ Shows(test.sec)
    /\ pc = "render" /\ snap.frozen => Shows(Latest)
    /\ pc = "renderPtp" => IF snap.frozen THEN Shows(Latest) ELSE snap.slot.dtn = test.sec
    /\ Ahead(todo, "dump") => force_quit /\ Tells(snap.slot, test.sec)
    /\ snap.dump # <<>> => force_quit /\ Tells(snap.dump[1].slot, snap.dump[1].note)

SummaryInv ==
    /\ SnapTypes
    /\ IF app = "dtn" THEN SnapInv ELSE snap.dump = <<>> /\ ~Ahead(todo, "dump")

\* A script's step that neither shows nor stores anything.
QuietStep ==
    \/ InitializeEal \/ InitializePorts \/ InitPortTxrx \/ HsnSetupPort \/ InitPrbsCache
    \/ InitRawSocketPorts \/ ExtTxInit \/ LaunchRx \/ LaunchTx
    \/ StartRawSocketWorkers \/ StartHealthMonitor \/ StartExtTxWorkers \/ StartPtp
    \/ StartPsuTelemetry
    \/ StopPtp \/ JoinPtp \/ JoinHealth \/ JoinRaw \/ WaitLcores \/ Flush
    \/ StopPsuTelemetry \/ FinalizeHandover \/ CleanupPtp \/ CleanupHealth
    \/ CleanupPrbs \/ CleanupPorts \/ CleanupEal \/ CleanupRaw \/ Exit

\* How the main thread goes on in its script.
GoesOn ==
    /\ pc = "run" /\ todo # <<>> /\ pc' \in {"run", "exited"}
    /\ pc' = "exited" => todo' = <<>>
    /\ \/ todo' \in {<<>>, Tail(todo)}
       \/ \E step \in {"eal", "ports", "queues", "rx", "tx"} : todo' = OnFailure(step)

\* Such a step leaves the tables alone, and tells no one to stop but in the HSN
\* application.
LEMMA QuietStepIs ==
    ASSUME QuietStep, force_quit \in BOOLEAN
    PROVE  /\ UNCHANGED <<app, ate, test, snap>> /\ GoesOn
           /\ force_quit' \in BOOLEAN
           /\ app # "hsn" => force_quit' = force_quit
           /\ UNCHANGED <<mmms, device>> \/ FinalizeHandover
<1> DEFINE Quiet == UNCHANGED <<app, ate, test, snap, force_quit, mmms, device>>
           Taken == pc = "run" /\ todo # <<>> /\ pc' = pc /\ todo' = Tail(todo)
<1>1. ASSUME Quiet, Taken
      PROVE  /\ UNCHANGED <<app, ate, test, snap>> /\ GoesOn
             /\ force_quit' \in BOOLEAN
             /\ app # "hsn" => force_quit' = force_quit
             /\ UNCHANGED <<mmms, device>>
  BY <1>1 DEF GoesOn
<1>2. CASE InitializeEal \/ InitializePorts \/ InitPortTxrx \/ HsnSetupPort
  <2>1. PICK step \in {"eal", "ports", "queues"} : Acquire(step)
    BY <1>2 DEF InitializeEal, InitializePorts, InitPortTxrx, HsnSetupPort
  <2>2. Quiet /\ At(step) /\ (Done \/ Fail(step))
    BY <2>1 DEF Acquire, appvars, flags, loopvars
  <2> QED
    BY <2>2 DEF GoesOn, At, Done, Fail
<1>3. CASE LaunchRx \/ LaunchTx
  <2>1. PICK t \in {"rx", "tx"} : LaunchWorkers(t)
    BY <1>3 DEF LaunchRx, LaunchTx
  <2>2. UNCHANGED <<app, ate, test, snap, mmms, device>> /\ At(t) /\ (Done \/ Fail(t))
    BY <2>1 DEF LaunchWorkers, appvars, loopvars
  <2>3. force_quit' = force_quit \/ force_quit' = (force_quit \/ app = "hsn")
    BY <2>1 DEF LaunchWorkers
  <2>4. force_quit' \in BOOLEAN /\ (app # "hsn" => force_quit' = force_quit)
    BY <2>3
  <2> QED
    BY <2>2, <2>4 DEF GoesOn, At, Done, Fail
<1>4. CASE InitPrbsCache \/ InitRawSocketPorts \/ ExtTxInit
  <2>1. Quiet
    BY <1>4 DEF InitPrbsCache, InitRawSocketPorts, ExtTxInit, appvars, flags, loopvars
  <2>2. Taken
    BY <1>4 DEF InitPrbsCache, InitRawSocketPorts, ExtTxInit, At, Done
  <2> QED
    BY <1>1, <2>1, <2>2
<1>5. CASE StartRawSocketWorkers \/ StartHealthMonitor \/ StartExtTxWorkers
  <2>1. Quiet
    BY <1>5 DEF StartRawSocketWorkers, StartHealthMonitor, StartExtTxWorkers, appvars, flags,
                loopvars
  <2>2. Taken
    BY <1>5 DEF StartRawSocketWorkers, StartHealthMonitor, StartExtTxWorkers, At, Done
  <2> QED
    BY <1>1, <2>1, <2>2
<1>6. CASE StartPtp \/ StartPsuTelemetry
  <2>1. Quiet
    BY <1>6 DEF StartPtp, PtpInit, PtpStart, StartPsuTelemetry, appvars, flags, loopvars
  <2>2. Taken
    BY <1>6 DEF StartPtp, PtpInit, PtpStart, StartPsuTelemetry, At, Done
  <2> QED
    BY <1>1, <2>1, <2>2
<1>7. CASE StopPtp \/ JoinPtp \/ JoinHealth \/ JoinRaw \/ WaitLcores \/ Flush
  <2>1. Quiet
    BY <1>7 DEF StopPtp, JoinPtp, JoinHealth, JoinRaw, WaitLcores, Flush, Join, appvars, flags,
                loopvars
  <2>2. Taken
    BY <1>7 DEF StopPtp, JoinPtp, JoinHealth, JoinRaw, WaitLcores, Flush, Join, At, Done
  <2> QED
    BY <1>1, <2>1, <2>2
<1>8. CASE StopPsuTelemetry
  <2>1. Quiet
    BY <1>8 DEF StopPsuTelemetry, appvars, flags, loopvars
  <2>2. Taken
    BY <1>8 DEF StopPsuTelemetry, At, Done
  <2> QED
    BY <1>1, <2>1, <2>2
<1>9. CASE CleanupPtp \/ CleanupHealth \/ CleanupPrbs \/ CleanupPorts \/ CleanupEal
           \/ CleanupRaw
  <2>1. Quiet
    BY <1>9 DEF CleanupPtp, CleanupHealth, CleanupPrbs, CleanupPorts, CleanupEal, CleanupRaw,
                Free, appvars, flags, loopvars
  <2>2. Taken
    BY <1>9 DEF CleanupPtp, CleanupHealth, CleanupPrbs, CleanupPorts, CleanupEal, CleanupRaw,
                Free, At, Done
  <2> QED
    BY <1>1, <2>1, <2>2
<1>10. CASE Exit
  <2>1. Quiet
    BY <1>10 DEF Exit, appvars, flags, loopvars
  <2>2. GoesOn
    BY <1>10 DEF Exit, At, GoesOn
  <2> QED
    BY <2>1, <2>2
<1>11. CASE FinalizeHandover
  <2>1. UNCHANGED <<app, ate, test, snap, force_quit>>
    BY <1>11 DEF FinalizeHandover, appvars, flags
  <2>2. Taken
    BY <1>11 DEF FinalizeHandover, At, Done
  <2> QED
    BY <1>11, <2>1, <2>2 DEF GoesOn
<1> QED
  BY <1>2, <1>3, <1>4, <1>5, <1>6, <1>7, <1>8, <1>9, <1>10, <1>11 DEF QuietStep

\* Only the DTN application dumps, and only when its loop has ended.
LEMMA DumpIsDtns ==
    /\ \A a \in App \ {"dtn"} : ~Ahead(StopOf[a], "dump")
    /\ \A step \in {"eal", "ports", "queues", "rx", "tx"} : ~Ahead(OnFailure(step), "dump")
    /\ ~Ahead(<<>>, "dump")
<1>1. /\ \A i \in 1..Len(CmcStop) : CmcStop[i] # "dump"
      /\ \A i \in 1..Len(VmcStop) : VmcStop[i] # "dump"
      /\ \A i \in 1..Len(HsnStop) : HsnStop[i] # "dump"
      /\ \A i \in 1..Len(FreeAll) : FreeAll[i] # "dump"
      /\ \A i \in 1..Len(<<"exit">>) : <<"exit">>[i] # "dump"
      /\ \A i \in 1..Len(<<"ealFree", "exit">>) : <<"ealFree", "exit">>[i] # "dump"
  BY DEF CmcStop, VmcStop, HsnStop, FreeAll
<1>2. \A step \in {"eal", "ports", "queues", "rx", "tx"} :
          OnFailure(step) \in {<<"exit">>, <<"ealFree", "exit">>, FreeAll, HsnStop}
  BY DEF OnFailure
<1>3. \A a \in App \ {"dtn"} : StopOf[a] \in {CmcStop, VmcStop, HsnStop}
  BY DEF App, StopOf
<1>4. /\ ~Ahead(CmcStop, "dump") /\ ~Ahead(VmcStop, "dump") /\ ~Ahead(HsnStop, "dump")
      /\ ~Ahead(FreeAll, "dump")
  BY <1>1 DEF Ahead
<1>5. ~Ahead(<<"exit">>, "dump") /\ ~Ahead(<<"ealFree", "exit">>, "dump")
  BY <1>1 DEF Ahead
<1>6. ASSUME NEW a \in App \ {"dtn"}
      PROVE  ~Ahead(StopOf[a], "dump")
  BY <1>3, <1>4
<1>7. ASSUME NEW step \in {"eal", "ports", "queues", "rx", "tx"}
      PROVE  ~Ahead(OnFailure(step), "dump")
  <2>1. CASE OnFailure(step) = <<"exit">>
    BY <1>5, <2>1
  <2>2. CASE OnFailure(step) = <<"ealFree", "exit">>
    BY <1>5, <2>2
  <2>3. CASE OnFailure(step) \in {FreeAll, HsnStop}
    BY <1>4, <2>3
  <2> QED
    BY <1>2, <2>1, <2>2, <2>3
<1>8. ~Ahead(<<>>, "dump")
  BY DEF Ahead
<1> QED
  BY <1>6, <1>7, <1>8

\* A script that goes on does not start again, and does not dump twice.
LEMMA ScriptGoesOn ==
    ASSUME UseInv, GoesOn
    PROVE  /\ Starting' => Starting
           /\ Ahead(todo', "dump") => Ahead(todo, "dump")
<1>1. /\ todo \in Seq(Step) /\ Ranked(todo) /\ todo # <<>>
      /\ Head(todo) \in Step /\ At(Head(todo))
  BY DEF UseInv, InOrder, Opens, Closes, GoesOn, At
<1>2. CASE todo' = Tail(todo)
  <2>1. Ahead(Tail(todo), "dump") => Ahead(todo, "dump")
    BY <1>1, TailOfScript
  <2>2. Head(todo) \in StopSteps => Closes(Tail(todo))
    BY <1>1, PlaceOf DEF UseInv
  <2> QED
    BY <1>1, <1>2, <2>1, <2>2, ClosedIsNotStarting DEF Starting, Step
<1>3. CASE todo' = <<>>
  BY <1>3, DumpIsDtns DEF Starting
<1>4. CASE \E step \in {"eal", "ports", "queues", "rx", "tx"} : todo' = OnFailure(step)
  BY <1>4, DumpIsDtns, FailuresClose, ClosedIsNotStarting DEF Starting
<1> QED
  BY <1>2, <1>3, <1>4 DEF GoesOn

\* shutdown_snapshot_store.
LEMMA StoreIs ==
    ASSUME SnapTypes, NEW x \in {"dtn", "ptp", "health"}
    PROVE  /\ Store(x) \in Snap /\ Store(x).dump = snap.dump /\ Store(x).frozen = snap.frozen
           /\ snap.frozen => Store(x) = snap
           /\ ~snap.frozen =>
                  \A y \in {"dtn", "ptp", "health"} :
                      Store(x).slot[y] = IF y = x THEN test.sec ELSE snap.slot[y]
<1>1. /\ snap \in Snap /\ snap.slot \in Slots /\ test.sec \in Nat
  BY DEF SnapTypes, Snap, Test
<1>2. CASE snap.frozen
  BY <1>1, <1>2 DEF Store
<1>3. CASE ~snap.frozen
  <2>1. Store(x) = [snap EXCEPT !.slot[x] = test.sec]
    BY <1>3 DEF Store
  <2>2. [snap.slot EXCEPT ![x] = test.sec] \in Slots
    BY <1>1 DEF Slots
  <2>3. /\ Store(x) \in Snap /\ Store(x).slot = [snap.slot EXCEPT ![x] = test.sec]
        /\ Store(x).dump = snap.dump /\ Store(x).frozen = snap.frozen
    BY <1>1, <2>1, <2>2 DEF Snap
  <2>4. \A y \in {"dtn", "ptp", "health"} :
            Store(x).slot[y] = IF y = x THEN test.sec ELSE snap.slot[y]
    BY <1>1, <2>3 DEF Slots
  <2> QED
    BY <1>3, <2>3, <2>4
<1> QED
  BY <1>2, <1>3

\* What a step does to its part of the state is of the right type, whatever the
\* application.
LEMMA SnapTypesKept ==
    ASSUME UseInv, SnapTypes, [Next]_vars
    PROVE  SnapTypes'
<1>1. /\ test \in Test /\ snap \in Snap /\ ate \in BOOLEAN /\ force_quit \in BOOLEAN
      /\ pc # "run" => todo = <<>>
  BY DEF SnapTypes
<1>2. ASSUME NextSecond PROVE pc' # "run" => todo' = <<>>
  BY <1>2 DEF NextSecond
<1>3. CASE QuietStep
  BY <1>1, <1>3, QuietStepIs DEF SnapTypes, GoesOn
<1>4. CASE EnterLoop
  BY <1>1, <1>2, <1>4 DEF EnterLoop, appvars, flags, loopvars, SnapTypes
<1>5. CASE Wake
  <2>1. /\ snap' = [snap EXCEPT !.frozen = snap.frozen \/ force_quit]
        /\ UNCHANGED <<ate, force_quit>> /\ pc = "sleep"
    BY <1>5 DEF Wake, WakeWith, appvars, flags
  <2>2. snap' \in Snap
    BY <1>1, <2>1 DEF Snap
  <2>3. \/ test' = [test EXCEPT !.sec = @ + 1, !.warm = TRUE]
        \/ test' = [test EXCEPT !.sec = @ + 1, !.time = IF test.warm THEN @ + 1 ELSE @]
    BY <1>5 DEF Wake, WakeWith
  <2>4. test' \in Test
    <3>1. PICK time \in Nat : time = IF test.warm THEN test.time + 1 ELSE test.time
      BY <1>1 DEF Test
    <3>2. PICK sec \in Nat : sec = test.sec + 1
      BY <1>1 DEF Test
    <3>3. \/ test' = [test EXCEPT !.sec = sec, !.warm = TRUE]
          \/ test' = [test EXCEPT !.sec = sec, !.time = time]
      BY <2>3, <3>1, <3>2
    <3>4. CASE test' = [test EXCEPT !.sec = sec, !.warm = TRUE]
      BY <1>1, <3>4 DEF Test
    <3>5. CASE test' = [test EXCEPT !.sec = sec, !.time = time]
      BY <1>1, <3>5 DEF Test
    <3> QED
      BY <3>3, <3>4, <3>5
  <2>5. pc' # "run" => todo' = <<>>
    BY <1>1, <1>2, <1>5, <2>1 DEF Wake, WakeWith
  <2> QED
    BY <1>1, <2>1, <2>2, <2>4, <2>5 DEF SnapTypes
<1>6. CASE RenderDtn
  BY <1>1, <1>6, StoreIs DEF RenderDtn, appvars, flags, SnapTypes
<1>7. CASE RenderPtp
  <2>1. snap' \in Snap /\ UNCHANGED <<ate, test, force_quit>> /\ NextSecond
    BY <1>1, <1>7, StoreIs DEF RenderPtp, appvars, flags
  <2> QED
    BY <1>1, <1>2, <2>1 DEF SnapTypes
<1>8. CASE StoreHealth
  BY <1>1, <1>8, StoreIs DEF StoreHealth, appvars, mainvars, flags, SnapTypes
<1>9. CASE Dump
  <2>1. /\ snap' = [snap EXCEPT !.dump = <<[slot |-> snap.slot, note |-> test.sec]>>]
        /\ UNCHANGED <<ate, test, force_quit>> /\ pc' = "run"
    BY <1>9 DEF Dump, appvars, flags, At, Done
  <2>2. [slot |-> snap.slot, note |-> test.sec] \in Dumped
    BY <1>1 DEF Snap, Test, Dumped
  <2>3. <<[slot |-> snap.slot, note |-> test.sec]>> \in Seq(Dumped)
    BY <2>2
  <2>4. snap' \in Snap
    BY <1>1, <2>1, <2>3 DEF Snap
  <2> QED
    BY <1>1, <2>1, <2>4 DEF SnapTypes
<1>10. CASE Second
  <2>1. UNCHANGED <<ate, test, snap>> /\ force_quit' \in BOOLEAN
    BY <1>1, <1>10 DEF Second, appvars, loopvars
  <2>2. pc' # "run" => todo' = <<>>
    BY <1>1, <1>10 DEF Second, mainvars
  <2> QED
    BY <1>1, <2>1, <2>2 DEF SnapTypes
<1>11. CASE CmcWake
  <2>1. UNCHANGED <<ate, test, snap, force_quit>> /\ pc = "sleep"
    BY <1>11 DEF CmcWake, appvars, flags
  <2>2. pc' # "run" => todo' = <<>>
    BY <1>1, <1>2, <1>11, <2>1 DEF CmcWake
  <2> QED
    BY <1>1, <2>1, <2>2 DEF SnapTypes
<1>12. CASE SendTrigger \/ PollHandover
  <2>1. UNCHANGED <<ate, test, snap>> /\ pc # "run"
    BY <1>12 DEF SendTrigger, PollHandover, appvars, loopvars
  <2>2. force_quit' \in {force_quit, TRUE}
    BY <1>12 DEF SendTrigger, PollHandover, Quit
  <2>3. pc' # "run" => todo' = <<>>
    BY <1>1, <1>2, <1>12, <2>1 DEF SendTrigger, PollHandover, Quit
  <2> QED
    BY <1>1, <2>1, <2>2, <2>3 DEF SnapTypes
<1>13. CASE ArmHandover \/ CheckTimeout \/ DeclareTimeout
  <2>1. UNCHANGED <<ate, test, snap, force_quit, todo>> /\ pc # "run"
    BY <1>13 DEF ArmHandover, CheckTimeout, DeclareTimeout, appvars, flags, loopvars
  <2> QED
    BY <1>1, <2>1 DEF SnapTypes
<1>14. CASE Signal
  <2>1. UNCHANGED <<ate, snap, pc, todo>> /\ force_quit' \in {force_quit, TRUE}
    BY <1>14 DEF Signal, appvars, mainvars
  <2>2. test' \in Test
    BY <1>1, <1>14 DEF Signal, Test
  <2> QED
    BY <1>1, <2>1, <2>2 DEF SnapTypes
<1>15. CASE \/ \E t \in Thread : Leave(t)
            \/ ListenerFails \/ HsnBuild \/ HsnPush \/ QueueBlocks \/ DeviceDelivers
            \/ DeviceLoses \/ UNCHANGED vars
  <2>1. UNCHANGED <<ate, test, snap, force_quit, pc, todo>>
    BY <1>15 DEF Leave, ListenerFails, HsnBuild, HsnPush, QueueBlocks, DeviceDelivers,
                 DeviceLoses, vars, appvars, mainvars, flags, loopvars
  <2> QED
    BY <1>1, <2>1 DEF SnapTypes
<1> QED
  BY <1>3, <1>4, <1>5, <1>6, <1>7, <1>8, <1>9, <1>10, <1>11, <1>12, <1>13, <1>14, <1>15
  DEF Next, Main, QuietStep

\* No step changes which application it is.
LEMMA AppStays == [Next]_vars => app' = app
<1> SUFFICES ASSUME [Next]_vars PROVE app' = app
  OBVIOUS
<1>1. CASE QuietStep \/ Dump
  <2>1. CASE \/ InitializeEal \/ InitializePorts \/ InitPortTxrx \/ HsnSetupPort
             \/ InitPrbsCache \/ InitRawSocketPorts \/ ExtTxInit \/ LaunchRx \/ LaunchTx
    BY <2>1 DEF InitializeEal, InitializePorts, InitPortTxrx, HsnSetupPort, Acquire,
                InitPrbsCache, InitRawSocketPorts, ExtTxInit, LaunchRx, LaunchTx, LaunchWorkers,
                appvars
  <2>2. CASE \/ StartRawSocketWorkers \/ StartHealthMonitor \/ StartExtTxWorkers \/ StartPtp
             \/ StartPsuTelemetry \/ StopPtp \/ StopPsuTelemetry \/ FinalizeHandover \/ Exit
             \/ Dump
    BY <2>2 DEF StartRawSocketWorkers, StartHealthMonitor, StartExtTxWorkers, StartPtp,
                PtpInit, PtpStart,
                StartPsuTelemetry, StopPtp, StopPsuTelemetry, FinalizeHandover, Exit, Dump,
                appvars
  <2>3. CASE JoinPtp \/ JoinHealth \/ JoinRaw \/ WaitLcores \/ Flush
    BY <2>3 DEF JoinPtp, JoinHealth, JoinRaw, WaitLcores, Flush, Join, appvars
  <2>4. CASE \/ CleanupPtp \/ CleanupHealth \/ CleanupPrbs \/ CleanupPorts \/ CleanupEal
             \/ CleanupRaw
    BY <2>4 DEF CleanupPtp, CleanupHealth, CleanupPrbs, CleanupPorts, CleanupEal, CleanupRaw,
                Free, appvars
  <2> QED
    BY <1>1, <2>1, <2>2, <2>3, <2>4 DEF QuietStep
<1>2. CASE \/ EnterLoop \/ Wake \/ RenderDtn \/ RenderPtp \/ Second \/ CmcWake
           \/ SendTrigger \/ ArmHandover \/ CheckTimeout \/ DeclareTimeout \/ PollHandover
  BY <1>2 DEF EnterLoop, Wake, WakeWith, RenderDtn, RenderPtp, Second, CmcWake, SendTrigger,
              ArmHandover, CheckTimeout, DeclareTimeout, PollHandover, appvars
<1>3. CASE \/ \E t \in Thread : Leave(t)
           \/ ListenerFails \/ StoreHealth \/ HsnBuild \/ HsnPush \/ QueueBlocks
           \/ DeviceDelivers \/ DeviceLoses \/ Signal \/ UNCHANGED vars
  BY <1>3 DEF Leave, ListenerFails, StoreHealth, HsnBuild, HsnPush, QueueBlocks,
              DeviceDelivers, DeviceLoses, Signal, vars, appvars
<1> QED
  BY <1>1, <1>2, <1>3 DEF Next, Main, QuietStep

\* The other applications dump nothing.
LEMMA OthersDumpNothing ==
    ASSUME UseInv, SummaryInv, app # "dtn", [Next]_vars
    PROVE  SummaryInv'
<1>1. SnapTypes /\ SnapTypes' /\ snap.dump = <<>> /\ ~Ahead(todo, "dump")
  BY SnapTypesKept DEF SummaryInv
<1>2. app \in App
  BY DEF UseInv, InOrder
<1>3. ~Ahead(StopOf[app], "dump") /\ ~Ahead(<<>>, "dump")
  BY <1>2, DumpIsDtns
<1>4. CASE QuietStep
  BY <1>1, <1>4, QuietStepIs, ScriptGoesOn DEF SummaryInv, SnapTypes
<1>5. CASE Dump
  <2>1. At("dump")
    BY <1>5 DEF Dump
  <2>2. todo \in Seq(Step) /\ todo # <<>> /\ Ranked(todo) /\ Head(todo) = "dump"
    BY <2>1, PlaceOf DEF UseInv, Step, StopSteps
  <2> QED
    BY <1>1, <2>2, TailOfScript
<1>6. CASE \/ EnterLoop \/ Wake \/ RenderDtn \/ RenderPtp \/ Second \/ CmcWake
           \/ SendTrigger \/ ArmHandover \/ CheckTimeout \/ DeclareTimeout \/ PollHandover
  <2>1. app' = app
    BY <1>6 DEF EnterLoop, Wake, WakeWith, RenderDtn, RenderPtp, Second, CmcWake, SendTrigger,
                ArmHandover, CheckTimeout, DeclareTimeout, PollHandover, appvars
  <2>2. snap'.dump = snap.dump
    <3>1. snap \in Snap
      BY <1>1 DEF SnapTypes
    <3>2. CASE RenderDtn \/ RenderPtp
      BY <1>1, <3>2, StoreIs DEF RenderDtn, RenderPtp
    <3>3. CASE Wake
      BY <3>1, <3>3 DEF Wake, WakeWith, Snap
    <3>4. CASE ~Wake /\ ~RenderDtn /\ ~RenderPtp
      BY <1>6, <3>4 DEF EnterLoop, Second, CmcWake, SendTrigger, ArmHandover, CheckTimeout,
                        DeclareTimeout, PollHandover, loopvars
    <3> QED
      BY <3>2, <3>3, <3>4
  <2>3. todo' \in {todo, <<>>, StopOf[app]}
    BY <1>6, LoopTodo
  <2> QED
    BY <1>1, <1>3, <2>1, <2>2, <2>3 DEF SummaryInv
<1>7. CASE \/ \E t \in Thread : Leave(t)
           \/ ListenerFails \/ StoreHealth \/ HsnBuild \/ HsnPush \/ QueueBlocks
           \/ DeviceDelivers \/ DeviceLoses \/ Signal \/ UNCHANGED vars
  <2>1. UNCHANGED <<app, todo>>
    BY <1>7 DEF Leave, ListenerFails, StoreHealth, HsnBuild, HsnPush, QueueBlocks,
                DeviceDelivers, DeviceLoses, Signal, vars, appvars, mainvars
  <2>2. snap' = snap \/ snap' = Store("health")
    BY <1>7 DEF Leave, ListenerFails, StoreHealth, HsnBuild, HsnPush, QueueBlocks,
                DeviceDelivers, DeviceLoses, Signal, vars, loopvars
  <2>3. snap'.dump = snap.dump
    BY <1>1, <2>2, StoreIs
  <2> QED
    BY <1>1, <2>1, <2>3 DEF SummaryInv
<1> QED
  BY <1>4, <1>5, <1>6, <1>7 DEF Next, Main, QuietStep

\* What the DTN application's loop does next: sleep, or the script that stops.
LEMMA TurnIs ==
    ASSUME app = "dtn", NextSecond
    PROVE  /\ pc' \in {"run", "sleep"} /\ ~Starting'
           /\ pc' = "sleep" => ~Ahead(todo', "dump")
           /\ pc' = "run" => force_quit
<1>1. "dtn" \in App
  BY DEF App
<1>2. Closes(StopOf[app])
  BY <1>1, StopsClose
<1> QED
  BY <1>2, ClosedIsNotStarting, DumpIsDtns DEF NextSecond, Starting

\* A step that changes neither the second nor the tables, and starts nothing anew.
LEMMA TablesStay ==
    ASSUME SnapInv, SnapTypes, SnapTypes', UNCHANGED <<ate, test, snap, force_quit>>,
           Starting' => Starting, Ahead(todo', "dump") => Ahead(todo, "dump"),
           pc' = pc \/ pc' = "exited"
    PROVE  SnapInv'
  BY DEF SnapInv, Shows, Latest, Tells

\* sleep(1) returns in the DTN application: the snapshot is frozen when the stop was
\* requested, and the second that ends the warm-up prints no table.
LEMMA WakeTells ==
    ASSUME app = "dtn", UseInv, SnapInv, SnapTypes, SnapTypes', Wake
    PROVE  SnapInv'
<1>1. /\ pc = "sleep" /\ ~snap.frozen /\ Shows(test.sec) /\ todo = <<>>
      /\ UNCHANGED <<app, ate, force_quit>>
  BY DEF Wake, WakeWith, SnapInv, SnapTypes, appvars, flags
<1>2. /\ snap' = [snap EXCEPT !.frozen = snap.frozen \/ force_quit]
      /\ \/ test' = [test EXCEPT !.sec = @ + 1, !.warm = TRUE]
         \/ test' = [test EXCEPT !.sec = @ + 1, !.time = IF test.warm THEN @ + 1 ELSE @]
      /\ \/ test.sec + 1 = WarmUp /\ NextSecond
         \/ pc' = "render" /\ todo' = todo
  BY DEF Wake, WakeWith
<1>3. /\ snap \in Snap /\ snap.slot \in Slots /\ test \in Test /\ force_quit \in BOOLEAN
  BY DEF SnapTypes, Snap
<1>4. /\ snap'.slot = snap.slot /\ snap'.dump = snap.dump
      /\ snap'.frozen = (snap.frozen \/ force_quit)
      /\ test'.sec = test.sec + 1 /\ test'.asked = test.asked
      /\ test.sec \in Nat /\ test.asked \in Nat
      /\ snap.slot.dtn \in Nat /\ snap.slot.ptp \in Nat /\ snap.slot.health \in Nat
  BY <1>2, <1>3 DEF Snap, Slots, Test
<1>5. snap'.frozen <=> force_quit
  BY <1>1, <1>4
<1>6. /\ Latest = test.sec /\ Latest' = IF force_quit THEN test.sec ELSE test.sec + 1
      /\ force_quit => test.asked = test.sec
  BY <1>1, <1>4, <1>5 DEF Latest, SnapInv
<1>7. snap.slot.health <= test.sec
  BY <1>6 DEF SnapInv
<1>8. ~Starting' /\ (Ahead(todo', "dump") => force_quit /\ test.sec + 1 = WarmUp)
  BY <1>1, <1>2, TurnIs, DumpIsDtns DEF Starting, NextSecond
<1>9. pc' = "sleep" => ~force_quit /\ test.sec + 1 = WarmUp
  BY <1>1, <1>2 DEF NextSecond
<1>10. test.sec + 1 = WarmUp => snap.slot.dtn = test.sec /\ Shows(test.sec + 1)
  BY <1>1, <1>4 DEF Shows
<1>11. pc' = "sleep" => ~snap'.frozen /\ Shows(test.sec)'
  <2>1. Shows(test.sec)' <=> Shows(test.sec + 1)
    BY <1>1, <1>4 DEF Shows
  <2> QED
    BY <1>5, <1>9, <1>10, <2>1
<1>12. pc' = "render" /\ snap'.frozen => Shows(Latest)'
  <2>1. \A n : Shows(n) => \A m : m = n => Shows(m)
    OBVIOUS
  <2> QED
    BY <1>1, <1>4, <1>5, <1>6 DEF Shows
<1>13. pc' # "renderPtp"
  BY <1>2 DEF NextSecond
<1>14. Ahead(todo', "dump") => force_quit' /\ Tells(snap.slot, test.sec)'
  <2>1. SUFFICES ASSUME force_quit, test.sec + 1 = WarmUp
                 PROVE  Tells(snap.slot, test.sec)'
    BY <1>1, <1>8
  <2>2. /\ snap.slot.dtn = test.sec /\ test.asked = test.sec
        /\ ~ate => snap.slot.ptp = snap.slot.dtn
    BY <1>1, <1>6, <1>10, <2>1 DEF Shows
  <2>3. WarmUp \in (snap.slot.dtn + 1)..(test.sec + 1)
    BY <1>4, <2>1, <2>2
  <2> QED
    BY <1>1, <1>4, <1>7, <2>2, <2>3 DEF Tells
<1>15. snap'.dump # <<>> =>
           force_quit' /\ Tells(snap.dump[1].slot, snap.dump[1].note)'
  BY <1>1, <1>4 DEF SnapInv, Tells
<1> QED
  BY <1>1, <1>4, <1>5, <1>6, <1>7, <1>8, <1>11, <1>12, <1>13, <1>14, <1>15 DEF SnapInv

\* The tables are rendered, and stored unless the snapshot is frozen.
LEMMA RenderTells ==
    ASSUME app = "dtn", UseInv, SnapInv, SnapTypes, SnapTypes', RenderDtn \/ RenderPtp
    PROVE  SnapInv'
<1>1. /\ UNCHANGED <<app, ate, test, force_quit>> /\ todo = <<>>
      /\ pc \in {"render", "renderPtp"}
  BY DEF RenderDtn, RenderPtp, SnapTypes, appvars, flags
<1>2. /\ snap \in Snap /\ snap.slot \in Slots /\ test \in Test
      /\ test.sec \in Nat /\ test.asked \in Nat
      /\ snap.slot.dtn \in Nat /\ snap.slot.ptp \in Nat /\ snap.slot.health \in Nat
  BY DEF SnapTypes, Snap, Slots, Test
<1>3. CASE RenderDtn
  <2>1. /\ snap' = Store("dtn") /\ pc = "render" /\ pc' = "renderPtp" /\ todo' = todo
    BY <1>3 DEF RenderDtn
  <2>2. ~Starting' /\ ~Ahead(todo', "dump")
    BY <1>1, <2>1, DumpIsDtns DEF Starting
  <2>3. CASE snap.frozen
    <3>1. snap' = snap
      BY <2>1, <2>3, StoreIs
    <3> QED
      BY <1>1, <2>1, <2>2, <2>3, <3>1 DEF SnapInv, Shows, Latest, Tells
  <2>4. CASE ~snap.frozen
    <3>1. /\ snap'.dump = snap.dump /\ ~snap'.frozen
          /\ snap'.slot.dtn = test.sec /\ snap'.slot.health = snap.slot.health
      BY <2>1, <2>4, StoreIs
    <3> QED
      BY <1>1, <1>2, <2>1, <2>2, <2>4, <3>1 DEF SnapInv, Shows, Latest, Tells
  <2> QED
    BY <2>3, <2>4
<1>4. CASE RenderPtp
  <2>1. /\ snap' = (IF ate THEN snap ELSE Store("ptp")) /\ pc = "renderPtp" /\ NextSecond
    BY <1>4 DEF RenderPtp
  <2>2. /\ pc' \in {"run", "sleep"} /\ ~Starting'
        /\ pc' = "sleep" => ~Ahead(todo', "dump") /\ ~force_quit
        /\ pc' = "run" => force_quit
    BY <2>1, TurnIs DEF NextSecond
  <2>3. /\ snap'.dump = snap.dump /\ snap'.frozen = snap.frozen
        /\ snap'.slot.dtn = snap.slot.dtn /\ snap'.slot.health = snap.slot.health
        /\ ~ate => snap'.slot.ptp = IF snap.frozen THEN snap.slot.ptp ELSE test.sec
    BY <1>2, <2>1, StoreIs
  <2>4. CASE snap.frozen
    <3>1. force_quit /\ test.asked = test.sec - 1 /\ Shows(test.sec - 1)
      BY <2>1, <2>4 DEF SnapInv, Latest
    <3>2. /\ snap.slot.dtn \in {test.sec - 1, test.sec - 2}
          /\ snap.slot.dtn = test.sec - 1 \/ WarmUp = test.sec - 1
          /\ ~ate => snap'.slot.ptp = snap'.slot.dtn
      BY <1>2, <2>3, <2>4, <3>1 DEF Shows
    <3>3. Tells(snap.slot, test.sec)'
      <4>1. test.sec <= snap.slot.dtn + 1
                + (IF WarmUp \in (snap.slot.dtn + 1)..test.sec THEN 1 ELSE 0)
        BY <1>2, <3>2
      <4>2. snap.slot.health <= test.asked
        BY <2>4, <3>1 DEF SnapInv, Latest
      <4> QED
        BY <1>1, <1>2, <2>3, <3>1, <3>2, <4>1, <4>2 DEF Tells
    <3>4. snap'.dump # <<>> => force_quit' /\ Tells(snap.dump[1].slot, snap.dump[1].note)'
      BY <1>1, <2>3 DEF SnapInv, Tells
    <3> QED
      BY <1>1, <2>2, <2>3, <2>4, <3>1, <3>3, <3>4 DEF SnapInv, Latest
  <2>5. CASE ~snap.frozen
    <3>1. /\ snap.slot.dtn = test.sec /\ snap.slot.health <= test.sec
          /\ force_quit => test.asked = test.sec
      BY <2>1, <2>5 DEF SnapInv, Latest
    <3>2. Shows(test.sec)'
      BY <1>1, <2>3, <2>5, <3>1 DEF Shows
    <3>3. force_quit => Tells(snap.slot, test.sec)'
      BY <1>1, <1>2, <2>3, <2>5, <3>1 DEF Tells
    <3>4. snap'.dump # <<>> => force_quit' /\ Tells(snap.dump[1].slot, snap.dump[1].note)'
      BY <1>1, <2>3 DEF SnapInv, Tells
    <3> QED
      BY <1>1, <1>2, <2>2, <2>3, <2>5, <3>1, <3>2, <3>3, <3>4 DEF SnapInv, Latest
  <2> QED
    BY <2>4, <2>5
<1> QED
  BY <1>3, <1>4

\* The health monitor stores its tables.
LEMMA HealthTells ==
    ASSUME app = "dtn", SnapInv, SnapTypes, SnapTypes', StoreHealth
    PROVE  SnapInv'
<1>1. /\ UNCHANGED <<app, ate, test, force_quit, pc, todo>> /\ snap' = Store("health")
      /\ test.sec > 0 /\ test.sec \in Nat
  BY DEF StoreHealth, appvars, mainvars, flags, SnapTypes, Test
<1>2. CASE snap.frozen
  <2>1. snap' = snap
    BY <1>1, <1>2, StoreIs
  <2> QED
    BY <1>1, <2>1, TablesStay DEF Starting
<1>3. CASE ~snap.frozen
  <2>1. /\ snap'.dump = snap.dump /\ ~snap'.frozen
        /\ snap'.slot.dtn = snap.slot.dtn /\ snap'.slot.ptp = snap.slot.ptp
        /\ snap'.slot.health = test.sec
    BY <1>1, <1>3, StoreIs
  <2>2. Latest = test.sec /\ Latest' = test.sec
    BY <1>1, <1>3, <2>1 DEF Latest
  <2>3. Starting' => Starting
    BY <1>1 DEF Starting
  <2>4. Ahead(todo, "dump") => Tells(snap.slot, test.sec)'
    BY <1>1, <2>1, <2>2 DEF SnapInv, Tells
  <2>5. snap'.dump # <<>> => force_quit' /\ Tells(snap.dump[1].slot, snap.dump[1].note)'
    BY <1>1, <2>1 DEF SnapInv, Tells
  <2> QED
    BY <1>1, <1>3, <2>1, <2>2, <2>3, <2>4, <2>5 DEF SnapInv, Shows
<1> QED
  BY <1>2, <1>3

\* The operator's signal comes.
LEMMA SignalTells ==
    ASSUME app = "dtn", SnapInv, SnapTypes, SnapTypes', Signal
    PROVE  SnapInv'
<1>1. /\ UNCHANGED <<app, ate, snap, pc, todo>> /\ ~force_quit /\ force_quit'
      /\ test' = [test EXCEPT !.asked = test.sec]
  BY DEF Signal, appvars, mainvars
<1>2. test'.sec = test.sec /\ test'.asked = test.sec
  BY <1>1 DEF SnapTypes, Test
<1>3. ~snap.frozen /\ ~Ahead(todo, "dump") /\ snap.dump = <<>>
  BY <1>1 DEF SnapInv
<1> QED
  BY <1>1, <1>2, <1>3 DEF SnapInv, Shows, Latest, Starting

\* The summary is dumped.
LEMMA DumpTells ==
    ASSUME app = "dtn", UseInv, SnapInv, SnapTypes, SnapTypes', Dump
    PROVE  SnapInv'
<1>1. /\ UNCHANGED <<app, ate, test, force_quit>> /\ At("dump") /\ Done
      /\ snap' = [snap EXCEPT !.dump = <<[slot |-> snap.slot, note |-> test.sec]>>]
  BY DEF Dump, appvars, flags
<1>2. GoesOn
  BY <1>1 DEF GoesOn, At, Done
<1>3. (Starting' => Starting) /\ (Ahead(todo', "dump") => Ahead(todo, "dump"))
  BY <1>2, ScriptGoesOn
<1>4. Ahead(todo, "dump")
  <2>1. todo \in Seq(Step) /\ todo # <<>> /\ Ranked(todo) /\ Head(todo) = "dump"
    BY <1>1, PlaceOf DEF UseInv, Step, StopSteps
  <2> QED
    BY <2>1, TailOfScript
<1>5. /\ snap'.slot = snap.slot /\ snap'.frozen = snap.frozen
      /\ snap'.dump[1].slot = snap.slot /\ snap'.dump[1].note = test.sec
  BY <1>1 DEF SnapTypes, Snap
<1>6. force_quit /\ Tells(snap.slot, test.sec)
  BY <1>4 DEF SnapInv
<1>7. Tells(snap.dump[1].slot, snap.dump[1].note)' /\ Tells(snap.slot, test.sec)'
  BY <1>1, <1>5, <1>6 DEF Tells
<1>8. pc = "run" /\ pc' = "run"
  BY <1>1 DEF At, Done
<1> QED
  BY <1>1, <1>3, <1>5, <1>6, <1>7, <1>8 DEF SnapInv, Latest

\* The loop is entered.
LEMMA EnterTells ==
    ASSUME app = "dtn", UseInv, SnapInv, SnapTypes, SnapTypes', EnterLoop
    PROVE  SnapInv'
<1>1. /\ UNCHANGED <<app, ate, test, snap, force_quit>> /\ At("loop") /\ NextSecond
  BY DEF EnterLoop, appvars, flags, loopvars
<1>2. Starting
  BY <1>1, PlaceOf DEF UseInv, Step, StartSteps
<1>3. /\ test.sec = 0 /\ ~snap.frozen /\ snap.slot.dtn = 0 /\ snap.slot.ptp = 0
      /\ snap.slot.health <= 0 /\ (force_quit => test.asked = 0)
  BY <1>2 DEF SnapInv, Latest
<1>4. /\ pc' \in {"run", "sleep"} /\ ~Starting'
      /\ pc' = "sleep" => ~Ahead(todo', "dump")
      /\ pc' = "run" => force_quit
  BY <1>1, TurnIs
<1>5. Shows(test.sec)'
  BY <1>1, <1>3 DEF Shows
<1>6. force_quit => Tells(snap.slot, test.sec)'
  BY <1>1, <1>3 DEF Tells
<1> QED
  BY <1>1, <1>3, <1>4, <1>5, <1>6 DEF SnapInv, Latest, Tells

\* Every step of the DTN application.
LEMMA SnapInvNext ==
    ASSUME app = "dtn", UseInv, SnapInv, SnapTypes, SnapTypes', [Next]_vars
    PROVE  SnapInv'
<1>1. CASE QuietStep
  <2>1. /\ UNCHANGED <<ate, test, snap, force_quit>> /\ GoesOn
    BY <1>1, QuietStepIs DEF SnapTypes
  <2> QED
    BY <2>1, ScriptGoesOn, TablesStay DEF GoesOn
<1>2. CASE EnterLoop
  BY <1>2, EnterTells
<1>3. CASE Wake
  BY <1>3, WakeTells
<1>4. CASE RenderDtn \/ RenderPtp
  BY <1>4, RenderTells
<1>5. CASE Dump
  BY <1>5, DumpTells
<1>6. CASE StoreHealth
  BY <1>6, HealthTells
<1>7. CASE Signal
  BY <1>7, SignalTells
<1>8. CASE \/ Second \/ CmcWake \/ SendTrigger \/ ArmHandover \/ CheckTimeout
           \/ DeclareTimeout \/ PollHandover
  BY <1>8 DEF Second, CmcWake, SendTrigger, ArmHandover, CheckTimeout, DeclareTimeout,
              PollHandover, UseInv, HandoverIsCmc
<1>9. CASE \/ \E t \in Thread : Leave(t)
           \/ ListenerFails \/ HsnBuild \/ HsnPush \/ QueueBlocks
           \/ DeviceDelivers \/ DeviceLoses \/ UNCHANGED vars
  <2>1. UNCHANGED <<ate, test, snap, force_quit, pc, todo>>
    BY <1>9 DEF Leave, ListenerFails, HsnBuild, HsnPush, QueueBlocks, DeviceDelivers,
                DeviceLoses, vars, appvars, mainvars, flags, loopvars
  <2> QED
    BY <2>1, TablesStay DEF Starting
<1> QED
  BY <1>1, <1>2, <1>3, <1>4, <1>5, <1>6, <1>7, <1>8, <1>9 DEF Next, Main, QuietStep

\* It holds at the start.
LEMMA SummaryInvInit == Init => SummaryInv
<1> SUFFICES ASSUME Init PROVE SummaryInv
  OBVIOUS
<1>1. /\ app \in App /\ pc = "run" /\ force_quit = FALSE
      /\ test = [sec |-> 0, time |-> 0, warm |-> FALSE, asked |-> 0]
      /\ snap = [slot |-> [dtn |-> 0, ptp |-> 0, health |-> 0],
                 frozen |-> FALSE, dump |-> <<>>]
      /\ todo = StartOf[app]
  BY DEF Init
<1>2. ate \in BOOLEAN
  BY DEF Init
<1>3. test \in Test
  BY <1>1 DEF Test
<1>4. snap \in Snap
  <2>1. [dtn |-> 0, ptp |-> 0, health |-> 0] \in Slots /\ <<>> \in Seq(Dumped)
    BY DEF Slots
  <2> QED
    BY <1>1, <2>1 DEF Snap
<1>5. ~Ahead(todo, "dump")
  <2>1. Opens(todo, app) /\ "dump" \notin Begins[app]
    BY <1>1, StartsOpen DEF App, Begins, StartSteps
  <2> QED
    BY <2>1 DEF Opens, Ahead
<1>6. SnapTypes
  BY <1>1, <1>2, <1>3, <1>4 DEF SnapTypes
<1> QED
  BY <1>1, <1>5, <1>6 DEF SummaryInv, SnapInv, Latest

\* Every step preserves it.
LEMMA SummaryInvNext == UseInv /\ SummaryInv /\ [Next]_vars => SummaryInv'
<1> SUFFICES ASSUME UseInv, SummaryInv, [Next]_vars PROVE SummaryInv'
  OBVIOUS
<1>1. SnapTypes /\ SnapTypes'
  BY SnapTypesKept DEF SummaryInv
<1>2. app' = app
  BY AppStays
<1>3. CASE app = "dtn"
  BY <1>1, <1>2, <1>3, SnapInvNext DEF SummaryInv
<1>4. CASE app # "dtn"
  BY <1>4, OthersDumpNothing
<1> QED
  BY <1>3, <1>4

\* The summary of a stopped DTN test is that of its last second: whenever the signal
\* comes, during the sleep, the rendering or the start, and with the health monitor
\* storing its tables beside the main thread.
THEOREM SummaryHolds == Spec => []SummaryIsTheLastSecond
<1>1. SummaryInv => SummaryIsTheLastSecond
  <2> SUFFICES ASSUME SummaryInv, snap.dump # <<>>
               PROVE  Tells(snap.dump[1].slot, snap.dump[1].note)
    BY DEF SummaryIsTheLastSecond, Tells
  <2> QED
    BY DEF SummaryInv, SnapInv
<1> QED
  BY <1>1, UseInvInit, UseInvNext, SummaryInvInit, SummaryInvNext, PTL DEF Spec

-----------------------------------------------------------------------------
(* The hand-over.                                                          *)

File == [start : Nat, got : Seq(Nat)]
Handler ==
    [state : {"IDLE", "ARMED", "RECEIVING", "DONE_OK", "DONE_TIMEOUT"}, file : File,
     closed : SUBSET File, expected : Nat, corrupted : Nat, armed_for : Nat, first : Nat,
     rejected : BOOLEAN, forced : BOOLEAN]
Device == [on : BOOLEAN, next : 1..7, lost : Nat]

HandTypes == mmms \in Handler /\ device \in Device

\* The two files of the stream.
FirstFile == [start |-> 1, got |-> <<2>>]
SecondFile == [start |-> 3, got |-> <<4, 5>>]

\* The file under reception and the closed ones after the packets 1..k.
FilesAt(k, file, closed) ==
    /\ file # NoFile =>
           file = CASE k = 1 -> [start |-> 1, got |-> <<>>]
                    [] k = 2 -> FirstFile
                    [] k = 3 -> [start |-> 3, got |-> <<>>]
                    [] k = 4 -> [start |-> 3, got |-> <<4>>]
                    [] k = 5 -> SecondFile
    /\ closed \subseteq (IF k < 3 THEN {} ELSE {FirstFile})

\* Nothing was missed as far as the receiver knows.
Clean == /\ mmms.corrupted = 0 /\ mmms.first = 1 /\ ~mmms.rejected
         /\ device.lost < SeqMax

Receives == mmms.state \in {"ARMED", "RECEIVING"}

HandInv ==
    /\ HandTypes
    /\ mmms.expected = 0 => /\ mmms.file = NoFile /\ mmms.closed = {}
                             /\ mmms.state \in {"IDLE", "ARMED", "DONE_TIMEOUT"}
    /\ mmms.state \in {"IDLE", "ARMED"} => mmms.expected = 0
    /\ ~device.on \/ pc = "arm" => mmms.state = "IDLE"
    /\ pc = "trigger" => ~device.on
    /\ pc \in {"arm", "check", "timeout", "poll"} => device.on
    /\ mmms.state = "RECEIVING" /\ Clean =>
           \E k \in 1..5 : /\ k < device.next /\ device.next - 1 - k <= device.lost
                           /\ mmms.expected = mmms_next_seq(Number(k))
                           /\ FilesAt(k, mmms.file, mmms.closed)
    /\ mmms.state = "DONE_OK" /\ ~mmms.forced /\ Clean =>
           mmms.file = NoFile /\ mmms.closed \subseteq {FirstFile, SecondFile}

\* The numbers: as long as fewer packets are lost than there are numbers, one in order
\* is that of the next packet.
LEMMA NumbersInOrder ==
    ASSUME NEW k \in 1..6, NEW i \in 1..6, k < i, (i - 1) - k < SeqMax,
           Number(i) = mmms_next_seq(Number(k))
    PROVE  i = k + 1
<1>1. SeqMax \in Nat \ {0}
  BY HandoverAssumption
<1>2. PICK s \in Nat \ {0} : s = SeqMax
  BY <1>1
<1>3. /\ (i - 1) - k < s
      /\ ((i - 1) % s) + 1 = IF ((k - 1) % s) + 1 = s THEN 1 ELSE (((k - 1) % s) + 1) + 1
  BY <1>2 DEF Number, mmms_next_seq
<1>4. CASE s >= 6
  <2>1. ASSUME NEW x \in 0..5 PROVE x % s = x
    BY <1>4
  <2>2. (i - 1) % s = i - 1 /\ (k - 1) % s = k - 1
    BY <2>1
  <2> QED
    BY <1>3, <1>4, <2>2
<1>5. CASE s = 5
  BY <1>3, <1>5
<1>6. CASE s = 4
  BY <1>3, <1>6
<1>7. CASE s = 3
  BY <1>3, <1>7
<1>8. CASE s = 2
  BY <1>3, <1>8
<1>9. CASE s = 1
  BY <1>3, <1>9
<1> QED
  BY <1>4, <1>5, <1>6, <1>7, <1>8, <1>9

\* A number is a positive one, and so is the next.
LEMMA NumberType ==
    ASSUME NEW i \in 1..6
    PROVE  Number(i) \in Nat \ {0} /\ mmms_next_seq(Number(i)) \in Nat \ {0}
<1>1. PICK s \in Nat \ {0} : s = SeqMax
  BY HandoverAssumption
<1>2. (i - 1) % s \in 0..(s - 1)
  OBVIOUS
<1> QED
  BY <1>1, <1>2 DEF Number, mmms_next_seq

\* The files of the stream, received without a gap, are whole.
LEMMA FilesAreWhole == Whole(FirstFile) /\ Whole(SecondFile)
<1>1. Packet = 1..6
  BY DEF Packet, Stream
<1>2. /\ Stream[1] = "start" /\ Stream[2] = "content" /\ Stream[3] = "start"
      /\ Stream[4] = "content" /\ Stream[5] = "content" /\ Stream[6] = "finish"
  BY DEF Stream
<1>3. Contents(1) = {2}
  BY <1>1, <1>2 DEF Contents
<1>4. Contents(3) = {4, 5}
  BY <1>1, <1>2 DEF Contents
<1>5. Cardinality({2}) = 1 /\ Cardinality({4, 5}) = 2
  <2>1. IsFiniteSet({4}) /\ Cardinality({4}) = 1 /\ Cardinality({2}) = 1
    BY FS_Singleton
  <2>2. Cardinality({4} \cup {5}) = Cardinality({4}) + 1
    BY <2>1, FS_AddElement
  <2>3. {4} \cup {5} = {4, 5}
    OBVIOUS
  <2> QED
    BY <2>1, <2>2, <2>3
<1>6. Whole(FirstFile)
  <2>1. FirstFile.start = 1 /\ FirstFile.got = <<2>>
    BY DEF FirstFile
  <2>2. {<<2>>[k] : k \in DOMAIN <<2>>} = {2} /\ Len(<<2>>) = 1
    OBVIOUS
  <2> QED
    BY <1>3, <1>5, <2>1, <2>2 DEF Whole
<1>7. Whole(SecondFile)
  <2>1. SecondFile.start = 3 /\ SecondFile.got = <<4, 5>>
    BY DEF SecondFile
  <2>2. {<<4, 5>>[k] : k \in DOMAIN <<4, 5>>} = {4, 5} /\ Len(<<4, 5>>) = 2
    OBVIOUS
  <2> QED
    BY <1>4, <1>5, <2>1, <2>2 DEF Whole
<1> QED
  BY <1>6, <1>7

\* The number of a packet is taken note of.
LEMMA TrackIs ==
    ASSUME NEW m \in Handler, NEW i \in 1..6, NEW h, h = TrackNumber(m, i)
    PROVE  /\ h \in Handler /\ h.state = "RECEIVING"
           /\ h.expected = mmms_next_seq(Number(i))
           /\ h.first = IF m.expected = 0 THEN i ELSE m.first
           /\ h.corrupted = IF m.expected \in {0, Number(i)} THEN m.corrupted
                                                             ELSE m.corrupted + 1
           /\ h.file = m.file /\ h.closed = m.closed
           /\ h.rejected = m.rejected /\ h.forced = m.forced
<1>1. PICK e \in Nat, f \in Nat, c \in Nat :
          /\ e = mmms_next_seq(Number(i))
          /\ f = IF m.expected = 0 THEN i ELSE m.first
          /\ c = IF m.expected \in {0, Number(i)} THEN m.corrupted ELSE m.corrupted + 1
  BY NumberType DEF Handler
<1>2. h = [m EXCEPT !.state = "RECEIVING", !.first = f, !.corrupted = c, !.expected = e]
  BY <1>1 DEF TrackNumber
<1>3. /\ h \in Handler /\ h.state = "RECEIVING" /\ h.expected = e /\ h.first = f
      /\ h.corrupted = c /\ h.file = m.file /\ h.closed = m.closed
      /\ h.rejected = m.rejected /\ h.forced = m.forced
  BY <1>2 DEF Handler
<1> QED
  BY <1>1, <1>3

\* What the handler is after packet i.
Handled(m, i, h) ==
    /\ h \in Handler
    /\ h.expected = mmms_next_seq(Number(i))
    /\ h.first = IF m.expected = 0 THEN i ELSE m.first
    /\ h.corrupted = IF m.expected \in {0, Number(i)} THEN m.corrupted
                                                      ELSE m.corrupted + 1
    /\ m.rejected => h.rejected
    /\ h.forced = m.forced
    /\ h.state = IF i = 6 THEN "DONE_OK" ELSE "RECEIVING"
    /\ i \in {1, 3} =>
           \/ h.rejected
           \/ /\ h.closed = m.closed \cup ({m.file} \ {NoFile})
              /\ h.file \in {NoFile, [start |-> i, got |-> <<>>]}
    /\ i \in {2, 4, 5} =>
           /\ h.closed = m.closed
           /\ h.file = IF m.file = NoFile THEN NoFile
                       ELSE [m.file EXCEPT !.got = Append(@, i)]
    /\ i = 6 => /\ h.closed = m.closed \cup ({m.file} \ {NoFile})
                /\ h.file = NoFile

\* mmms_handle_packet while the receiver is armed or receives.
LEMMA HandleIs ==
    ASSUME NEW m \in Handler, m.state \in {"ARMED", "RECEIVING"}, NEW i \in 1..6, NEW name,
           NEW h, h = HandlePacket(m, i, name)
    PROVE  Handled(m, i, h)
<1>1. PICK p : p = TrackNumber(m, i)
  OBVIOUS
<1>2. /\ p \in Handler /\ p.state = "RECEIVING"
      /\ p.expected = mmms_next_seq(Number(i))
      /\ p.first = IF m.expected = 0 THEN i ELSE m.first
      /\ p.corrupted = IF m.expected \in {0, Number(i)} THEN m.corrupted ELSE m.corrupted + 1
      /\ p.file = m.file /\ p.closed = m.closed
      /\ p.rejected = m.rejected /\ p.forced = m.forced
  BY <1>1, TrackIs
<1>3. h = CASE Stream[i] = "start"   -> HandleStart(p, i, name)
            [] Stream[i] = "content" -> HandleContent(p, i)
            [] Stream[i] = "finish"  -> HandleFinish(p)
  BY <1>1 DEF HandlePacket
<1>4. /\ i \in {1, 3} => h = HandleStart(p, i, name)
      /\ i \in {2, 4, 5} => h = HandleContent(p, i)
      /\ i = 6 => h = HandleFinish(p)
  BY <1>3 DEF Stream
<1>5. NoFile \in File /\ [start |-> i, got |-> <<>>] \in File
  BY DEF NoFile, File
<1>6. PICK closed \in SUBSET File : closed = p.closed \cup ({p.file} \ {NoFile})
  BY <1>2 DEF Handler
<1>7. CloseCurrentFile(p) = [p EXCEPT !.file = NoFile, !.closed = closed]
  BY <1>6 DEF CloseCurrentFile
<1>8. CASE i \in {1, 3}
  <2>1. CASE name = "rejected"
    <3>1. h = [p EXCEPT !.rejected = TRUE]
      BY <1>4, <1>8, <2>1 DEF HandleStart
    <3>2. /\ h \in Handler /\ h.state = p.state /\ h.expected = p.expected /\ h.first = p.first
          /\ h.corrupted = p.corrupted /\ h.rejected /\ h.forced = p.forced
      BY <1>2, <3>1 DEF Handler
    <3> QED
      BY <1>2, <1>8, <3>2 DEF Handled
  <2>2. CASE name # "rejected"
    <3>1. PICK f \in File : f = IF name = "opened" THEN [start |-> i, got |-> <<>>] ELSE NoFile
      BY <1>5
    <3>2. h = [[p EXCEPT !.file = NoFile, !.closed = closed] EXCEPT !.file = f]
      BY <1>4, <1>7, <1>8, <2>2, <3>1 DEF HandleStart
    <3>3. /\ h \in Handler /\ h.state = p.state /\ h.expected = p.expected /\ h.first = p.first
          /\ h.corrupted = p.corrupted /\ h.rejected = p.rejected /\ h.forced = p.forced
          /\ h.file = f /\ h.closed = closed
      BY <1>2, <1>5, <3>2 DEF Handler
    <3> QED
      BY <1>2, <1>6, <1>8, <3>1, <3>3 DEF Handled
  <2> QED
    BY <2>1, <2>2
<1>9. CASE i \in {2, 4, 5}
  <2>1. CASE m.file = NoFile
    <3>1. h = p
      BY <1>2, <1>4, <1>9, <2>1 DEF HandleContent
    <3> QED
      BY <1>2, <1>9, <2>1, <3>1 DEF Handled
  <2>2. CASE m.file # NoFile
    <3>1. PICK f \in File : f = [m.file EXCEPT !.got = Append(@, i)]
      <4>1. m.file \in File /\ Append(m.file.got, i) \in Seq(Nat)
        BY DEF Handler, File
      <4> QED
        BY <4>1 DEF File
    <3>2. h = [p EXCEPT !.file = f]
      BY <1>2, <1>4, <1>9, <2>2, <3>1 DEF HandleContent, Handler
    <3>3. /\ h \in Handler /\ h.state = p.state /\ h.expected = p.expected /\ h.first = p.first
          /\ h.corrupted = p.corrupted /\ h.rejected = p.rejected /\ h.forced = p.forced
          /\ h.file = f /\ h.closed = p.closed
      BY <1>2, <3>2 DEF Handler
    <3> QED
      BY <1>2, <1>9, <2>2, <3>1, <3>3 DEF Handled
  <2> QED
    BY <2>1, <2>2
<1>10. CASE i = 6
  <2>1. h = [[p EXCEPT !.file = NoFile, !.closed = closed] EXCEPT !.state = "DONE_OK"]
    BY <1>4, <1>7, <1>10 DEF HandleFinish
  <2>2. PICK g : g = [p EXCEPT !.file = NoFile, !.closed = closed]
    OBVIOUS
  <2>3. /\ g \in Handler
        /\ g.expected = p.expected /\ g.first = p.first
        /\ g.corrupted = p.corrupted /\ g.rejected = p.rejected
        /\ g.forced = p.forced
        /\ g.file = NoFile /\ g.closed = closed
    BY <1>2, <1>5, <2>2 DEF Handler
  <2>4. h = [g EXCEPT !.state = "DONE_OK"]
    BY <2>1, <2>2
  <2>5. h \in Handler /\ h.state = "DONE_OK"
    BY <2>3, <2>4 DEF Handler
  <2>6. /\ h.expected = p.expected /\ h.first = p.first
        /\ h.corrupted = p.corrupted /\ h.rejected = p.rejected /\ h.forced = p.forced
        /\ h.file = NoFile /\ h.closed = closed
    BY <2>3, <2>4 DEF Handler
  <2> QED
    BY <1>2, <1>6, <1>10, <2>5, <2>6 DEF Handled
<1> QED
  BY <1>8, <1>9, <1>10

\* The second packet of the second file.
LEMMA AppendSecond == Append(<<4>>, 5) = <<4, 5>>
<1>1. /\ <<4>> \in Seq(Nat) /\ Len(<<4>>) = 1 /\ <<4>>[1] = 4
      /\ <<4, 5>> \in Seq(Nat) /\ Len(<<4, 5>>) = 2
      /\ <<4, 5>>[1] = 4 /\ <<4, 5>>[2] = 5
  OBVIOUS
<1>2. PICK s \in Seq(Nat) : s = <<4>>
  BY <1>1
<1>3. /\ Append(s, 5) \in Seq(Nat) /\ Len(Append(s, 5)) = 2
      /\ Append(s, 5)[1] = 4 /\ Append(s, 5)[2] = 5
  BY <1>1, <1>2, AppendProperties
<1>4. PICK a \in Seq(Nat) : a = Append(s, 5)
  BY <1>3
<1>5. PICK b \in Seq(Nat) : b = <<4, 5>>
  BY <1>1
<1>6. Len(a) = 2 /\ Len(b) = 2 /\ a[1] = 4 /\ a[2] = 5 /\ b[1] = 4 /\ b[2] = 5
  BY <1>1, <1>3, <1>4, <1>5
<1>7. \A j \in 1..Len(a) : a[j] = b[j]
  BY <1>6
<1>8. a = b
  BY <1>6, <1>7, SeqEqual
<1> QED
  BY <1>2, <1>4, <1>5, <1>8

\* The files after one more packet in order.
LEMMA FilesNext ==
    ASSUME NEW k \in 1..5, NEW file, NEW closed, FilesAt(k, file, closed),
           NEW g, NEW closedNext,
           k \in {2, 5} => closedNext = closed \cup ({file} \ {NoFile}),
           k = 2 => g \in {NoFile, [start |-> 3, got |-> <<>>]},
           k \in {1, 3, 4} => closedNext = closed,
           k \in {1, 3, 4} => g = IF file = NoFile THEN NoFile
                                  ELSE [file EXCEPT !.got = Append(@, k + 1)]
    PROVE  /\ k < 5 => FilesAt(k + 1, g, closedNext)
           /\ k = 5 => closedNext \subseteq {FirstFile, SecondFile}
<1>1. Append(<<>>, 2) = <<2>> /\ Append(<<>>, 4) = <<4>>
  OBVIOUS
<1>2. Append(<<4>>, 5) = <<4, 5>>
  BY AppendSecond
<1>3. CASE k = 1
  <2>1. file # NoFile => file = [start |-> 1, got |-> <<>>]
    BY <1>3 DEF FilesAt
  <2>2. file # NoFile => g = FirstFile
    <3>1. SUFFICES ASSUME file # NoFile PROVE g = FirstFile
      OBVIOUS
    <3>2. k + 1 = 2 /\ file.got = <<>> /\ Append(file.got, k + 1) = <<2>>
      <4>1. k + 1 = 2
        BY <1>3
      <4>2. file.got = <<>>
        BY <2>1, <3>1
      <4> QED
        BY <1>1, <4>1, <4>2, Zenon
    <3>3. g = [file EXCEPT !.got = <<2>>]
      BY <1>3, <3>1, <3>2
    <3> QED
      BY <2>1, <3>1, <3>3 DEF FirstFile
  <2>3. closedNext \subseteq {}
    BY <1>3 DEF FilesAt
  <2> QED
    BY <1>3, <2>2, <2>3 DEF FilesAt
<1>4. CASE k = 2
  <2>1. closedNext \subseteq {FirstFile}
    BY <1>4 DEF FilesAt
  <2> QED
    BY <1>4, <2>1 DEF FilesAt
<1>5. CASE k = 3
  <2>1. file # NoFile => file = [start |-> 3, got |-> <<>>]
    BY <1>5 DEF FilesAt
  <2>2. file # NoFile => g = [start |-> 3, got |-> <<4>>]
    <3>1. SUFFICES ASSUME file # NoFile PROVE g = [start |-> 3, got |-> <<4>>]
      OBVIOUS
    <3>2. k + 1 = 4 /\ file.got = <<>> /\ Append(file.got, k + 1) = <<4>>
      <4>1. k + 1 = 4
        BY <1>5
      <4>2. file.got = <<>>
        BY <2>1, <3>1
      <4> QED
        BY <1>1, <4>1, <4>2, Zenon
    <3>3. g = [file EXCEPT !.got = <<4>>]
      BY <1>5, <3>1, <3>2
    <3> QED
      BY <2>1, <3>1, <3>3
  <2>3. closedNext \subseteq {FirstFile}
    BY <1>5 DEF FilesAt
  <2> QED
    BY <1>5, <2>2, <2>3 DEF FilesAt
<1>6. CASE k = 4
  <2>1. file # NoFile => file = [start |-> 3, got |-> <<4>>]
    BY <1>6 DEF FilesAt
  <2>2. file # NoFile => g = SecondFile
    <3>1. SUFFICES ASSUME file # NoFile PROVE g = SecondFile
      OBVIOUS
    <3>2. k + 1 = 5 /\ file.got = <<4>> /\ Append(file.got, k + 1) = <<4, 5>>
      <4>1. k + 1 = 5
        BY <1>6
      <4>2. file.got = <<4>>
        BY <2>1, <3>1
      <4> QED
        BY <1>2, <4>1, <4>2, Zenon
    <3>3. g = [file EXCEPT !.got = <<4, 5>>]
      BY <1>6, <3>1, <3>2
    <3>4. PICK two : two = <<4, 5>>
      OBVIOUS
    <3>5. g = [start |-> 3, got |-> two]
      <4>1. g = [file EXCEPT !.got = two]
        BY <3>3, <3>4, Zenon
      <4>2. PICK one : file = [start |-> 3, got |-> one]
        BY <2>1, <3>1
      <4> QED
        BY <4>1, <4>2
    <3> QED
      BY <3>4, <3>5, Zenon DEF SecondFile
  <2>3. closedNext \subseteq {FirstFile}
    BY <1>6 DEF FilesAt
  <2> QED
    BY <1>6, <2>2, <2>3 DEF FilesAt
<1>7. CASE k = 5
  <2>1. (file # NoFile => file = SecondFile) /\ closed \subseteq {FirstFile}
    BY <1>7 DEF FilesAt
  <2> QED
    BY <1>7, <2>1
<1> QED
  BY <1>3, <1>4, <1>5, <1>6, <1>7

\* A packet of the device is handled.
LEMMA DeliverKeeps ==
    ASSUME HandInv, DeviceDelivers
    PROVE  HandInv'
<1> DEFINE i == device.next
<1>1. /\ mmms \in Handler /\ device \in Device /\ i \in 1..7 /\ i \in Packet /\ device.on
      /\ device.lost \in Nat /\ pc' = pc
  BY DEF HandInv, HandTypes, DeviceDelivers, Device, mainvars
<1>2. i \in 1..6
  BY <1>1 DEF Packet, Stream
<1>3. device' = [device EXCEPT !.next = i + 1]
  BY DEF DeviceDelivers
<1>4. device' \in Device /\ device'.on /\ device'.next = i + 1 /\ device'.lost = device.lost
  BY <1>1, <1>2, <1>3 DEF Device
<1>5. PICK name : mmms' = HandlePacket(mmms, i, name)
  BY DEF DeviceDelivers
<1> HIDE DEF i
<1>6. CASE ~Receives
  <2>1. mmms' = mmms
    BY <1>5, <1>6 DEF HandlePacket, Receives
  <2> QED
    BY <1>1, <1>4, <1>6, <2>1 DEF HandInv, HandTypes, Receives, Clean
<1>7. CASE Receives
  <2>1. /\ mmms' \in Handler
        /\ mmms'.expected = mmms_next_seq(Number(i))
        /\ mmms'.first = IF mmms.expected = 0 THEN i ELSE mmms.first
        /\ mmms'.corrupted = IF mmms.expected \in {0, Number(i)} THEN mmms.corrupted
                                                                ELSE mmms.corrupted + 1
        /\ mmms.rejected => mmms'.rejected
        /\ mmms'.state = IF i = 6 THEN "DONE_OK" ELSE "RECEIVING"
        /\ i \in {1, 3} =>
               \/ mmms'.rejected
               \/ /\ mmms'.closed = mmms.closed \cup ({mmms.file} \ {NoFile})
                  /\ mmms'.file \in {NoFile, [start |-> i, got |-> <<>>]}
        /\ i \in {2, 4, 5} =>
               /\ mmms'.closed = mmms.closed
               /\ mmms'.file = IF mmms.file = NoFile THEN NoFile
                               ELSE [mmms.file EXCEPT !.got = Append(@, i)]
        /\ i = 6 => /\ mmms'.closed = mmms.closed \cup ({mmms.file} \ {NoFile})
                    /\ mmms'.file = NoFile
    <3>1. mmms.state \in {"ARMED", "RECEIVING"}
      BY <1>7 DEF Receives
    <3>2. Handled(mmms, i, mmms')
      BY <1>1, <1>2, <1>5, <3>1, HandleIs
    <3> QED
      BY <3>2 DEF Handled
  <2>2. mmms'.expected # 0
    BY <1>2, <2>1, NumberType
  <2>3. ASSUME Clean', mmms.expected = 0
        PROVE  /\ mmms'.state = "RECEIVING" => \E k \in 1..5 :
                      /\ k < device'.next /\ device'.next - 1 - k <= device'.lost
                      /\ mmms'.expected = mmms_next_seq(Number(k))
                      /\ FilesAt(k, mmms'.file, mmms'.closed)
               /\ mmms'.state # "DONE_OK"
    <3>1. i = 1 /\ ~mmms'.rejected
      BY <2>1, <2>3 DEF Clean
    <3>2. mmms.file = NoFile /\ mmms.closed = {}
      BY <2>3 DEF HandInv
    <3>3. FilesAt(1, mmms'.file, mmms'.closed)
      BY <2>1, <3>1, <3>2 DEF FilesAt
    <3>4. 1 < device'.next /\ device'.next - 1 - 1 <= device'.lost
      BY <1>1, <1>4, <3>1
    <3> QED
      BY <2>1, <3>1, <3>3, <3>4
  <2>4. ASSUME Clean', mmms.expected # 0
        PROVE  /\ mmms'.state = "RECEIVING" => \E k \in 1..5 :
                      /\ k < device'.next /\ device'.next - 1 - k <= device'.lost
                      /\ mmms'.expected = mmms_next_seq(Number(k))
                      /\ FilesAt(k, mmms'.file, mmms'.closed)
               /\ mmms'.state = "DONE_OK" =>
                      mmms'.file = NoFile /\ mmms'.closed \subseteq {FirstFile, SecondFile}
    <3>1. mmms.corrupted \in Nat
      BY <1>1 DEF Handler
    <3>2. mmms.expected = Number(i) /\ mmms.corrupted = 0
      BY <2>1, <2>4, <3>1 DEF Clean
    <3>3. Clean
      BY <1>4, <2>1, <2>4, <3>2 DEF Clean
    <3>4. PICK k \in 1..5 : /\ k < i /\ i - 1 - k <= device.lost
                            /\ mmms.expected = mmms_next_seq(Number(k))
                            /\ FilesAt(k, mmms.file, mmms.closed)
      BY <1>7, <2>4, <3>3 DEF HandInv, Receives, i
    <3>5. (i - 1) - k < SeqMax
      BY <1>1, <1>2, <3>3, <3>4, HandoverAssumption DEF Clean
    <3>6. i = k + 1
      <4>1. k \in 1..6 /\ k < i /\ Number(i) = mmms_next_seq(Number(k))
        BY <3>2, <3>4
      <4> QED
        BY <1>2, <3>5, <4>1, NumbersInOrder
    <3>7. ~mmms'.rejected
      BY <2>4 DEF Clean
    <3>8. /\ k < 5 => FilesAt(k + 1, mmms'.file, mmms'.closed)
          /\ k = 5 => mmms'.closed \subseteq {FirstFile, SecondFile}
      <4>1. k \in {2, 5} => mmms'.closed = mmms.closed \cup ({mmms.file} \ {NoFile})
        BY <2>1, <3>6, <3>7
      <4>2. k = 2 => mmms'.file \in {NoFile, [start |-> 3, got |-> <<>>]}
        BY <2>1, <3>6, <3>7
      <4>3. k \in {1, 3, 4} =>
                /\ mmms'.closed = mmms.closed
                /\ mmms'.file = IF mmms.file = NoFile THEN NoFile
                                ELSE [mmms.file EXCEPT !.got = Append(@, k + 1)]
        BY <2>1, <3>6
      <4>4. PICK g, closedNext : g = mmms'.file /\ closedNext = mmms'.closed
        OBVIOUS
      <4> QED
        BY <3>4, <4>1, <4>2, <4>3, <4>4, FilesNext
    <3>9. CASE k = 5
      BY <2>1, <3>6, <3>8, <3>9
    <3>10. CASE k < 5
      <4>1. k + 1 \in 1..5 /\ k + 1 < device'.next /\ device'.next - 1 - (k + 1) <= device'.lost
        BY <1>1, <1>4, <3>6, <3>10
      <4> QED
        BY <2>1, <3>6, <3>8, <3>10, <4>1
    <3> QED
      BY <3>4, <3>9, <3>10
  <2>5. mmms.state # "IDLE"
    BY <1>7 DEF Receives
  <2>6. pc # "arm" /\ pc # "trigger"
    BY <1>1, <2>5 DEF HandInv
  <2> QED
    BY <1>1, <1>4, <2>1, <2>2, <2>3, <2>4, <2>6 DEF HandInv, HandTypes
<1> QED
  BY <1>6, <1>7

\* A packet of the device is lost.
LEMMA LoseKeeps ==
    ASSUME HandInv, DeviceLoses
    PROVE  HandInv'
<1>1. /\ mmms' = mmms /\ pc' = pc /\ device \in Device /\ device.next \in Packet
      /\ device' = [device EXCEPT !.next = @ + 1, !.lost = @ + 1]
  BY DEF HandInv, HandTypes, DeviceLoses, mainvars
<1>2. Packet = 1..6
  BY DEF Packet, Stream
<1>3. PICK n \in 1..7, l \in Nat : n = device.next + 1 /\ l = device.lost + 1
  BY <1>1, <1>2 DEF Device
<1>4. device' = [device EXCEPT !.next = n, !.lost = l]
  BY <1>1, <1>3
<1>5. /\ device' \in Device /\ device'.on = device.on /\ device'.next = device.next + 1
      /\ device'.lost = device.lost + 1 /\ device.lost \in Nat /\ device.next \in 1..6
  BY <1>1, <1>2, <1>3, <1>4 DEF Device
<1>6. Clean' => Clean
  BY <1>1, <1>5, HandoverAssumption DEF Clean
<1>7. ASSUME mmms.state = "RECEIVING", Clean
      PROVE  \E k \in 1..5 :
                 /\ k < device'.next /\ device'.next - 1 - k <= device'.lost
                 /\ mmms.expected = mmms_next_seq(Number(k))
                 /\ FilesAt(k, mmms.file, mmms.closed)
  <2>1. PICK k \in 1..5 : /\ k < device.next /\ device.next - 1 - k <= device.lost
                          /\ mmms.expected = mmms_next_seq(Number(k))
                          /\ FilesAt(k, mmms.file, mmms.closed)
    BY <1>7 DEF HandInv
  <2>2. k < device'.next /\ device'.next - 1 - k <= device'.lost
    BY <1>5, <2>1
  <2> QED
    BY <2>1, <2>2
<1> QED
  BY <1>1, <1>5, <1>6, <1>7 DEF HandInv, HandTypes, Receives

\* What leaves the handler and the device alone, and does not enter the hand-over.
LEMMA ElsewhereKeeps ==
    ASSUME HandInv, UNCHANGED <<mmms, device>>,
           pc' = pc \/ pc' \in {"run", "sleep", "render", "renderPtp", "exited"}
    PROVE  HandInv'
  BY DEF HandInv, HandTypes, Receives, Clean

\* The main thread's part of the hand-over.
LEMMA HandoverKeeps ==
    ASSUME HandInv,
           \/ CmcWake \/ SendTrigger \/ ArmHandover \/ CheckTimeout \/ DeclareTimeout
           \/ PollHandover \/ FinalizeHandover
    PROVE  HandInv'
<1>1. mmms \in Handler /\ device \in Device
  BY DEF HandInv, HandTypes
<1>2. NextSecond \/ Quit => pc' \in {"run", "sleep"}
  BY DEF NextSecond, Quit
<1>3. CASE CmcWake
  <2>1. /\ device' = device /\ pc = "sleep"
        /\ \/ pc' \in {"run", "sleep"}
           \/ pc' = IF device.on THEN "check" ELSE "trigger"
    BY <1>2, <1>3 DEF CmcWake
  <2>2. PICK n \in Nat : mmms' = [mmms EXCEPT !.armed_for = n]
    <3>1. PICK n \in Nat : n = IF mmms.state = "ARMED" /\ mmms.armed_for < FirstPacketTimeout
                               THEN mmms.armed_for + 1 ELSE mmms.armed_for
      BY <1>1 DEF Handler
    <3>2. mmms' = [mmms EXCEPT !.armed_for = n]
      BY <1>3, <3>1 DEF CmcWake
    <3> QED
      BY <3>2
  <2>3. /\ mmms' \in Handler
        /\ mmms'.state = mmms.state /\ mmms'.file = mmms.file /\ mmms'.closed = mmms.closed
        /\ mmms'.expected = mmms.expected /\ mmms'.corrupted = mmms.corrupted
        /\ mmms'.first = mmms.first /\ mmms'.rejected = mmms.rejected
        /\ mmms'.forced = mmms.forced
    BY <1>1, <2>2 DEF Handler
  <2> QED
    BY <2>1, <2>3 DEF HandInv, HandTypes, Receives, Clean
<1>4. CASE SendTrigger
  <2>1. mmms' = mmms /\ pc = "trigger" /\ ~device.on /\ mmms.state = "IDLE"
    BY <1>4 DEF SendTrigger, HandInv
  <2>2. CASE device' = device /\ pc' = "run"
    BY <2>1, <2>2, ElsewhereKeeps
  <2>3. CASE /\ pc' = "arm"
             /\ \/ device' = [device EXCEPT !.on = TRUE]
                \/ device' = [device EXCEPT !.on = TRUE, !.next = Len(Stream) + 1]
    <3>1. Len(Stream) + 1 = 7
      BY DEF Stream
    <3>2. device' \in Device /\ device'.on
      <4>1. CASE device' = [device EXCEPT !.on = TRUE]
        BY <1>1, <4>1 DEF Device
      <4>2. CASE device' = [device EXCEPT !.on = TRUE, !.next = 7]
        <5>1. PICK n \in 1..7 : n = 7
          OBVIOUS
        <5>2. device' = [device EXCEPT !.on = TRUE, !.next = n]
          BY <4>2, <5>1
        <5> QED
          BY <1>1, <5>2 DEF Device
      <4> QED
        BY <2>3, <3>1, <4>1, <4>2
    <3> QED
      BY <2>1, <2>3, <3>2 DEF HandInv, HandTypes, Receives, Clean
  <2> QED
    BY <1>4, <2>2, <2>3 DEF SendTrigger, Quit
<1>5. CASE ArmHandover
  <2>1. /\ device' = device /\ pc = "arm" /\ pc' = "check" /\ device.on
        /\ mmms.state = "IDLE" /\ mmms.expected = 0
        /\ mmms' = [mmms EXCEPT !.state = "ARMED", !.armed_for = 0]
    BY <1>5 DEF ArmHandover, Arm, HandInv
  <2>2. /\ mmms' \in Handler /\ mmms'.state = "ARMED" /\ mmms'.expected = 0
        /\ mmms'.file = mmms.file /\ mmms'.closed = mmms.closed
    BY <1>1, <2>1 DEF Handler
  <2> QED
    BY <2>1, <2>2 DEF HandInv, HandTypes
<1>6. CASE CheckTimeout
  <2>1. UNCHANGED <<mmms, device>> /\ pc = "check" /\ pc' \in {"timeout", "poll"}
    BY <1>6 DEF CheckTimeout, loopvars
  <2> QED
    BY <2>1 DEF HandInv, HandTypes, Receives, Clean
<1>7. CASE DeclareTimeout
  <2>1. /\ device' = device /\ pc = "timeout" /\ pc' = "poll"
        /\ mmms' = [mmms EXCEPT !.state = "DONE_TIMEOUT"]
    BY <1>7 DEF DeclareTimeout, StoreTimeout
  <2>2. /\ mmms' \in Handler /\ mmms'.state = "DONE_TIMEOUT" /\ mmms'.expected = mmms.expected
        /\ mmms'.file = mmms.file /\ mmms'.closed = mmms.closed
    BY <1>1, <2>1 DEF Handler
  <2> QED
    BY <2>1, <2>2 DEF HandInv, HandTypes, Receives
<1>8. CASE PollHandover
  <2>1. UNCHANGED <<mmms, device>> /\ pc' \in {"run", "sleep"}
    BY <1>2, <1>8 DEF PollHandover, loopvars
  <2> QED
    BY <2>1, ElsewhereKeeps
<1>9. CASE FinalizeHandover
  <2>1. mmms' = Finalize(mmms) /\ device' = device /\ pc' = pc /\ pc = "run"
    BY <1>9 DEF FinalizeHandover, At, Done
  <2>2. PICK closed \in SUBSET File : closed = mmms.closed \cup ({mmms.file} \ {NoFile})
    BY <1>1 DEF Handler
  <2>3. NoFile \in File
    BY DEF NoFile, File
  <2>4. CASE mmms.state = "RECEIVING"
    <3>1. mmms' = [[mmms EXCEPT !.file = NoFile, !.closed = closed]
                       EXCEPT !.state = "DONE_OK", !.forced = TRUE]
      BY <2>1, <2>2, <2>4 DEF Finalize, CloseCurrentFile
    <3>2. /\ mmms' \in Handler /\ mmms'.state = "DONE_OK" /\ mmms'.forced
          /\ mmms'.expected = mmms.expected
      BY <1>1, <2>3, <3>1 DEF Handler
    <3>3. mmms.expected # 0
      BY <2>4 DEF HandInv
    <3> QED
      BY <2>1, <2>4, <3>2, <3>3 DEF HandInv, HandTypes, Receives
  <2>5. CASE mmms.state # "RECEIVING"
    <3>1. mmms' = [mmms EXCEPT !.file = NoFile, !.closed = closed]
      BY <2>1, <2>2, <2>5 DEF Finalize, CloseCurrentFile
    <3>2. /\ mmms' \in Handler /\ mmms'.state = mmms.state /\ mmms'.expected = mmms.expected
          /\ mmms'.file = NoFile /\ mmms'.closed = closed
          /\ mmms'.corrupted = mmms.corrupted /\ mmms'.first = mmms.first
          /\ mmms'.rejected = mmms.rejected /\ mmms'.forced = mmms.forced
      BY <1>1, <2>3, <3>1 DEF Handler
    <3>3. mmms.expected = 0 => closed = {}
      BY <2>2 DEF HandInv
    <3>4. (Clean' <=> Clean) /\ (Receives' <=> Receives)
      BY <2>1, <3>2 DEF Clean, Receives
    <3>5. mmms'.state = "DONE_OK" /\ ~mmms'.forced /\ Clean' =>
              closed \subseteq {FirstFile, SecondFile}
      BY <2>2, <3>2, <3>4 DEF HandInv
    <3> QED
      BY <2>1, <2>5, <3>2, <3>3, <3>4, <3>5 DEF HandInv, HandTypes
  <2> QED
    BY <2>4, <2>5
<1> QED
  BY <1>3, <1>4, <1>5, <1>6, <1>7, <1>8, <1>9

\* It holds at the start.
LEMMA HandInvInit == Init => HandInv
<1> SUFFICES ASSUME Init PROVE HandInv
  OBVIOUS
<1>1. /\ mmms = Initialized /\ device = [on |-> FALSE, next |-> 1, lost |-> 0]
      /\ pc = "run"
  BY DEF Init
<1>2. NoFile \in File
  BY DEF NoFile, File
<1>3. HandTypes
  BY <1>1, <1>2 DEF HandTypes, Handler, Device, Initialized
<1>4. /\ mmms.expected = 0 /\ mmms.file = NoFile /\ mmms.closed = {} /\ mmms.state = "IDLE"
      /\ ~device.on
  BY <1>1 DEF Initialized
<1> QED
  BY <1>1, <1>3, <1>4 DEF HandInv

\* A hand-over that ended with the device's "finish" and no gap counted is whole: the
\* numbers wrap, but a gap that is not seen takes as many losses as there are numbers.
THEOREM CleanHandoverHolds == Spec => []CleanHandoverIsWhole
<1>1. HandInv /\ SummaryInv /\ [Next]_vars => HandInv'
  <2> SUFFICES ASSUME HandInv, SummaryInv, [Next]_vars PROVE HandInv'
    OBVIOUS
  <2>1. CASE DeviceDelivers
    BY <2>1, DeliverKeeps
  <2>2. CASE DeviceLoses
    BY <2>2, LoseKeeps
  <2>3. CASE \/ CmcWake \/ SendTrigger \/ ArmHandover \/ CheckTimeout \/ DeclareTimeout
             \/ PollHandover \/ FinalizeHandover
    BY <2>3, HandoverKeeps
  <2>4. CASE QuietStep /\ ~FinalizeHandover
    <3>1. UNCHANGED <<mmms, device>> /\ GoesOn
      BY <2>4, QuietStepIs DEF SummaryInv, SnapTypes
    <3> QED
      BY <3>1, ElsewhereKeeps DEF GoesOn
  <2>5. CASE EnterLoop \/ Wake \/ RenderDtn \/ RenderPtp \/ Dump
    <3>1. UNCHANGED <<mmms, device>>
      BY <2>5 DEF EnterLoop, Wake, WakeWith, RenderDtn, RenderPtp, Dump, loopvars
    <3>2. pc' = pc \/ pc' \in {"run", "sleep", "render", "renderPtp"}
      BY <2>5 DEF EnterLoop, Wake, WakeWith, RenderDtn, RenderPtp, Dump, NextSecond, Done
    <3> QED
      BY <3>1, <3>2, ElsewhereKeeps
  <2>6. CASE Second
    <3>1. UNCHANGED <<mmms, device>> /\ (pc' = pc \/ pc' = "run")
      BY <2>6 DEF Second, loopvars, mainvars
    <3> QED
      BY <3>1, ElsewhereKeeps
  <2>7. CASE \/ \E t \in Thread : Leave(t)
             \/ ListenerFails \/ StoreHealth \/ HsnBuild \/ HsnPush \/ QueueBlocks
             \/ Signal \/ UNCHANGED vars
    <3>1. UNCHANGED <<mmms, device, pc>>
      BY <2>7 DEF Leave, ListenerFails, StoreHealth, HsnBuild, HsnPush, QueueBlocks, Signal,
                  vars, mainvars, loopvars
    <3> QED
      BY <3>1, ElsewhereKeeps
  <2> QED
    BY <2>1, <2>2, <2>3, <2>4, <2>5, <2>6, <2>7 DEF Next, Main, QuietStep
<1>2. HandInv => CleanHandoverIsWhole
  <2> SUFFICES ASSUME HandInv, mmms.state = "DONE_OK", ~mmms.forced, mmms.corrupted = 0,
                      mmms.first = 1, ~mmms.rejected, device.lost < SeqMax,
                      NEW f \in mmms.closed
               PROVE  Whole(f)
    BY DEF CleanHandoverIsWhole
  <2>1. f \in {FirstFile, SecondFile}
    BY DEF HandInv, Clean
  <2> QED
    BY <2>1, FilesAreWhole
<1>3. UseInv /\ SummaryInv /\ [Next]_vars => SummaryInv'
  BY SummaryInvNext
<1> QED
  BY <1>1, <1>2, <1>3, UseInvInit, UseInvNext, SummaryInvInit, HandInvInit, PTL DEF Spec
=============================================================================

------------------------------- MODULE Pacing -------------------------------
(***************************************************************************)
(* When the transmitters of the test applications send: each keeps the     *)
(* time of its next slot and waits for it (tx_worker of dpdk and dpdk_vmc, *)
(* dpdk_ext_tx_worker: one clock per worker), or looks at the clocks of    *)
(* its targets in turn (raw_tx_worker).  A worker is held up now and then, *)
(* by the scheduler or for want of a buffer; what it then does with the    *)
(* slots it missed differs with the build (TOKEN_BUCKET_TX_ENABLED).       *)
(*                                                                         *)
(* Time is counted in ticks.  What is sent is left to Payload, the numbers *)
(* to SeqTracker, RawPort and UnitTraffic.                                 *)
(***************************************************************************)
EXTENDS Integers

CONSTANTS
    Clocks,         \* number of DPDK workers, or of targets of the raw worker
    DELAY,          \* delay_cycles, delay_ns
    STAGGER,        \* between the first slots of two clocks
    CATCHUP,        \* max_catchup_ns, 2 ms: how late the raw worker makes up for
    MAX_CATCHUP,    \* MAX_CATCHUP_PER_TARGET
    MaxTime         \* bound: ticks

ASSUME PacingAssumption ==
    /\ {Clocks, DELAY, MAX_CATCHUP} \subseteq Nat \ {0} /\ {STAGGER, MaxTime} \subseteq Nat
    /\ CATCHUP \in Nat /\ CATCHUP >= DELAY

VARIABLES
    bucket,          \* TOKEN_BUCKET_TX_ENABLED
    kind,            \* "dpdk", "raw"
    clock,
    next_send_time,
    at,              \* raw worker: Outer, or the clock it looks at, or Clocks at the end of a round
    any_due, catchup_count,
    dropped,         \* history: slots the raw worker took and let pass, in this turn
    earliest         \* history: some slot that was taken, and a delay for each one since

pacingVars == <<bucket, kind, clock, next_send_time, at, any_due, catchup_count, dropped, earliest>>

Clock == 0..(Clocks - 1)
Outer == -1

\* Stagger and, in token-bucket builds, a share of the period for each clock.
FirstSlot(c) == c * STAGGER + IF bucket THEN c * (DELAY \div Clocks) ELSE 0

PacingInit ==
    /\ bucket \in BOOLEAN /\ kind \in {"dpdk", "raw"} /\ clock = 0
    /\ next_send_time = [c \in Clock |-> FirstSlot(c)]
    /\ earliest = [c \in Clock |-> FirstSlot(c) - DELAY]
    /\ at = Outer /\ any_due = FALSE
    /\ catchup_count = [c \in Clock |-> 0] /\ dropped = [c \in Clock |-> 0]

Tick == /\ clock < MaxTime /\ clock' = clock + 1
        /\ UNCHANGED <<bucket, kind, next_send_time, at, any_due, catchup_count, dropped, earliest>>

-----------------------------------------------------------------------------

Limit == IF kind = "dpdk" THEN DELAY ELSE CATCHUP
Behind(c) == next_send_time[c] + Limit < clock

\* mutant of SkippedTo: the missed slots are all made up for
CatchUp(c) == next_send_time[c]

\* Whole periods are skipped, or the clock starts anew.
SkippedTo(c) ==
    IF ~Behind(c) THEN next_send_time[c]
    ELSE IF bucket
    THEN next_send_time[c] + ((clock - next_send_time[c]) \div DELAY) * DELAY
    ELSE clock

\* The slot is taken, whether or not it is used.
Take(c) ==
    /\ next_send_time' = [next_send_time EXCEPT ![c] = SkippedTo(c) + DELAY]
    /\ earliest' = [earliest EXCEPT ![c] = @ + DELAY] \/ earliest' = [earliest EXCEPT ![c] = clock]

\* A DPDK worker waits, takes the slot, and then may have no buffer.
DpdkSlot(c) ==
    /\ kind = "dpdk" /\ clock >= next_send_time[c] /\ Take(c)
    /\ UNCHANGED <<bucket, kind, clock, at, any_due, catchup_count, dropped>>

\* The raw worker looks at its targets in rounds, as long as one of them was due.
RawTurn ==
    /\ kind = "raw" /\ at = Outer /\ at' = 0
    /\ any_due' = FALSE
    /\ catchup_count' = [c \in Clock |-> 0] /\ dropped' = [c \in Clock |-> 0]
    /\ UNCHANGED <<bucket, kind, clock, next_send_time, earliest>>

\* A target that has had its share of the turn takes its slot and sends nothing.
RawSlot(c) ==
    /\ at = c /\ at' = c + 1
    /\ IF clock < next_send_time[c]
       THEN UNCHANGED <<next_send_time, earliest, any_due, catchup_count, dropped>>
       ELSE /\ Take(c)
            /\ IF bucket
               THEN any_due' = TRUE /\ UNCHANGED <<catchup_count, dropped>>
               ELSE IF catchup_count[c] < MAX_CATCHUP
               THEN /\ any_due' = TRUE
                    /\ catchup_count' = [catchup_count EXCEPT ![c] = @ + 1]
                    /\ UNCHANGED dropped
               ELSE /\ dropped' = [dropped EXCEPT ![c] = @ + 1]
                    /\ UNCHANGED <<any_due, catchup_count>>
    /\ UNCHANGED <<bucket, kind, clock>>

RawRound ==
    /\ at = Clocks /\ any_due' = FALSE
    /\ at' = IF any_due THEN 0 ELSE Outer
    /\ UNCHANGED <<bucket, kind, clock, next_send_time, catchup_count, dropped, earliest>>

PacingNext == Tick \/ RawTurn \/ RawRound \/ \E c \in Clock : DpdkSlot(c) \/ RawSlot(c)

PacingSpec == PacingInit /\ [][PacingNext]_pacingVars

-----------------------------------------------------------------------------
(* Properties *)

\* However long it was held up and however often, a clock gives out n slots from any time
\* on only as that time, and a delay for each slot but the first, have passed, less what it
\* may make up for: one delay for a DPDK worker ("NO burst"), CATCHUP for a raw target.
NoBurst == \A c \in Clock : next_send_time[c] >= earliest[c] + DELAY - Limit

\* In token-bucket builds the clocks stay in the phases they were given ("preserves the
\* phase offset between workers"), whatever was skipped.
PhaseKept == bucket => \A c \in Clock : (next_send_time[c] - FirstSlot(c)) % DELAY = 0

\* A turn of the raw worker lets a slot pass only after the target has had its share, and
\* no more of them than the other targets can make it take rounds.
DropsBounded == \A c \in Clock :
    dropped[c] > 0 => /\ catchup_count[c] = MAX_CATCHUP
                      /\ dropped[c] =< (Clocks - 1) * MAX_CATCHUP + 1

PacingKept == NoBurst /\ PhaseKept /\ DropsBounded
=============================================================================

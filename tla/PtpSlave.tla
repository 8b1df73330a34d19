------------------------------ MODULE PtpSlave ------------------------------
(***************************************************************************)
(* The PTP slave of the DTN test application (dpdk/src/Ptp): one worker    *)
(* thread, the sessions of its port, the network and the PTP master.       *)
(*                                                                         *)
(* A worker iterates: it reads the TSC, drains a burst of packets and      *)
(* ticks the state machine of every session WITH THE TSC READ BEFORE THE   *)
(* BURST.  TSC differences are unsigned, so a timestamp taken while a      *)
(* packet was handled lies in the future of that tick and the difference   *)
(* wraps to nearly 2^64.                                                   *)
(*                                                                         *)
(* A TSC value is kept as its AGE, the cycles that have passed since it    *)
(* was read, so a fresh rte_rdtsc() is 0 and no counter grows for ever;    *)
(* ages of Cap and more are not told apart.  Time passes where the code    *)
(* reads the TSC, by 1..MaxGap cycles.                                     *)
(*                                                                         *)
(* The DPDK worker is this module; the raw-socket worker (ports 12, 13)    *)
(* is the instance with BurstSize = 1 and NSession = 1.                    *)
(*                                                                         *)
(* Left out: packet layout, the debug prints and the statistics counters   *)
(* (no branch reads them).  Timestamps t1..t4 are reduced to which         *)
(* exchange they belong to.                                                *)
(***************************************************************************)
EXTENDS Integers, FiniteSets

CONSTANTS
    NSession,     \* sessions of the port (one per VLAN)
    Cap,          \* largest age of a TSC value that is told apart
    MaxGap,       \* most TSC cycles between two reads of the TSC by the worker
    ReqInterval,  \* PTP_DELAY_REQ_INTERVAL_MS, in cycles
    RespTimeout,  \* PTP_DELAY_RESP_TIMEOUT_SEC, in cycles
    SyncTimeout,  \* PTP_SYNC_TIMEOUT_SEC, in cycles
    SeqMod,       \* delay_req_seq_id is taken modulo SeqMod (2^16)
    Lifetime,     \* a packet survives at most this many newer Delay_Reqs
    BurstSize     \* PTP_RX_BURST_SIZE (1 for the raw-socket worker)

\* the cycles between the TSC read at the head of an iteration and its end: the
\* burst and one transmission per session read the TSC too
Iteration == (BurstSize + NSession) * MaxGap

ASSUME PtpAssumption ==
    /\ NSession \in Nat \ {0} /\ BurstSize \in Nat /\ MaxGap \in Nat \ {0}
    /\ {ReqInterval, RespTimeout, SyncTimeout} \subseteq Nat
    /\ Cap \in Nat
    /\ \A t \in {ReqInterval, RespTimeout, SyncTimeout} :
          Cap > t + Iteration  \* so that capped ages compare as the real ones
    /\ SeqMod \in Nat \ {0} /\ Lifetime \in 0..(SeqMod - 1)

VARIABLES
    session,      \* port->sessions[], one record per session
    current_tsc,  \* the worker's local, read at the head of the iteration
    pc,           \* where the worker is: "head", "rx", "tick", "exited"
    turn,         \* the session whose tick is next
    burst,        \* packets still to come in this burst
    running,      \* ptp_workers_running
    syncs,        \* sessions with a Sync in flight
    delay,        \* Delay_Req and Delay_Resp messages in flight
    master        \* the master is alive

vars == <<session, current_tsc, pc, turn, burst, running, syncs, delay, master>>

Session == 1..NSession
Tsc == 0..Cap
Seq16 == 0..(SeqMod - 1)
State == {"INIT", "LISTENING", "SYNC_RECEIVED", "DELAY_REQ_SENT", "SYNCED",
          "ERROR"}

\* age: how many Delay_Reqs its session has sent after the one it belongs to
DelayMsg == [type : {"req", "resp"}, to : Session, seq : Seq16,
             age : 0..Lifetime]

\* t3_of_t2: t3 was taken in the exchange of the stored t1 and t2
\* offset:   what offset_ns and delay_ns were computed from
PtpSession == [state : State, last_state_change : Tsc, last_sync_tsc : Tsc,
               delay_req_seq_id : Seq16, last_delay_req_seq_id : Seq16,
               is_synced : BOOLEAN, t3_of_t2 : BOOLEAN,
               offset : {"none", "zero", "exchange", "mixed"}]

-----------------------------------------------------------------------------
(* uint64_t and uint16_t arithmetic.                                       *)

\* a TSC value of age a, d cycles later
Older(a, d) == IF a + d < Cap THEN a + d ELSE Cap
\* now - then > timeout and now - then >= timeout for two TSC values given by
\* their ages: if then is the younger one, the unsigned difference wraps
Exceeds(now, then, timeout) == then < now \/ then - now > timeout
Reaches(now, then, timeout) == then < now \/ then - now >= timeout

\* delay_req_seq_id wraps with its width
NextSeq(q) == IF q + 1 < SeqMod THEN q + 1 ELSE 0

-----------------------------------------------------------------------------
(* The handlers, as functions of the session record.                       *)

\* ptp_session_init
SessionInit ==
    [state |-> "INIT", last_state_change |-> Cap, last_sync_tsc |-> Cap,
     delay_req_seq_id |-> 0, last_delay_req_seq_id |-> 0,
     is_synced |-> FALSE, t3_of_t2 |-> FALSE, offset |-> "none"]

\* mutant of HandleSync: t1 and t2 are taken from every Sync
HandleSyncAlways(ses) ==
    IF ses.state \in {"LISTENING", "SYNCED", "ERROR"}
    THEN [ses EXCEPT !.last_sync_tsc = 0, !.state = "SYNC_RECEIVED",
                     !.last_state_change = 0, !.t3_of_t2 = FALSE]
    ELSE [ses EXCEPT !.last_sync_tsc = 0, !.t3_of_t2 = FALSE]

\* ptp_handle_sync: the time of the last Sync is always recorded, t1 and t2
\* only when no exchange is under way
HandleSync(ses) ==
    IF ses.state \in {"LISTENING", "SYNCED", "ERROR"}
    THEN [ses EXCEPT !.last_sync_tsc = 0, !.state = "SYNC_RECEIVED",
                     !.last_state_change = 0, !.t3_of_t2 = FALSE]
    ELSE [ses EXCEPT !.last_sync_tsc = 0]

\* ptp_calculate_offset_delay, with the t4 of message m; the master may leave
\* t4 empty, and then both values are zero
Offset(ses, m, filled) ==
    IF ~filled THEN "zero"
    ELSE IF ses.t3_of_t2 /\ m.age = 0 THEN "exchange" ELSE "mixed"

\* mutant of HandleDelayResp: the state is not looked at
HandleDelayRespAny(ses, m, filled) ==
    IF m.seq = ses.last_delay_req_seq_id
    THEN [ses EXCEPT !.offset = Offset(ses, m, filled), !.state = "SYNCED",
                     !.is_synced = TRUE, !.last_state_change = 0]
    ELSE ses

\* ptp_handle_delay_resp: the exchange is completed by a match only, and only
\* while the session waits for it.  (t4 itself is stored on every match; no
\* one reads it but the computation that follows here.)
HandleDelayResp(ses, m, filled) ==
    IF m.seq = ses.last_delay_req_seq_id /\ ses.state = "DELAY_REQ_SENT"
    THEN [ses EXCEPT !.offset = Offset(ses, m, filled), !.state = "SYNCED",
                     !.is_synced = TRUE, !.last_state_change = 0]
    ELSE ses

\* mutant of SendDue: a signed difference, to the latest Sync
SendDueFromLastSync(ses, now) ==
    /\ ses.state = "SYNC_RECEIVED"
    /\ ses.last_sync_tsc - now >= ReqInterval

\* a tick that is due to send a Delay_Req
SendDue(ses, now) ==
    /\ ses.state = "SYNC_RECEIVED"
    /\ Reaches(now, ses.last_state_change, ReqInterval)

\* ptp_send_delay_req and the tick around it, when the packet is sent
Sent(ses, now) ==
    [ses EXCEPT !.t3_of_t2 = TRUE,
                !.last_delay_req_seq_id = ses.delay_req_seq_id,
                !.delay_req_seq_id = NextSeq(ses.delay_req_seq_id),
                !.state = "DELAY_REQ_SENT", !.last_state_change = now]

\* mutant of SendFailed: the sequence id is used up
SendFailedBurnsId(ses) ==
    [ses EXCEPT !.state = "ERROR", !.delay_req_seq_id = NextSeq(@)]

\* the same when it is not: last_state_change keeps the time of the Sync
SendFailed(ses) == [ses EXCEPT !.state = "ERROR"]

\* ptp_state_machine_tick, the branches that send nothing
ToListening(ses, now) ==
    [ses EXCEPT !.state = "LISTENING", !.last_state_change = now]

RespOverdue(ses, now) ==
    /\ ses.state = "DELAY_REQ_SENT"
    /\ Exceeds(now, ses.last_state_change, RespTimeout)

\* mutants of SyncOverdue: the other time limit; none
SyncOverdueSoon(ses, now) ==
    /\ ses.state = "SYNCED"
    /\ Exceeds(now, ses.last_sync_tsc, RespTimeout)

SyncNeverOverdue(ses, now) == FALSE

SyncOverdue(ses, now) ==
    /\ ses.state = "SYNCED"
    /\ Exceeds(now, ses.last_sync_tsc, SyncTimeout)

ErrorOver(ses, now) ==
    /\ ses.state = "ERROR"
    /\ Exceeds(now, ses.last_state_change, SyncTimeout)

Tick(ses, now) ==
    IF ses.state = "INIT" \/ RespOverdue(ses, now) \/ ErrorOver(ses, now)
    THEN ToListening(ses, now)
    ELSE IF SyncOverdue(ses, now)
    THEN [ToListening(ses, now) EXCEPT !.is_synced = FALSE]
    ELSE ses

-----------------------------------------------------------------------------
Init ==
    /\ session = [s \in Session |-> SessionInit]
    /\ current_tsc = 0
    /\ pc = "head" /\ turn = 1 /\ burst = 0
    /\ running = TRUE
    /\ syncs = {} /\ delay = {}
    /\ master = TRUE

\* the TSC is read: d cycles have passed for every TSC value kept
Elapse(ses, d) ==
    [ses EXCEPT !.last_state_change = Older(@, d), !.last_sync_tsc = Older(@, d)]

\* the head of the loop: read the TSC, then poll the RX queue
BeginIteration ==
    /\ pc = "head" /\ running
    /\ \E d \in 1..MaxGap : session' = [s \in Session |-> Elapse(session[s], d)]
    /\ current_tsc' = 0
    /\ burst' = BurstSize
    /\ pc' = "rx"
    /\ UNCHANGED <<turn, running, syncs, delay, master>>

\* one packet of the burst, a Sync for session s
RxSync(s) ==
    /\ pc = "rx" /\ burst > 0 /\ s \in syncs
    /\ \E d \in 1..MaxGap :
          /\ session' = [[x \in Session |-> Elapse(session[x], d)]
                            EXCEPT ![s] = HandleSync(@)]
          /\ current_tsc' = Older(current_tsc, d)
    /\ syncs' = syncs \ {s}
    /\ burst' = burst - 1
    /\ UNCHANGED <<pc, turn, running, delay, master>>

\* one packet of the burst, a Delay_Resp
RxDelayResp(m) ==
    /\ pc = "rx" /\ burst > 0 /\ m \in delay /\ m.type = "resp"
    /\ \E d \in 1..MaxGap, filled \in BOOLEAN :
          /\ session' = [[x \in Session |-> Elapse(session[x], d)]
                            EXCEPT ![m.to] = HandleDelayResp(@, m, filled)]
          /\ current_tsc' = Older(current_tsc, d)
    /\ delay' = delay \ {m}
    /\ burst' = burst - 1
    /\ UNCHANGED <<pc, turn, running, syncs, master>>

\* the burst is done, the sessions are ticked in order
RxDone ==
    /\ pc = "rx"
    /\ pc' = "tick" /\ turn' = 1 /\ burst' = 0
    /\ UNCHANGED <<session, current_tsc, running, syncs, delay, master>>

\* after the tick of session s; now is what current_tsc has become, and it goes
\* out of scope with the last session
Advance(s, now) ==
    IF s = NSession
    THEN pc' = "head" /\ turn' = 1 /\ current_tsc' = 0
    ELSE turn' = s + 1 /\ current_tsc' = now /\ UNCHANGED pc

\* every message of s is older by one request once s sends another; a packet
\* older than Lifetime is not in the network any more
Aged(s) ==
    {m \in delay : m.to # s} \cup
    {[m EXCEPT !.age = @ + 1] :
        m \in {x \in delay : x.to = s /\ x.age < Lifetime}}

TickSend(s) ==
    /\ pc = "tick" /\ turn = s /\ SendDue(session[s], current_tsc)
    /\ \/ \E d \in 1..MaxGap :
             /\ session' = [x \in Session |->
                   Elapse(IF x = s THEN Sent(session[s], current_tsc)
                                   ELSE session[x], d)]
             /\ delay' = Aged(s) \cup
                   {[type |-> "req", to |-> s,
                     seq |-> session[s].delay_req_seq_id, age |-> 0]}
             /\ Advance(s, Older(current_tsc, d))
       \/ /\ session' = [session EXCEPT ![s] = SendFailed(@)]
          /\ Advance(s, current_tsc)
          /\ UNCHANGED delay
    /\ UNCHANGED <<burst, running, syncs, master>>

TickOther(s) ==
    /\ pc = "tick" /\ turn = s /\ ~SendDue(session[s], current_tsc)
    /\ session' = [session EXCEPT ![s] = Tick(@, current_tsc)]
    /\ Advance(s, current_tsc)
    /\ UNCHANGED <<burst, running, syncs, delay, master>>

\* ptp_stop clears the flag; the worker leaves at the head of its loop
Stop ==
    /\ running /\ running' = FALSE
    /\ UNCHANGED <<session, current_tsc, pc, turn, burst, syncs, delay, master>>

Exit ==
    /\ pc = "head" /\ ~running /\ pc' = "exited"
    /\ UNCHANGED <<session, current_tsc, turn, burst, running, syncs,
                   delay, master>>

-----------------------------------------------------------------------------
(* The master and the network (not in this repository): Syncs at any time, *)
(* answers that may be repeated, loss of anything, any order, and a master *)
(* that may fall silent.                                                   *)

MasterSync(s) ==
    /\ master /\ syncs' = syncs \cup {s}
    /\ UNCHANGED <<session, current_tsc, pc, turn, burst, running, delay, master>>

MasterAnswer(m) ==
    /\ master /\ m \in delay /\ m.type = "req"
    /\ \E gone \in {{}, {m}} :
          delay' = (delay \ gone) \cup {[m EXCEPT !.type = "resp"]}
    /\ UNCHANGED <<session, current_tsc, pc, turn, burst, running, syncs, master>>

MasterDies ==
    /\ master /\ master' = FALSE
    /\ UNCHANGED <<session, current_tsc, pc, turn, burst, running, syncs, delay>>

Lose ==
    /\ \/ \E s \in syncs : syncs' = syncs \ {s} /\ UNCHANGED delay
       \/ \E m \in delay : delay' = delay \ {m} /\ UNCHANGED syncs
    /\ UNCHANGED <<session, current_tsc, pc, turn, burst, running, master>>

-----------------------------------------------------------------------------
Worker ==
    \/ BeginIteration \/ RxDone \/ Exit
    \/ \E s \in Session : RxSync(s) \/ TickSend(s) \/ TickOther(s)
    \/ \E m \in delay : RxDelayResp(m)

Environment ==
    \/ Stop \/ MasterDies \/ Lose
    \/ \E s \in Session : MasterSync(s)
    \/ \E m \in delay : MasterAnswer(m)

Next == Worker \/ Environment

Spec == Init /\ [][Next]_vars

\* the worker is a thread of its own on a dedicated lcore that never blocks
FairSpec == Spec /\ WF_vars(Worker)

-----------------------------------------------------------------------------
(* Properties.                                                             *)

\* The exchange a session is in, and the abstract specification it implements.
PhaseOf(state) ==
    CASE state = "SYNC_RECEIVED" -> "open"
      [] state = "DELAY_REQ_SENT" -> "asked"
      [] state = "SYNCED" -> "done"
      [] OTHER -> "idle"

Exchange == INSTANCE DelayExchange WITH
    phase <- [s \in Session |-> PhaseOf(session[s].state)],
    result <- [s \in Session |-> session[s].offset]

\* A session runs one complete exchange at a time (ptp_state_machine_tick,
\* ptp_handle_sync, ptp_handle_delay_resp): request only after a Sync, result
\* only from the answer, and a Sync inside an exchange does not restart it.
ImplementsExchange == Exchange!Spec

\* Every variable has its type.
TypeOK ==
    /\ session \in [Session -> PtpSession]
    /\ current_tsc \in Tsc
    /\ pc \in {"head", "rx", "tick", "exited"}
    /\ turn \in Session /\ burst \in 0..BurstSize
    /\ running \in BOOLEAN /\ master \in BOOLEAN
    /\ syncs \subseteq Session /\ delay \subseteq DelayMsg

\* No offset is ever computed from timestamps of two exchanges: t1, t2, t3 and
\* t4 belong together although Syncs keep arriving between the request and its
\* answer, answers come late, twice and out of order, and sequence ids wrap
\* (ptp_handle_sync must not overwrite t1/t2, ptp_handle_delay_resp must match).
OffsetFromOneExchange == \A s \in Session : session[s].offset # "mixed"

\* Why it holds (the inductive part): an open exchange has no t3 yet, one that
\* waits for its answer has, and a message in the network carries the sequence
\* id its age says, so that a match means the latest request and no earlier one.
SeqBack(q, k) == IF q >= k THEN q - k ELSE q - k + SeqMod

ExchangeCoherent ==
    \A s \in Session :
        /\ session[s].state = "SYNC_RECEIVED" => ~session[s].t3_of_t2
        /\ session[s].state = "DELAY_REQ_SENT" => session[s].t3_of_t2
        /\ \A m \in delay : m.to = s =>
              /\ m.seq = SeqBack(session[s].last_delay_req_seq_id, m.age)
              /\ session[s].delay_req_seq_id
                    = NextSeq(session[s].last_delay_req_seq_id)

\* A Sync is answered with at most one Delay_Req: a session sends only in an
\* exchange that has no t3 yet, and sends consecutive sequence ids (a failed
\* transmission burns none).
OneRequestPerSync ==
    [][\A s \in Session :
         session'[s].delay_req_seq_id # session[s].delay_req_seq_id =>
            /\ ~session[s].t3_of_t2 /\ session'[s].t3_of_t2
            /\ session'[s].delay_req_seq_id
                 = NextSeq(session[s].delay_req_seq_id)]_vars

\* A SYNCED session heard a Sync recently: its age never exceeds the timeout
\* by more than an iteration, so "Synced YES" of a SYNCED session is fresh
\* (the tick of the same iteration also catches a late answer).  It is about the
\* state: the flag is_synced stays set when a later exchange times out.
SyncedIsFresh ==
    \A s \in Session :
        session[s].state = "SYNCED" /\ pc = "head"
            => session[s].last_sync_tsc <= SyncTimeout + Iteration

\* A SYNCED session is dropped only when no Sync came for PTP_SYNC_TIMEOUT_SEC.
\* With one packet per iteration it holds; with BurstSize > 1 it does not: when
\* the pending Delay_Resp and a Sync come in one burst, last_sync_tsc is younger
\* than current_tsc and the tick of that iteration drops the session.
SyncLossIsReal ==
    [][\A s \in Session :
         session[s].state = "SYNCED" /\ session'[s].state = "LISTENING"
            => session[s].last_sync_tsc > SyncTimeout]_vars

\* No exchange is stuck: a Sync is followed by a Delay_Req or by an error, as
\* long as the worker runs.  And when the master falls silent, at whatever point of an
\* exchange, every session is back in LISTENING for good.
ExchangesEnd ==
    \A s \in Session :
        /\ session[s].state = "SYNC_RECEIVED" ~>
               session[s].state # "SYNC_RECEIVED" \/ ~running
        /\ ~master ~> ([](session[s].state = "LISTENING") \/ ~running)

=============================================================================

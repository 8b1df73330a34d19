--------------------------- MODULE PtpSlaveProofs ---------------------------
(***************************************************************************)
(* Theorems about PtpSlave for every number of sessions, every burst size, *)
(* timeout, sequence width and packet lifetime PtpAssumption allows.       *)
(*                                                                         *)
(* The inductive invariant is IInv.  OffsetFromOneExchange is not          *)
(* inductive alone: that a matching sequence id means the latest request   *)
(* follows from the relation between the sequence id of every message in   *)
(* flight and its age, and that t3 belongs to t1/t2 from the session's     *)
(* state.                                                                  *)
(***************************************************************************)
EXTENDS PtpSlave, TLAPS

IInv == TypeOK /\ ExchangeCoherent /\ OffsetFromOneExchange

-----------------------------------------------------------------------------
(* The arithmetic of TSC ages and sequence ids.                            *)

\* An age stays an age.
LEMMA OlderType ==
    ASSUME NEW a \in Tsc, NEW d \in Nat
    PROVE  Older(a, d) \in Tsc
  BY PtpAssumption DEF Older, Tsc

\* The successor of a sequence id is a sequence id.
LEMMA NextSeqType ==
    ASSUME NEW q \in Seq16
    PROVE  NextSeq(q) \in Seq16
  BY PtpAssumption DEF NextSeq, Seq16

\* A message of the latest request carries its sequence id.
LEMMA SeqBackZero ==
    ASSUME NEW q \in Seq16
    PROVE  SeqBack(q, 0) = q
  BY PtpAssumption DEF SeqBack, Seq16

\* A message keeps its sequence id when the next request makes it older.
LEMMA SeqBackNext ==
    ASSUME NEW q \in Seq16, NEW k \in 0..Lifetime, k < Lifetime
    PROVE  SeqBack(NextSeq(q), k + 1) = SeqBack(q, k)
  BY PtpAssumption DEF SeqBack, NextSeq, Seq16

\* Within its lifetime a message that matches belongs to the latest request.
LEMMA MatchIsLatest ==
    ASSUME NEW q \in Seq16, NEW k \in 0..Lifetime, SeqBack(q, k) = q
    PROVE  k = 0
  BY PtpAssumption DEF SeqBack, Seq16

-----------------------------------------------------------------------------
(* What the handlers do to a session record.                               *)

\* The passing of time touches the two TSC values of a session only.
LEMMA ElapseSession ==
    ASSUME NEW ses \in PtpSession, NEW d \in Nat
    PROVE  /\ Elapse(ses, d) \in PtpSession
           /\ Elapse(ses, d).state = ses.state
           /\ Elapse(ses, d).t3_of_t2 = ses.t3_of_t2
           /\ Elapse(ses, d).offset = ses.offset
           /\ Elapse(ses, d).delay_req_seq_id = ses.delay_req_seq_id
           /\ Elapse(ses, d).last_delay_req_seq_id = ses.last_delay_req_seq_id
  <1>1. /\ Older(ses.last_state_change, d) \in Tsc
        /\ Older(ses.last_sync_tsc, d) \in Tsc
    BY OlderType DEF PtpSession
  <1>. QED
    BY <1>1 DEF Elapse, PtpSession

\* A Sync starts an exchange without t3 or leaves the exchange alone.
LEMMA HandleSyncSession ==
    ASSUME NEW ses \in PtpSession
    PROVE  LET new == HandleSync(ses) IN
           /\ new \in PtpSession
           /\ new.offset = ses.offset
           /\ new.delay_req_seq_id = ses.delay_req_seq_id
           /\ new.last_delay_req_seq_id = ses.last_delay_req_seq_id
           /\ \/ new.state = "SYNC_RECEIVED" /\ ~new.t3_of_t2
                 /\ ses.state \in {"LISTENING", "SYNCED", "ERROR"}
              \/ new.state = ses.state /\ new.t3_of_t2 = ses.t3_of_t2
  <1>1. 0 \in Tsc
    BY PtpAssumption DEF Tsc
  <1>. QED
    BY <1>1 DEF HandleSync, PtpSession, State

\* A Delay_Resp completes the exchange that waits for it or changes nothing.
LEMMA HandleDelayRespSession ==
    ASSUME NEW ses \in PtpSession, NEW m \in DelayMsg, NEW filled \in BOOLEAN
    PROVE  LET new == HandleDelayResp(ses, m, filled) IN
           /\ new \in PtpSession
           /\ new.delay_req_seq_id = ses.delay_req_seq_id
           /\ new.last_delay_req_seq_id = ses.last_delay_req_seq_id
           /\ new.t3_of_t2 = ses.t3_of_t2
           /\ \/ new = ses
              \/ /\ m.seq = ses.last_delay_req_seq_id
                 /\ ses.state = "DELAY_REQ_SENT" /\ new.state = "SYNCED"
                 /\ new.offset = Offset(ses, m, filled)
  <1>1. 0 \in Tsc
    BY PtpAssumption DEF Tsc
  <1>2. Offset(ses, m, filled) \in {"zero", "exchange", "mixed"}
    BY DEF Offset
  <1>. QED
    BY <1>1, <1>2 DEF HandleDelayResp, PtpSession, State

\* A transmitted Delay_Req takes t3 and the next sequence id.
LEMMA SentSession ==
    ASSUME NEW ses \in PtpSession, NEW now \in Tsc
    PROVE  LET new == Sent(ses, now) IN
           /\ new \in PtpSession
           /\ new.state = "DELAY_REQ_SENT" /\ new.t3_of_t2
           /\ new.offset = ses.offset
           /\ new.last_delay_req_seq_id = ses.delay_req_seq_id
           /\ new.delay_req_seq_id = NextSeq(ses.delay_req_seq_id)
  <1>1. NextSeq(ses.delay_req_seq_id) \in Seq16
    BY NextSeqType DEF PtpSession
  <1>. QED
    BY <1>1 DEF Sent, PtpSession, State

\* A tick that sends nothing leaves the exchange alone or abandons it.
LEMMA QuietSession ==
    ASSUME NEW ses \in PtpSession, NEW now \in Tsc,
           NEW new \in {SendFailed(ses), Tick(ses, now)}
    PROVE  /\ new \in PtpSession
           /\ new.offset = ses.offset
           /\ new.delay_req_seq_id = ses.delay_req_seq_id
           /\ new.last_delay_req_seq_id = ses.last_delay_req_seq_id
           /\ new.t3_of_t2 = ses.t3_of_t2
           /\ new.state = ses.state \/ new.state \in {"LISTENING", "ERROR"}
  <1>1. CASE new = SendFailed(ses)
    BY <1>1 DEF SendFailed, PtpSession, State
  <1>2. CASE new = Tick(ses, now)
    <2>1. new \in {ses, ToListening(ses, now),
                   [ToListening(ses, now) EXCEPT !.is_synced = FALSE]}
      BY <1>2 DEF Tick
    <2>. QED
      BY <2>1 DEF ToListening, PtpSession, State
  <1>. QED
    BY <1>1, <1>2

-----------------------------------------------------------------------------
(* The invariant.                                                          *)

\* The state of the exchanges after a step in which sessions only got older,
\* or became what the handlers make of them, stays coherent when no message is
\* added; the step that sends is treated on its own below.
LEMMA QuietStep ==
    ASSUME IInv, session' \in [Session -> PtpSession], delay' \subseteq delay,
           \A s \in Session :
              LET old == session[s]  new == session'[s] IN
              /\ new.offset # "mixed"
              /\ new.delay_req_seq_id = old.delay_req_seq_id
              /\ new.last_delay_req_seq_id = old.last_delay_req_seq_id
              /\ \/ new.state = old.state /\ new.t3_of_t2 = old.t3_of_t2
                 \/ new.state = "SYNC_RECEIVED" /\ ~new.t3_of_t2
                 \/ new.state \in {"LISTENING", "ERROR", "SYNCED"}
    PROVE  ExchangeCoherent' /\ OffsetFromOneExchange'
  BY DEF IInv, TypeOK, ExchangeCoherent, OffsetFromOneExchange

\* Messages that only travel, are lost or are answered keep it too.
LEMMA NetworkStep ==
    ASSUME IInv, UNCHANGED session, delay' \subseteq DelayMsg,
           \A m \in delay' : \E n \in delay :
              m.to = n.to /\ m.seq = n.seq /\ m.age = n.age
    PROVE  ExchangeCoherent' /\ OffsetFromOneExchange'
  BY DEF IInv, TypeOK, ExchangeCoherent, OffsetFromOneExchange

\* The network only makes messages older.
LEMMA AgedMsg ==
    ASSUME TypeOK, NEW s \in Session, NEW m \in Aged(s)
    PROVE  /\ m \in DelayMsg
           /\ \/ m \in delay /\ m.to # s
              \/ \E n \in delay : /\ n.to = s /\ m.to = s /\ m.seq = n.seq
                                  /\ n.age < Lifetime /\ m.age = n.age + 1
  <1>1. CASE m \in delay /\ m.to # s
    BY <1>1 DEF TypeOK
  <1>2. CASE \E n \in {x \in delay : x.to = s /\ x.age < Lifetime} :
                m = [n EXCEPT !.age = @ + 1]
    <2>1. PICK n \in delay : /\ n.to = s /\ n.age < Lifetime
                             /\ m = [n EXCEPT !.age = @ + 1]
      BY <1>2
    <2>2. n \in DelayMsg /\ n.age + 1 \in 0..Lifetime
      BY <2>1, PtpAssumption DEF TypeOK, DelayMsg
    <2>. QED
      BY <2>1, <2>2 DEF DelayMsg
  <1>. QED
    BY <1>1, <1>2 DEF Aged

\* After a tick the worker is at its next session or at the head of its loop.
LEMMA AdvanceType ==
    ASSUME NEW s \in Session, NEW now \in Tsc, pc = "tick", Advance(s, now)
    PROVE  /\ current_tsc' \in Tsc /\ turn' \in Session
           /\ pc' \in {"head", "tick"}
  BY PtpAssumption DEF Advance, Session, Tsc

\* The invariant holds after ptp_session_init.
LEMMA InitInv == Init => IInv
  <1>. SUFFICES ASSUME Init PROVE IInv
    OBVIOUS
  <1>1. SessionInit \in PtpSession
    BY PtpAssumption DEF SessionInit, PtpSession, State, Tsc, Seq16
  <1>2. TypeOK
    BY <1>1, PtpAssumption DEF Init, TypeOK, Session, Tsc
  <1>. QED
    BY <1>2 DEF IInv, Init, ExchangeCoherent, OffsetFromOneExchange, SessionInit

\* The step that transmits a Delay_Req.
LEMMA TransmitInv ==
    ASSUME IInv, NEW s \in Session, NEW d \in 1..MaxGap,
           pc = "tick", SendDue(session[s], current_tsc),
           session' = [x \in Session |->
              Elapse(IF x = s THEN Sent(session[s], current_tsc)
                              ELSE session[x], d)],
           delay' = Aged(s) \cup
              {[type |-> "req", to |-> s,
                seq |-> session[s].delay_req_seq_id, age |-> 0]}
    PROVE  /\ session' \in [Session -> PtpSession] /\ delay' \subseteq DelayMsg
           /\ ExchangeCoherent' /\ OffsetFromOneExchange'
  <1>. DEFINE new == Sent(session[s], current_tsc)
              req == [type |-> "req", to |-> s,
                      seq |-> session[s].delay_req_seq_id, age |-> 0]
  <1>0. d \in Nat /\ 0 \in 0..Lifetime
    BY PtpAssumption
  <1>1. session[s] \in PtpSession /\ current_tsc \in Tsc
    BY DEF IInv, TypeOK
  <1>2. /\ new \in PtpSession /\ new.state = "DELAY_REQ_SENT" /\ new.t3_of_t2
        /\ new.offset = session[s].offset
        /\ new.last_delay_req_seq_id = session[s].delay_req_seq_id
        /\ new.delay_req_seq_id = NextSeq(session[s].delay_req_seq_id)
    BY <1>1, SentSession
  <1>. HIDE DEF new
  <1>3. \A x \in Session : session'[x] = Elapse(IF x = s THEN new ELSE session[x], d)
    BY DEF new
  <1>4. session' \in [Session -> PtpSession]
    <2>1. \A x \in Session : (IF x = s THEN new ELSE session[x]) \in PtpSession
      BY <1>2 DEF IInv, TypeOK
    <2>2. \A x \in Session : Elapse(IF x = s THEN new ELSE session[x], d) \in PtpSession
      BY <2>1, <1>0, ElapseSession
    <2>. QED
      BY <2>2 DEF new
  <1>5. /\ session'[s].state = "DELAY_REQ_SENT" /\ session'[s].t3_of_t2
        /\ session'[s].offset = session[s].offset
        /\ session'[s].last_delay_req_seq_id = session[s].delay_req_seq_id
        /\ session'[s].delay_req_seq_id = NextSeq(session[s].delay_req_seq_id)
    BY <1>0, <1>2, <1>3, ElapseSession
  <1>6. ASSUME NEW x \in Session, x # s
        PROVE  /\ session'[x].state = session[x].state
               /\ session'[x].t3_of_t2 = session[x].t3_of_t2
               /\ session'[x].offset = session[x].offset
               /\ session'[x].last_delay_req_seq_id = session[x].last_delay_req_seq_id
               /\ session'[x].delay_req_seq_id = session[x].delay_req_seq_id
    BY <1>0, <1>3, <1>6, ElapseSession DEF IInv, TypeOK
  <1>7. req \in DelayMsg
    BY <1>0, <1>1 DEF DelayMsg, PtpSession
  <1>8. delay' \subseteq DelayMsg
    BY <1>7, AgedMsg DEF IInv
  <1>9. ASSUME NEW m \in delay', m.to = s
        PROVE  /\ m.seq = SeqBack(session[s].delay_req_seq_id, m.age)
               /\ NextSeq(session[s].delay_req_seq_id)
                    = NextSeq(session[s].delay_req_seq_id)
    <2>1. CASE m = req
      BY <2>1, <1>1, SeqBackZero DEF PtpSession
    <2>2. CASE m \in Aged(s)
      <3>1. PICK n \in delay : /\ n.to = s /\ m.seq = n.seq
                               /\ n.age < Lifetime /\ m.age = n.age + 1
        BY <2>2, <1>9, AgedMsg DEF IInv
      <3>2. /\ n.seq = SeqBack(session[s].last_delay_req_seq_id, n.age)
            /\ session[s].delay_req_seq_id
                 = NextSeq(session[s].last_delay_req_seq_id)
        BY <3>1 DEF IInv, ExchangeCoherent
      <3>3. n.age \in 0..Lifetime /\ session[s].last_delay_req_seq_id \in Seq16
        BY <1>1 DEF IInv, TypeOK, DelayMsg, PtpSession
      <3>4. SeqBack(session[s].delay_req_seq_id, n.age + 1)
              = SeqBack(session[s].last_delay_req_seq_id, n.age)
        BY <3>1, <3>2, <3>3, SeqBackNext
      <3>. QED
        BY <3>1, <3>2, <3>4
    <2>. QED
      BY <2>1, <2>2
  <1>10. ASSUME NEW x \in Session, x # s, NEW m \in delay', m.to = x
         PROVE  m \in delay
    BY <1>10, AgedMsg DEF IInv
  <1>11. ExchangeCoherent'
    <2>1. ASSUME NEW x \in Session
          PROVE  /\ session'[x].state = "SYNC_RECEIVED" => ~session'[x].t3_of_t2
                 /\ session'[x].state = "DELAY_REQ_SENT" => session'[x].t3_of_t2
                 /\ \A m \in delay' : m.to = x =>
                      /\ m.seq = SeqBack(session'[x].last_delay_req_seq_id, m.age)
                      /\ session'[x].delay_req_seq_id
                            = NextSeq(session'[x].last_delay_req_seq_id)
      <3>1. CASE x = s
        BY <3>1, <1>5, <1>9
      <3>2. CASE x # s
        BY <3>2, <1>6, <1>10 DEF IInv, ExchangeCoherent
      <3>. QED
        BY <3>1, <3>2
    <2>. QED
      BY <2>1 DEF ExchangeCoherent
  <1>12. OffsetFromOneExchange'
    BY <1>5, <1>6 DEF IInv, OffsetFromOneExchange
  <1>. QED
    BY <1>4, <1>8, <1>11, <1>12

-----------------------------------------------------------------------------
(* Every step keeps the invariant: one step of the proof per action.       *)

\* The invariant is inductive.
LEMMA NextInv == IInv /\ [Next]_vars => IInv'
  <1>. SUFFICES ASSUME IInv, [Next]_vars PROVE IInv'
    OBVIOUS
  <1>0. /\ TypeOK
        /\ \A s \in Session : session[s] \in PtpSession
    BY DEF IInv, TypeOK
  <1>1. CASE BeginIteration
    <2>1. PICK d \in 1..MaxGap :
             session' = [s \in Session |-> Elapse(session[s], d)]
      BY <1>1 DEF BeginIteration
    <2>2. d \in Nat
      OBVIOUS
    <2>3. session' \in [Session -> PtpSession]
      BY <1>0, <2>1, <2>2, ElapseSession
    <2>4. ExchangeCoherent' /\ OffsetFromOneExchange'
      BY <1>0, <1>1, <2>1, <2>2, <2>3, ElapseSession, QuietStep
         DEF BeginIteration, IInv, OffsetFromOneExchange
    <2>5. TypeOK'
      BY <1>0, <1>1, <2>3, PtpAssumption DEF BeginIteration, TypeOK, Tsc
    <2>. QED
      BY <2>4, <2>5 DEF IInv
  <1>2. ASSUME NEW s \in Session, RxSync(s)
        PROVE  IInv'
    <2>1. PICK d \in 1..MaxGap :
             /\ session' = [[x \in Session |-> Elapse(session[x], d)]
                              EXCEPT ![s] = HandleSync(@)]
             /\ current_tsc' = Older(current_tsc, d)
      BY <1>2 DEF RxSync
    <2>2. d \in Nat
      OBVIOUS
    <2>3. \A x \in Session : session'[x] =
             IF x = s THEN HandleSync(Elapse(session[x], d))
                      ELSE Elapse(session[x], d)
      BY <2>1
    <2>4. session' \in [Session -> PtpSession]
      <3>1. \A x \in Session : Elapse(session[x], d) \in PtpSession
        BY <1>0, <2>2, ElapseSession
      <3>2. HandleSync(Elapse(session[s], d)) \in PtpSession
        BY <3>1, HandleSyncSession
      <3>. QED
        BY <2>1, <3>1, <3>2
    <2>5. ExchangeCoherent' /\ OffsetFromOneExchange'
      <3>1. ASSUME NEW x \in Session
            PROVE  LET old == session[x]  new == session'[x] IN
                   /\ new.offset = old.offset
                   /\ new.delay_req_seq_id = old.delay_req_seq_id
                   /\ new.last_delay_req_seq_id = old.last_delay_req_seq_id
                   /\ \/ new.state = old.state /\ new.t3_of_t2 = old.t3_of_t2
                      \/ new.state = "SYNC_RECEIVED" /\ ~new.t3_of_t2
        <4>1. /\ Elapse(session[x], d) \in PtpSession
              /\ Elapse(session[x], d).state = session[x].state
              /\ Elapse(session[x], d).t3_of_t2 = session[x].t3_of_t2
              /\ Elapse(session[x], d).offset = session[x].offset
              /\ Elapse(session[x], d).delay_req_seq_id
                   = session[x].delay_req_seq_id
              /\ Elapse(session[x], d).last_delay_req_seq_id
                   = session[x].last_delay_req_seq_id
          BY <1>0, <2>2, ElapseSession
        <4>2. CASE x # s
          BY <2>3, <4>1, <4>2
        <4>3. CASE x = s
          <5>. DEFINE e == Elapse(session[x], d)
          <5>1. /\ HandleSync(e).offset = e.offset
                /\ HandleSync(e).delay_req_seq_id = e.delay_req_seq_id
                /\ HandleSync(e).last_delay_req_seq_id = e.last_delay_req_seq_id
                /\ \/ HandleSync(e).state = "SYNC_RECEIVED"
                      /\ ~HandleSync(e).t3_of_t2
                   \/ /\ HandleSync(e).state = e.state
                      /\ HandleSync(e).t3_of_t2 = e.t3_of_t2
            BY <4>1, HandleSyncSession
          <5>2. session'[x] = HandleSync(e)
            BY <2>3, <4>3
          <5>. QED
            BY <4>1, <5>1, <5>2
        <4>. QED
          BY <4>2, <4>3
      <3>2. delay' \subseteq delay
        BY <1>2 DEF RxSync
      <3>. QED
        BY <2>4, <3>1, <3>2, QuietStep DEF IInv, OffsetFromOneExchange
    <2>6. TypeOK'
      <3>1. current_tsc' \in Tsc
        BY <1>0, <2>1, <2>2, OlderType DEF TypeOK
      <3>2. burst' \in 0..BurstSize
        BY <1>0, <1>2, PtpAssumption DEF RxSync, TypeOK
      <3>. QED
        BY <1>0, <1>2, <2>4, <3>1, <3>2 DEF RxSync, TypeOK
    <2>. QED
      BY <2>5, <2>6 DEF IInv
  <1>3. ASSUME NEW m \in delay, RxDelayResp(m)
        PROVE  IInv'
    <2>1. PICK d \in 1..MaxGap, filled \in BOOLEAN :
             /\ session' = [[x \in Session |-> Elapse(session[x], d)]
                              EXCEPT ![m.to] = HandleDelayResp(@, m, filled)]
             /\ current_tsc' = Older(current_tsc, d)
      BY <1>3 DEF RxDelayResp
    <2>2. d \in Nat /\ m \in DelayMsg /\ m.to \in Session
      BY <1>0 DEF TypeOK, DelayMsg
    <2>3. \A x \in Session : session'[x] =
             IF x = m.to THEN HandleDelayResp(Elapse(session[x], d), m, filled)
                         ELSE Elapse(session[x], d)
      BY <2>1
    <2>4. session' \in [Session -> PtpSession]
      <3>1. \A x \in Session : Elapse(session[x], d) \in PtpSession
        BY <1>0, <2>2, ElapseSession
      <3>2. HandleDelayResp(Elapse(session[m.to], d), m, filled) \in PtpSession
        BY <2>2, <3>1, HandleDelayRespSession
      <3>. QED
        BY <2>1, <3>1, <3>2
    <2>5. ExchangeCoherent' /\ OffsetFromOneExchange'
      <3>1. ASSUME NEW x \in Session
            PROVE  LET old == session[x]  new == session'[x] IN
                   /\ new.offset # "mixed"
                   /\ new.delay_req_seq_id = old.delay_req_seq_id
                   /\ new.last_delay_req_seq_id = old.last_delay_req_seq_id
                   /\ \/ new.state = old.state /\ new.t3_of_t2 = old.t3_of_t2
                      \/ new.state = "SYNCED"
        <4>1. /\ Elapse(session[x], d) \in PtpSession
              /\ Elapse(session[x], d).state = session[x].state
              /\ Elapse(session[x], d).t3_of_t2 = session[x].t3_of_t2
              /\ Elapse(session[x], d).offset = session[x].offset
              /\ Elapse(session[x], d).delay_req_seq_id
                   = session[x].delay_req_seq_id
              /\ Elapse(session[x], d).last_delay_req_seq_id
                   = session[x].last_delay_req_seq_id
              /\ session[x].offset # "mixed"
          BY <1>0, <2>2, ElapseSession DEF IInv, OffsetFromOneExchange
        <4>2. CASE x # m.to
          BY <2>3, <4>1, <4>2
        <4>3. CASE x = m.to
          <5>. DEFINE e == Elapse(session[x], d)
                      new == HandleDelayResp(e, m, filled)
          <5>1. /\ new.delay_req_seq_id = e.delay_req_seq_id
                /\ new.last_delay_req_seq_id = e.last_delay_req_seq_id
                /\ \/ new = e
                   \/ /\ m.seq = e.last_delay_req_seq_id
                      /\ e.state = "DELAY_REQ_SENT" /\ new.state = "SYNCED"
                      /\ new.offset = Offset(e, m, filled)
            BY <2>2, <4>1, HandleDelayRespSession
          <5>2. session'[x] = new
            BY <2>3, <4>3
          <5>3. ASSUME m.seq = e.last_delay_req_seq_id,
                       e.state = "DELAY_REQ_SENT"
                PROVE  Offset(e, m, filled) # "mixed"
            <6>1. session[x].t3_of_t2
                  /\ m.seq = SeqBack(session[x].last_delay_req_seq_id, m.age)
              BY <4>1, <4>3, <5>3 DEF IInv, ExchangeCoherent
            <6>2. m.age \in 0..Lifetime
                  /\ session[x].last_delay_req_seq_id \in Seq16
              BY <1>0, <2>2 DEF DelayMsg, PtpSession
            <6>3. m.age = 0
              BY <4>1, <5>3, <6>1, <6>2, MatchIsLatest
            <6>. QED
              BY <4>1, <6>1, <6>3 DEF Offset
          <5>. HIDE DEF e, new
          <5>4. CASE new = e
            BY <4>1, <5>1, <5>2, <5>4 DEF e
          <5>5. CASE new # e
            BY <4>1, <5>1, <5>2, <5>3, <5>5 DEF e
          <5>. QED
            BY <5>4, <5>5
        <4>. QED
          BY <4>2, <4>3
      <3>2. delay' \subseteq delay
        BY <1>3 DEF RxDelayResp
      <3>. QED
        BY <2>4, <3>1, <3>2, QuietStep
    <2>6. TypeOK'
      <3>1. current_tsc' \in Tsc
        BY <1>0, <2>1, <2>2, OlderType DEF TypeOK
      <3>2. burst' \in 0..BurstSize
        BY <1>0, <1>3, PtpAssumption DEF RxDelayResp, TypeOK
      <3>. QED
        BY <1>0, <1>3, <2>4, <3>1, <3>2 DEF RxDelayResp, TypeOK
    <2>. QED
      BY <2>5, <2>6 DEF IInv
  <1>4. CASE RxDone \/ Exit \/ Stop \/ MasterDies
    <2>1. 1 \in Session /\ 0 \in 0..BurstSize
      BY PtpAssumption DEF Session
    <2>2. TypeOK'
      BY <1>0, <1>4, <2>1 DEF RxDone, Exit, Stop, MasterDies, TypeOK
    <2>3. UNCHANGED <<session, delay>>
      BY <1>4 DEF RxDone, Exit, Stop, MasterDies
    <2>. QED
      BY <2>2, <2>3 DEF IInv, ExchangeCoherent, OffsetFromOneExchange
  <1>5. ASSUME NEW s \in Session, TickSend(s)
        PROVE  IInv'
    <2>1. CASE \E d \in 1..MaxGap :
             /\ session' = [x \in Session |->
                   Elapse(IF x = s THEN Sent(session[s], current_tsc)
                                   ELSE session[x], d)]
             /\ delay' = Aged(s) \cup
                   {[type |-> "req", to |-> s,
                     seq |-> session[s].delay_req_seq_id, age |-> 0]}
             /\ Advance(s, Older(current_tsc, d))
      <3>1. PICK d \in 1..MaxGap :
             /\ session' = [x \in Session |->
                   Elapse(IF x = s THEN Sent(session[s], current_tsc)
                                   ELSE session[x], d)]
             /\ delay' = Aged(s) \cup
                   {[type |-> "req", to |-> s,
                     seq |-> session[s].delay_req_seq_id, age |-> 0]}
             /\ Advance(s, Older(current_tsc, d))
        BY <2>1
      <3>2. /\ session' \in [Session -> PtpSession] /\ delay' \subseteq DelayMsg
            /\ ExchangeCoherent' /\ OffsetFromOneExchange'
        BY <1>5, <3>1, TransmitInv DEF TickSend
      <3>3. Older(current_tsc, d) \in Tsc
        BY <1>0, OlderType DEF TypeOK
      <3>4. TypeOK'
        BY <1>0, <1>5, <3>1, <3>2, <3>3, AdvanceType DEF TickSend, TypeOK
      <3>. QED
        BY <3>2, <3>4 DEF IInv
    <2>2. CASE /\ session' = [session EXCEPT ![s] = SendFailed(@)]
               /\ Advance(s, current_tsc)
               /\ UNCHANGED delay
      <3>1. current_tsc \in Tsc
        BY <1>0 DEF TypeOK
      <3>2. LET old == session[s]  new == SendFailed(session[s]) IN
            /\ new \in PtpSession /\ new.offset = old.offset
            /\ new.delay_req_seq_id = old.delay_req_seq_id
            /\ new.last_delay_req_seq_id = old.last_delay_req_seq_id
            /\ new.t3_of_t2 = old.t3_of_t2
            /\ new.state = old.state \/ new.state \in {"LISTENING", "ERROR"}
        BY <1>0, <3>1, QuietSession
      <3>3. /\ session' \in [Session -> PtpSession]
            /\ session'[s] = SendFailed(session[s])
            /\ \A x \in Session \ {s} : session'[x] = session[x]
        BY <1>0, <2>2, <3>2 DEF TypeOK
      <3>4. ExchangeCoherent' /\ OffsetFromOneExchange'
        BY <2>2, <3>2, <3>3, QuietStep DEF IInv, OffsetFromOneExchange
      <3>5. TypeOK'
        BY <1>0, <1>5, <2>2, <3>1, <3>3, AdvanceType DEF TickSend, TypeOK
      <3>. QED
        BY <3>4, <3>5 DEF IInv
    <2>. QED
      BY <1>5, <2>1, <2>2 DEF TickSend
  <1>6. ASSUME NEW s \in Session, TickOther(s)
        PROVE  IInv'
    <2>1. current_tsc \in Tsc
      BY <1>0 DEF TypeOK
    <2>2. LET old == session[s]  new == Tick(session[s], current_tsc) IN
          /\ new \in PtpSession /\ new.offset = old.offset
          /\ new.delay_req_seq_id = old.delay_req_seq_id
          /\ new.last_delay_req_seq_id = old.last_delay_req_seq_id
          /\ new.t3_of_t2 = old.t3_of_t2
          /\ new.state = old.state \/ new.state \in {"LISTENING", "ERROR"}
      BY <1>0, <2>1, QuietSession
    <2>3. /\ session' \in [Session -> PtpSession]
          /\ session'[s] = Tick(session[s], current_tsc)
          /\ \A x \in Session \ {s} : session'[x] = session[x]
      BY <1>0, <1>6, <2>2 DEF TypeOK, TickOther
    <2>4. ExchangeCoherent' /\ OffsetFromOneExchange'
      <3>1. delay' \subseteq delay
        BY <1>6 DEF TickOther
      <3>. QED
        BY <3>1, <2>2, <2>3, QuietStep DEF IInv, OffsetFromOneExchange
    <2>5. TypeOK'
      BY <1>0, <1>6, <2>1, <2>3, AdvanceType DEF TickOther, TypeOK
    <2>. QED
      BY <2>4, <2>5 DEF IInv
  <1>7. ASSUME NEW s \in Session, MasterSync(s)
        PROVE  IInv'
    BY <1>0, <1>7 DEF MasterSync, TypeOK, IInv, ExchangeCoherent,
       OffsetFromOneExchange
  <1>8. ASSUME NEW m \in delay, MasterAnswer(m)
        PROVE  IInv'
    <2>1. PICK gone \in {{}, {m}} :
             delay' = (delay \ gone) \cup {[m EXCEPT !.type = "resp"]}
      BY <1>8 DEF MasterAnswer
    <2>2. m \in DelayMsg
      BY <1>0 DEF TypeOK
    <2>3. /\ [m EXCEPT !.type = "resp"] \in DelayMsg
          /\ [m EXCEPT !.type = "resp"].to = m.to
          /\ [m EXCEPT !.type = "resp"].seq = m.seq
          /\ [m EXCEPT !.type = "resp"].age = m.age
      BY <2>2 DEF DelayMsg
    <2>4. delay' \subseteq DelayMsg
      BY <1>0, <2>1, <2>3 DEF TypeOK
    <2>5. ExchangeCoherent' /\ OffsetFromOneExchange'
      BY <1>8, <2>1, <2>3, <2>4, NetworkStep DEF MasterAnswer
    <2>6. TypeOK'
      BY <1>0, <1>8, <2>4 DEF MasterAnswer, TypeOK
    <2>. QED
      BY <2>5, <2>6 DEF IInv
  <1>9. CASE Lose
    <2>1. /\ UNCHANGED session /\ delay' \subseteq delay /\ syncs' \subseteq syncs
      BY <1>9 DEF Lose
    <2>2. TypeOK'
      BY <1>0, <1>9, <2>1 DEF Lose, TypeOK
    <2>3. ExchangeCoherent' /\ OffsetFromOneExchange'
      BY <2>1 DEF IInv, ExchangeCoherent, OffsetFromOneExchange
    <2>. QED
      BY <2>2, <2>3 DEF IInv
  <1>10. CASE UNCHANGED vars
    BY <1>10 DEF vars, IInv, TypeOK, ExchangeCoherent, OffsetFromOneExchange
  <1>. QED
    BY <1>1, <1>2, <1>3, <1>4, <1>5, <1>6, <1>7, <1>8, <1>9, <1>10
       DEF Next, Worker, Environment

\* The invariant holds in every reachable state.
LEMMA Invariant == Spec => []IInv
  <1>. QED
    BY InitInv, NextInv, PTL DEF Spec

-----------------------------------------------------------------------------
(* The theorems.                                                           *)

\* The type invariant of PtpSlave.
THEOREM TypeCorrect == Spec => []TypeOK
  <1>1. IInv => TypeOK
    BY DEF IInv
  <1>. QED
    BY <1>1, Invariant, PTL

\* No session ever publishes an offset computed from two exchanges, whatever
\* the network loses, repeats and reorders within a packet's lifetime.
THEOREM OffsetIsCoherent == Spec => []OffsetFromOneExchange
  <1>1. IInv => OffsetFromOneExchange
    BY DEF IInv
  <1>. QED
    BY <1>1, Invariant, PTL

\* How one step changes the phase, the result and the next sequence id of a
\* session: the cases of the abstract specification.
SessionStep(old, new) ==
    LET was == PhaseOf(old.state)  is == PhaseOf(new.state)
        same == /\ new.offset = old.offset
                /\ new.delay_req_seq_id = old.delay_req_seq_id IN
    \/ same /\ is = was
    \/ same /\ is = "open" /\ was \in {"idle", "done"}
    \/ same /\ is = "idle"
    \/ /\ was = "asked" /\ is = "done" /\ new.offset \in {"zero", "exchange"}
       /\ new.delay_req_seq_id = old.delay_req_seq_id
    \/ /\ was = "open" /\ is = "asked" /\ new.offset = old.offset
       /\ ~old.t3_of_t2 /\ new.t3_of_t2
       /\ new.delay_req_seq_id = NextSeq(old.delay_req_seq_id)

Still(old, new) == /\ PhaseOf(new.state) = PhaseOf(old.state)
                   /\ new.offset = old.offset
                   /\ new.delay_req_seq_id = old.delay_req_seq_id

\* A step makes one of those changes to one session and none to the others.
LEMMA OneSessionSteps ==
    ASSUME IInv, IInv', [Next]_vars
    PROVE  \E s \in Session :
              /\ SessionStep(session[s], session'[s])
              /\ \A x \in Session \ {s} : Still(session[x], session'[x])
  <1>0. /\ TypeOK /\ 1 \in Session
        /\ \A s \in Session : session[s] \in PtpSession
    BY PtpAssumption DEF IInv, TypeOK, Session
  <1>1. ASSUME \A x \in Session : Still(session[x], session'[x])
        PROVE  \E s \in Session :
                  /\ SessionStep(session[s], session'[s])
                  /\ \A x \in Session \ {s} : Still(session[x], session'[x])
    BY <1>0, <1>1 DEF Still, SessionStep
  <1>2. CASE BeginIteration
    <2>1. PICK d \in 1..MaxGap :
             session' = [s \in Session |-> Elapse(session[s], d)]
      BY <1>2 DEF BeginIteration
    <2>2. \A x \in Session : Still(session[x], session'[x])
      BY <1>0, <2>1, ElapseSession DEF Still
    <2>. QED
      BY <1>1, <2>2
  <1>3. ASSUME NEW s \in Session, RxSync(s)
        PROVE  /\ SessionStep(session[s], session'[s])
               /\ \A x \in Session \ {s} : Still(session[x], session'[x])
    <2>1. PICK d \in 1..MaxGap :
             session' = [[x \in Session |-> Elapse(session[x], d)]
                            EXCEPT ![s] = HandleSync(@)]
      BY <1>3 DEF RxSync
    <2>2. \A x \in Session \ {s} : Still(session[x], session'[x])
      BY <1>0, <2>1, ElapseSession DEF Still
    <2>3. SessionStep(session[s], session'[s])
      <3>. DEFINE e == Elapse(session[s], d)
      <3>1. /\ e \in PtpSession /\ e.state = session[s].state
            /\ e.offset = session[s].offset
            /\ e.delay_req_seq_id = session[s].delay_req_seq_id
        BY <1>0, ElapseSession
      <3>2. session'[s] = HandleSync(e)
        BY <2>1
      <3>. HIDE DEF e
      <3>3. /\ HandleSync(e).offset = e.offset
            /\ HandleSync(e).delay_req_seq_id = e.delay_req_seq_id
            /\ \/ /\ HandleSync(e).state = "SYNC_RECEIVED"
                  /\ e.state \in {"LISTENING", "SYNCED", "ERROR"}
               \/ HandleSync(e).state = e.state
        BY <3>1, HandleSyncSession
      <3>. QED
        BY <3>1, <3>2, <3>3 DEF SessionStep, PhaseOf
    <2>. QED
      BY <2>2, <2>3
  <1>4. ASSUME NEW m \in delay, RxDelayResp(m)
        PROVE  /\ m.to \in Session
               /\ SessionStep(session[m.to], session'[m.to])
               /\ \A x \in Session \ {m.to} : Still(session[x], session'[x])
    <2>0. m \in DelayMsg /\ m.to \in Session
      BY <1>0 DEF TypeOK, DelayMsg
    <2>1. PICK d \in 1..MaxGap, filled \in BOOLEAN :
             session' = [[x \in Session |-> Elapse(session[x], d)]
                            EXCEPT ![m.to] = HandleDelayResp(@, m, filled)]
      BY <1>4 DEF RxDelayResp
    <2>2. \A x \in Session \ {m.to} : Still(session[x], session'[x])
      BY <1>0, <2>1, ElapseSession DEF Still
    <2>3. SessionStep(session[m.to], session'[m.to])
      <3>. DEFINE e == Elapse(session[m.to], d)
                  new == HandleDelayResp(e, m, filled)
      <3>1. /\ e \in PtpSession /\ e.state = session[m.to].state
            /\ e.offset = session[m.to].offset
            /\ e.delay_req_seq_id = session[m.to].delay_req_seq_id
        BY <1>0, <2>0, ElapseSession
      <3>2. session'[m.to] = new
        BY <2>0, <2>1
      <3>3. /\ new.delay_req_seq_id = e.delay_req_seq_id
            /\ \/ new = e
               \/ /\ e.state = "DELAY_REQ_SENT" /\ new.state = "SYNCED"
                  /\ new.offset = Offset(e, m, filled)
        BY <2>0, <3>1, HandleDelayRespSession
      <3>4. Offset(e, m, filled) \in {"zero", "exchange", "mixed"}
        BY DEF Offset
      <3>5. session'[m.to].offset # "mixed"
        BY <2>0 DEF IInv, OffsetFromOneExchange
      <3>. HIDE DEF e, new
      <3>. QED
        BY <3>1, <3>2, <3>3, <3>4, <3>5 DEF SessionStep, PhaseOf
    <2>. QED
      BY <2>0, <2>2, <2>3
  <1>5. ASSUME NEW s \in Session, TickSend(s)
        PROVE  /\ SessionStep(session[s], session'[s])
               /\ \A x \in Session \ {s} : Still(session[x], session'[x])
    <2>0. /\ current_tsc \in Tsc /\ session[s] \in PtpSession
          /\ session[s].state = "SYNC_RECEIVED" /\ ~session[s].t3_of_t2
      BY <1>0, <1>5 DEF TypeOK, TickSend, SendDue, IInv, ExchangeCoherent
    <2>1. CASE \E d \in 1..MaxGap : session' = [x \in Session |->
                   Elapse(IF x = s THEN Sent(session[s], current_tsc)
                                   ELSE session[x], d)]
      <3>1. PICK d \in 1..MaxGap : session' = [x \in Session |->
                   Elapse(IF x = s THEN Sent(session[s], current_tsc)
                                   ELSE session[x], d)]
        BY <2>1
      <3>2. \A x \in Session \ {s} : Still(session[x], session'[x])
        BY <1>0, <3>1, ElapseSession DEF Still
      <3>. DEFINE new == Sent(session[s], current_tsc)
      <3>3. /\ new \in PtpSession /\ new.state = "DELAY_REQ_SENT"
            /\ new.t3_of_t2 /\ new.offset = session[s].offset
            /\ new.delay_req_seq_id = NextSeq(session[s].delay_req_seq_id)
        BY <2>0, SentSession
      <3>4. session'[s] = Elapse(new, d) /\ d \in Nat
        BY <3>1
      <3>. HIDE DEF new
      <3>5. /\ session'[s].state = new.state
            /\ session'[s].t3_of_t2
            /\ session'[s].offset = new.offset
            /\ session'[s].delay_req_seq_id = new.delay_req_seq_id
        BY <3>3, <3>4, ElapseSession
      <3>. QED
        BY <2>0, <3>2, <3>3, <3>5 DEF SessionStep, PhaseOf
    <2>2. CASE session' = [session EXCEPT ![s] = SendFailed(@)]
      <3>1. /\ session'[s] = SendFailed(session[s])
            /\ \A x \in Session \ {s} : session'[x] = session[x]
        BY <1>0, <2>2 DEF TypeOK
      <3>2. /\ SendFailed(session[s]).offset = session[s].offset
            /\ SendFailed(session[s]).state = "ERROR"
            /\ SendFailed(session[s]).delay_req_seq_id
                 = session[s].delay_req_seq_id
        BY <2>0 DEF SendFailed, PtpSession
      <3>. QED
        BY <2>0, <3>1, <3>2 DEF SessionStep, Still, PhaseOf
    <2>. QED
      BY <1>5, <2>1, <2>2 DEF TickSend
  <1>6. ASSUME NEW s \in Session, TickOther(s)
        PROVE  /\ SessionStep(session[s], session'[s])
               /\ \A x \in Session \ {s} : Still(session[x], session'[x])
    <2>1. /\ session'[s] = Tick(session[s], current_tsc)
          /\ \A x \in Session \ {s} : session'[x] = session[x]
      BY <1>0, <1>6 DEF TypeOK, TickOther
    <2>2. LET old == session[s]  new == Tick(session[s], current_tsc) IN
          /\ new.offset = old.offset
          /\ new.delay_req_seq_id = old.delay_req_seq_id
          /\ new.state = old.state \/ new.state \in {"LISTENING", "ERROR"}
      BY <1>0, QuietSession DEF TypeOK
    <2>. QED
      BY <2>1, <2>2 DEF SessionStep, Still, PhaseOf
  <1>7. CASE \/ RxDone \/ Exit \/ Stop \/ MasterDies \/ Lose \/ UNCHANGED vars
             \/ \E s \in Session : MasterSync(s)
             \/ \E m \in delay : MasterAnswer(m)
    <2>1. session' = session
      BY <1>7 DEF RxDone, Exit, Stop, MasterDies, Lose, MasterSync,
                  MasterAnswer, vars
    <2>. QED
      BY <1>1, <2>1 DEF Still
  <1>. QED
    BY <1>2, <1>3, <1>4, <1>5, <1>6, <1>7 DEF Next, Worker, Environment

\* A session sends at most one Delay_Req for a Sync, with consecutive ids.
THEOREM OneRequest == Spec => OneRequestPerSync
  <1>1. ASSUME IInv, IInv', [Next]_vars
        PROVE  \A s \in Session :
                 session'[s].delay_req_seq_id # session[s].delay_req_seq_id =>
                    /\ ~session[s].t3_of_t2 /\ session'[s].t3_of_t2
                    /\ session'[s].delay_req_seq_id
                         = NextSeq(session[s].delay_req_seq_id)
    BY <1>1, OneSessionSteps DEF SessionStep, Still
  <1>. QED
    BY <1>1, Invariant, PTL DEF Spec, OneRequestPerSync

\* A session of the worker implements the abstract delay exchange.
THEOREM Refinement == Spec => ImplementsExchange
  <1>1. Init => Exchange!Init
    BY DEF Init, Exchange!Init, SessionInit, PhaseOf
  <1>2. ASSUME IInv, IInv', [Next]_vars
        PROVE  [Exchange!Next]_<<[s \in Session |-> PhaseOf(session[s].state)],
                                 [s \in Session |-> session[s].offset]>>
    <2>. DEFINE ph == [s \in Session |-> PhaseOf(session[s].state)]
                re == [s \in Session |-> session[s].offset]
    <2>1. PICK s \in Session :
             /\ SessionStep(session[s], session'[s])
             /\ \A x \in Session \ {s} : Still(session[x], session'[x])
      BY <1>2, OneSessionSteps
    <2>2. /\ ph' = [ph EXCEPT ![s] = PhaseOf(session'[s].state)]
          /\ re' = [re EXCEPT ![s] = session'[s].offset]
      BY <2>1 DEF Still
    <2>3. /\ ph[s] = PhaseOf(session[s].state) /\ re[s] = session[s].offset
      OBVIOUS
    <2>4. CASE ph'[s] = ph[s] /\ re'[s] = re[s]
      BY <2>2, <2>4
    <2>5. CASE ~(ph'[s] = ph[s] /\ re'[s] = re[s])
      <3>1. \/ Exchange!Open(s) \/ Exchange!Ask(s)
            \/ Exchange!Complete(s) \/ Exchange!Abandon(s)
        BY <2>1, <2>2, <2>3, <2>5
           DEF SessionStep, Exchange!Open, Exchange!Ask, Exchange!Complete,
               Exchange!Abandon, Exchange!Move
      <3>. QED
        BY <3>1 DEF Exchange!Next
    <2>. QED
      BY <2>4, <2>5
  <1>. QED
    BY <1>1, <1>2, Invariant, PTL DEF Spec, ImplementsExchange, Exchange!Spec

-----------------------------------------------------------------------------
(* How old a Sync may be: what the reading of the TSC before the burst does *)
(* to the time limits.                                                     *)

\* The worker's TSC value is at most as old as what it has done since; a session
\* that was ticked and is still SYNCED was fresh at that TSC value.
FreshInv ==
    /\ pc = "rx" => current_tsc <= (BurstSize - burst) * MaxGap
    /\ pc = "tick" =>
          /\ current_tsc <= (BurstSize + turn - 1) * MaxGap
          /\ \A s \in Session :
                s < turn /\ session[s].state = "SYNCED"
                   => session[s].last_sync_tsc <= SyncTimeout + current_tsc
    /\ SyncedIsFresh

\* A Sync is not younger than current_tsc, unless it came in this burst; and one that
\* did leaves its session in an exchange, if it is the only packet of the burst.
InPast(s) == session[s].last_sync_tsc >= current_tsc

PastInv ==
    /\ pc = "rx" /\ burst = BurstSize => \A s \in Session : InPast(s)
    /\ pc \in {"rx", "tick"} =>
          \A s \in Session : session[s].state = "SYNCED" => InPast(s)

\* The two TSC values age alike.
LEMMA OlderAges ==
    ASSUME NEW a \in Tsc, NEW b \in Tsc, NEW d \in Nat
    PROVE  /\ Older(a, d) <= a + d
           /\ a + d < Cap => Older(a, d) = a + d
           /\ a >= b => Older(a, d) >= Older(b, d)
  BY PtpAssumption DEF Older, Tsc

\* What a step of the worker's burst does to the times and states of the sessions.
Ages(d) ==
    \A x \in Session :
        /\ session'[x].state = session[x].state
        /\ session'[x].last_sync_tsc = Older(session[x].last_sync_tsc, d)

\* A Sync makes its session young and takes it out of SYNCED.
LEMMA SyncAges ==
    ASSUME TypeOK, NEW s \in Session, RxSync(s)
    PROVE  \E d \in 1..MaxGap :
             /\ current_tsc' = Older(current_tsc, d)
             /\ session'[s].state # "SYNCED"
             /\ \A x \in Session \ {s} :
                  /\ session'[x].state = session[x].state
                  /\ session'[x].last_sync_tsc = Older(session[x].last_sync_tsc, d)
  <1>1. PICK d \in 1..MaxGap :
           /\ session' = [[x \in Session |-> Elapse(session[x], d)]
                             EXCEPT ![s] = HandleSync(@)]
           /\ current_tsc' = Older(current_tsc, d)
    BY DEF RxSync
  <1>2. /\ session'[s] = HandleSync(Elapse(session[s], d))
        /\ \A x \in Session \ {s} : session'[x] = Elapse(session[x], d)
    BY <1>1
  <1>3. d \in Nat /\ \A x \in Session : session[x] \in PtpSession
    BY PtpAssumption DEF TypeOK
  <1>4. Elapse(session[s], d) \in PtpSession
    BY <1>3, ElapseSession
  <1>5. session'[s].state # "SYNCED"
    BY <1>2, <1>4 DEF HandleSync, PtpSession
  <1>6. \A x \in Session \ {s} :
           /\ session'[x].state = session[x].state
           /\ session'[x].last_sync_tsc = Older(session[x].last_sync_tsc, d)
    BY <1>2, <1>3 DEF Elapse, PtpSession
  <1>. QED
    BY <1>1, <1>5, <1>6

\* An answer changes no time of a Sync.
LEMMA RespAges ==
    ASSUME TypeOK, NEW m \in delay, RxDelayResp(m)
    PROVE  \E d \in 1..MaxGap :
             /\ current_tsc' = Older(current_tsc, d)
             /\ \A x \in Session :
                  session'[x].last_sync_tsc = Older(session[x].last_sync_tsc, d)
  <1>1. PICK d \in 1..MaxGap, filled \in BOOLEAN :
           /\ session' = [[x \in Session |-> Elapse(session[x], d)]
                             EXCEPT ![m.to] = HandleDelayResp(@, m, filled)]
           /\ current_tsc' = Older(current_tsc, d)
    BY DEF RxDelayResp
  <1>2. m.to \in Session
    BY DEF TypeOK, DelayMsg
  <1>3. /\ session'[m.to] = HandleDelayResp(Elapse(session[m.to], d), m, filled)
        /\ \A x \in Session \ {m.to} : session'[x] = Elapse(session[x], d)
    BY <1>1, <1>2
  <1>4. d \in Nat /\ \A x \in Session : session[x] \in PtpSession
    BY PtpAssumption DEF TypeOK
  <1>5. Elapse(session[m.to], d) \in PtpSession
    BY <1>2, <1>4, ElapseSession
  <1>6. session'[m.to].last_sync_tsc = Elapse(session[m.to], d).last_sync_tsc
    BY <1>3, <1>5 DEF HandleDelayResp, PtpSession
  <1>7. \A x \in Session :
           Elapse(session[x], d).last_sync_tsc = Older(session[x].last_sync_tsc, d)
    BY <1>4 DEF Elapse, PtpSession
  <1>. QED
    BY <1>1, <1>2, <1>3, <1>6, <1>7

\* A request makes its session wait; the others age.
LEMMA SendAges ==
    ASSUME TypeOK, NEW s \in Session, TickSend(s)
    PROVE  \E d \in 0..MaxGap, now \in Tsc :
             /\ now = Older(current_tsc, d) /\ Advance(s, now)
             /\ session'[s].state # "SYNCED" /\ session[s].state # "SYNCED"
             /\ \A x \in Session \ {s} :
                  /\ session'[x].state = session[x].state
                  /\ session'[x].last_sync_tsc = Older(session[x].last_sync_tsc, d)
  <1>1. /\ \A x \in Session : session[x] \in PtpSession
        /\ current_tsc \in Tsc /\ session[s].state = "SYNC_RECEIVED"
        /\ MaxGap \in Nat
    BY PtpAssumption DEF TypeOK, TickSend, SendDue
  <1>2. CASE \E d \in 1..MaxGap :
               /\ session' = [x \in Session |->
                     Elapse(IF x = s THEN Sent(session[s], current_tsc)
                                     ELSE session[x], d)]
               /\ Advance(s, Older(current_tsc, d))
    <2>1. PICK d \in 1..MaxGap :
               /\ session' = [x \in Session |->
                     Elapse(IF x = s THEN Sent(session[s], current_tsc)
                                     ELSE session[x], d)]
               /\ Advance(s, Older(current_tsc, d))
      BY <1>2
    <2>2. d \in Nat /\ d \in 0..MaxGap
      BY <1>1
    <2>3. Sent(session[s], current_tsc).state = "DELAY_REQ_SENT"
          /\ Sent(session[s], current_tsc) \in PtpSession
      BY <1>1, SentSession
    <2>4. session'[s].state = "DELAY_REQ_SENT"
      <3>1. session'[s] = Elapse(Sent(session[s], current_tsc), d)
        BY <2>1
      <3>. QED
        BY <2>2, <2>3, <3>1, ElapseSession
    <2>5. ASSUME NEW x \in Session \ {s}
          PROVE  /\ session'[x].state = session[x].state
                 /\ session'[x].last_sync_tsc = Older(session[x].last_sync_tsc, d)
      <3>1. session'[x] = Elapse(session[x], d)
        BY <2>1
      <3>. QED
        BY <1>1, <3>1 DEF Elapse, PtpSession
    <2>6. Older(current_tsc, d) \in Tsc
      BY <1>1, <2>2, OlderType
    <2>. QED
      BY <1>1, <2>1, <2>2, <2>4, <2>5, <2>6
  <1>3. CASE /\ session' = [session EXCEPT ![s] = SendFailed(@)]
             /\ Advance(s, current_tsc)
    <2>1. /\ session'[s] = SendFailed(session[s])
          /\ \A x \in Session \ {s} : session'[x] = session[x]
      BY <1>3 DEF TypeOK
    <2>2. session'[s].state = "ERROR"
      BY <1>1, <2>1 DEF SendFailed, PtpSession
    <2>3. \A a \in Tsc : Older(a, 0) = a
      BY PtpAssumption DEF Older, Tsc
    <2>4. 0 \in 0..MaxGap
      BY <1>1
    <2>5. \A x \in Session : session[x].last_sync_tsc \in Tsc
      BY <1>1 DEF PtpSession
    <2>. QED
      BY <1>1, <1>3, <2>1, <2>2, <2>3, <2>4, <2>5
  <1>. QED
    BY <1>2, <1>3 DEF TickSend

\* A tick that sends nothing leaves a session SYNCED only if its Sync is recent.
LEMMA TickAges ==
    ASSUME TypeOK, NEW s \in Session, TickOther(s)
    PROVE  /\ Advance(s, current_tsc)
           /\ \A x \in Session \ {s} : session'[x] = session[x]
           /\ session'[s].state = "SYNCED" =>
                /\ session[s].state = "SYNCED"
                /\ session'[s].last_sync_tsc = session[s].last_sync_tsc
                /\ session[s].last_sync_tsc >= current_tsc
                /\ session[s].last_sync_tsc - current_tsc <= SyncTimeout
           /\ session[s].state = "SYNCED" /\ session'[s].state = "LISTENING" =>
                SyncOverdue(session[s], current_tsc)
  <1>1. /\ session[s] \in PtpSession /\ current_tsc \in Nat
        /\ session[s].last_sync_tsc \in Nat /\ SyncTimeout \in Nat
    BY PtpAssumption DEF TypeOK, PtpSession, Tsc
  <1>2. /\ session'[s] = Tick(session[s], current_tsc)
        /\ \A x \in Session \ {s} : session'[x] = session[x]
        /\ Advance(s, current_tsc)
    BY DEF TickOther, TypeOK
  <1>3. session'[s].state = "SYNCED" =>
           session'[s] = session[s] /\ ~SyncOverdue(session[s], current_tsc)
    BY <1>1, <1>2 DEF Tick, ToListening, PtpSession
  <1>4. session[s].state = "SYNCED" /\ session'[s].state = "LISTENING" =>
           SyncOverdue(session[s], current_tsc)
    BY <1>1, <1>2 DEF Tick, RespOverdue, ErrorOver, PtpSession
  <1>5. session'[s].state = "SYNCED" =>
           /\ session[s].state = "SYNCED"
           /\ session'[s].last_sync_tsc = session[s].last_sync_tsc
           /\ session[s].last_sync_tsc >= current_tsc
           /\ session[s].last_sync_tsc - current_tsc <= SyncTimeout
    BY <1>1, <1>3 DEF SyncOverdue, Exceeds
  <1>. QED
    BY <1>2, <1>4, <1>5

\* The steps that neither the time nor a session's state depends on.
LEMMA OtherAges ==
    ASSUME TypeOK, [Next]_vars
    PROVE  \/ BeginIteration \/ RxDone
           \/ \E s \in Session : RxSync(s) \/ TickSend(s) \/ TickOther(s)
           \/ \E m \in delay : RxDelayResp(m)
           \/ /\ UNCHANGED <<session, current_tsc, turn, burst>>
              /\ pc' = pc \/ (pc = "head" /\ pc' = "exited")
  BY DEF Next, Worker, Environment, vars, Exit, Stop, MasterDies, Lose, MasterSync,
         MasterAnswer

\* Products of the bound, as far as they are needed.
LEMMA NextTurn ==
    ASSUME NEW n \in Nat, NEW g \in Nat
    PROVE  n * g \in Nat /\ (n + 1) * g = n * g + g
  OBVIOUS

\* ... and how the bound grows with its first factor.
LEMMA BoundGrows ==
    ASSUME NEW a \in Nat, NEW b \in Nat, a <= b, NEW g \in Nat
    PROVE  a * g <= b * g
  OBVIOUS

\* Every step keeps the times within an iteration of each other.
LEMMA FreshStep == TypeOK /\ TypeOK' /\ FreshInv /\ [Next]_vars => FreshInv'
  <1>. SUFFICES ASSUME TypeOK, TypeOK', FreshInv, [Next]_vars PROVE FreshInv'
    OBVIOUS
  <1>0. /\ MaxGap \in Nat /\ BurstSize \in Nat /\ NSession \in Nat /\ Cap \in Nat
        /\ SyncTimeout \in Nat /\ current_tsc \in Nat /\ current_tsc \in Tsc
        /\ turn \in 1..NSession /\ burst \in 0..BurstSize
        /\ \A x \in Session : /\ session[x].last_sync_tsc \in Tsc
                              /\ session[x].last_sync_tsc \in Nat
                              /\ session'[x].last_sync_tsc \in Nat
        /\ Iteration \in Nat /\ Iteration < Cap
    <2>1. /\ MaxGap \in Nat /\ BurstSize \in Nat /\ NSession \in Nat /\ Cap \in Nat
          /\ SyncTimeout \in Nat
      BY PtpAssumption
    <2>2. Iteration \in Nat
      BY <2>1, NextTurn DEF Iteration
    <2>3. Cap > SyncTimeout + Iteration
      BY PtpAssumption
    <2>. QED
      BY <2>1, <2>2, <2>3 DEF TypeOK, PtpSession, Tsc, Session
  <1>1. CASE BeginIteration
    <2>1. pc' = "rx" /\ current_tsc' = 0 /\ burst' = BurstSize
      BY <1>1 DEF BeginIteration
    <2>2. current_tsc' <= (BurstSize - burst') * MaxGap
      BY <1>0, <2>1
    <2>. QED
      BY <2>1, <2>2 DEF FreshInv, SyncedIsFresh
  <1>2. CASE RxDone
    <2>1. pc = "rx" /\ pc' = "tick" /\ turn' = 1 /\ UNCHANGED <<session, current_tsc>>
      BY <1>2 DEF RxDone
    <2>2. current_tsc <= (BurstSize - burst) * MaxGap
      BY <2>1 DEF FreshInv
    <2>3. (BurstSize - burst) * MaxGap <= BurstSize * MaxGap
      BY <1>0, BoundGrows
    <2>4. BurstSize + turn' - 1 = BurstSize
      BY <1>0, <2>1
    <2>5. current_tsc' <= (BurstSize + turn' - 1) * MaxGap
      BY <1>0, <2>1, <2>2, <2>3, <2>4
    <2>6. \A s \in Session : ~(s < turn')
      BY <2>1 DEF Session
    <2>. QED
      BY <2>1, <2>5, <2>6 DEF FreshInv, SyncedIsFresh
  <1>3. CASE \/ \E s \in Session : RxSync(s)
             \/ \E m \in delay : RxDelayResp(m)
    <2>1. PICK d \in 1..MaxGap : current_tsc' = Older(current_tsc, d)
      BY <1>3, SyncAges, RespAges
    <2>2. pc = "rx" /\ pc' = "rx" /\ burst > 0 /\ burst' = burst - 1
      BY <1>3 DEF RxSync, RxDelayResp
    <2>3. current_tsc <= (BurstSize - burst) * MaxGap
      BY <2>2 DEF FreshInv
    <2>4. current_tsc' <= current_tsc + d /\ current_tsc' \in Nat
      BY <1>0, <2>1, OlderAges DEF TypeOK, Tsc
    <2>5. BurstSize - burst \in Nat /\ BurstSize - burst' = (BurstSize - burst) + 1
      BY <1>0, <2>2
    <2>6. (BurstSize - burst') * MaxGap = (BurstSize - burst) * MaxGap + MaxGap
      BY <1>0, <2>5, NextTurn
    <2>7. current_tsc' <= (BurstSize - burst') * MaxGap
      <3>1. PICK p \in Nat : p = (BurstSize - burst) * MaxGap
        BY <1>0, <2>5, NextTurn
      <3>. QED
        BY <1>0, <2>3, <2>4, <2>6, <3>1
    <2>. QED
      BY <2>2, <2>7 DEF FreshInv, SyncedIsFresh
  <1>4. ASSUME NEW s \in Session, TickSend(s) \/ TickOther(s)
        PROVE  FreshInv'
    <2>1. PICK d \in 0..MaxGap, now \in Tsc :
             /\ now = Older(current_tsc, d) /\ Advance(s, now)
             /\ session'[s].state = "SYNCED" =>
                  session'[s].last_sync_tsc <= SyncTimeout + now
             /\ \A x \in Session \ {s} :
                  /\ session'[x].state = session[x].state
                  /\ session'[x].last_sync_tsc = Older(session[x].last_sync_tsc, d)
      <3>1. CASE TickSend(s)
        BY <3>1, SendAges
      <3>2. CASE TickOther(s)
        <4>1. \A a \in Tsc : Older(a, 0) = a
          BY PtpAssumption DEF Older, Tsc
        <4>2. /\ 0 \in 0..MaxGap /\ current_tsc = Older(current_tsc, 0)
              /\ Advance(s, current_tsc)
          BY <1>0, <3>2, <4>1, TickAges
        <4>3. \A x \in Session \ {s} :
                 /\ session'[x].state = session[x].state
                 /\ session'[x].last_sync_tsc = Older(session[x].last_sync_tsc, 0)
          BY <1>0, <3>2, <4>1, TickAges
        <4>4. session'[s].state = "SYNCED" =>
                 session'[s].last_sync_tsc <= SyncTimeout + current_tsc
          BY <1>0, <3>2, TickAges
        <4>. QED
          BY <1>0, <4>2, <4>3, <4>4
      <3>. QED
        BY <1>4, <3>1, <3>2
    <2>2. pc = "tick" /\ turn = s
      BY <1>4 DEF TickSend, TickOther
    <2>3. current_tsc <= (BurstSize + s - 1) * MaxGap
      BY <2>2 DEF FreshInv
    <2>4. /\ (BurstSize + s) * MaxGap = (BurstSize + s - 1) * MaxGap + MaxGap
          /\ (BurstSize + s - 1) * MaxGap \in Nat
      <3>1. BurstSize + s - 1 \in Nat /\ BurstSize + s = (BurstSize + s - 1) + 1
        BY <1>0, <2>2
      <3>. QED
        BY <1>0, <3>1, NextTurn
    <2>5. (BurstSize + s) * MaxGap <= Iteration
      <3>1. BurstSize + s \in Nat /\ BurstSize + NSession \in Nat
            /\ BurstSize + s <= BurstSize + NSession
        BY <1>0, <2>2
      <3>. QED
        BY <1>0, <3>1, BoundGrows DEF Iteration
    <2>6. d \in Nat /\ now \in Nat /\ current_tsc + d <= (BurstSize + s) * MaxGap
      <3>1. PICK p \in Nat : p = (BurstSize + s - 1) * MaxGap
        BY <2>4
      <3>. QED
        BY <1>0, <2>3, <2>4, <3>1 DEF Tsc
    <2>7. now = current_tsc + d /\ now <= (BurstSize + s) * MaxGap /\ now <= Iteration
      <3>1. PICK p \in Nat : p = (BurstSize + s) * MaxGap
        BY <1>0, <2>2, NextTurn
      <3>2. current_tsc + d < Cap
        BY <1>0, <2>5, <2>6, <3>1
      <3>3. now = current_tsc + d
        BY <1>0, <2>1, <2>6, <3>2, OlderAges
      <3>. QED
        BY <1>0, <2>5, <2>6, <3>1, <3>3
    <2>8. ASSUME NEW x \in Session, x <= s, session'[x].state = "SYNCED"
          PROVE  session'[x].last_sync_tsc <= SyncTimeout + now
      <3>1. CASE x = s
        BY <2>1, <2>8, <3>1
      <3>2. CASE x # s
        <4>1. x < turn /\ x \in Session \ {s} /\ session[x].state = "SYNCED"
          BY <1>0, <2>1, <2>2, <2>8, <3>2 DEF Session
        <4>2. session[x].last_sync_tsc <= SyncTimeout + current_tsc
          BY <2>2, <4>1 DEF FreshInv
        <4>3. session'[x].last_sync_tsc <= session[x].last_sync_tsc + d
          BY <1>0, <2>1, <2>6, <4>1, OlderAges
        <4>. QED
          BY <1>0, <2>6, <2>7, <4>2, <4>3
      <3>. QED
        BY <3>1, <3>2
    <2>9. CASE s = NSession
      <3>1. pc' = "head" /\ \A x \in Session : x <= s
        BY <1>0, <2>1, <2>9 DEF Advance, Session
      <3>2. SyncedIsFresh'
        BY <1>0, <2>6, <2>7, <2>8, <3>1 DEF SyncedIsFresh
      <3>. QED
        BY <3>1, <3>2 DEF FreshInv
    <2>10. CASE s # NSession
      <3>1. pc' = "tick" /\ turn' = s + 1 /\ current_tsc' = now
        BY <2>1, <2>2, <2>10 DEF Advance
      <3>2. BurstSize + turn' - 1 = BurstSize + s
        BY <1>0, <2>2, <3>1
      <3>3. \A x \in Session : x < turn' => x <= s
        BY <1>0, <2>2, <3>1 DEF Session
      <3>. QED
        BY <2>7, <2>8, <3>1, <3>2, <3>3 DEF FreshInv, SyncedIsFresh
    <2>. QED
      BY <2>9, <2>10
  <1>5. CASE /\ UNCHANGED <<session, current_tsc, turn, burst>>
             /\ pc' = pc \/ (pc = "head" /\ pc' = "exited")
    BY <1>5 DEF FreshInv, SyncedIsFresh
  <1>. QED
    BY <1>1, <1>2, <1>3, <1>4, <1>5, OtherAges

\* With one packet in a burst no SYNCED session holds a Sync younger than current_tsc.
LEMMA PastStep ==
    ASSUME BurstSize <= 1
    PROVE  TypeOK /\ TypeOK' /\ PastInv /\ [Next]_vars => PastInv'
  <1>. SUFFICES ASSUME TypeOK, TypeOK', PastInv, [Next]_vars PROVE PastInv'
    OBVIOUS
  <1>0. /\ MaxGap \in Nat /\ BurstSize \in Nat
        /\ current_tsc \in Nat /\ current_tsc \in Tsc /\ burst \in 0..BurstSize
        /\ \A x \in Session : /\ session[x].last_sync_tsc \in Tsc
                              /\ session'[x].last_sync_tsc \in Nat
    BY PtpAssumption DEF TypeOK, PtpSession, Tsc
  <1>1. CASE BeginIteration
    <2>1. pc' = "rx" /\ current_tsc' = 0
      BY <1>1 DEF BeginIteration
    <2>. QED
      BY <1>0, <2>1 DEF PastInv, InPast
  <1>2. CASE RxDone
    BY <1>2 DEF RxDone, PastInv, InPast
  <1>3. CASE \/ \E s \in Session : RxSync(s)
             \/ \E m \in delay : RxDelayResp(m)
    <2>1. /\ pc = "rx" /\ pc' = "rx" /\ burst = BurstSize /\ burst' # BurstSize
      BY <1>0, <1>3 DEF RxSync, RxDelayResp
    <2>2. \A x \in Session : session[x].last_sync_tsc >= current_tsc
      BY <2>1 DEF PastInv, InPast
    <2>3. PICK d \in 1..MaxGap :
             /\ current_tsc' = Older(current_tsc, d)
             /\ \A x \in Session : session'[x].state = "SYNCED" =>
                  session'[x].last_sync_tsc = Older(session[x].last_sync_tsc, d)
      BY <1>3, SyncAges, RespAges
    <2>4. d \in Nat
      BY <1>0
    <2>5. \A x \in Session : session'[x].state = "SYNCED" =>
             session'[x].last_sync_tsc >= current_tsc'
      BY <1>0, <2>2, <2>3, <2>4, OlderAges
    <2>. QED
      BY <2>1, <2>5 DEF PastInv, InPast
  <1>4. ASSUME NEW s \in Session, TickSend(s) \/ TickOther(s)
        PROVE  PastInv'
    <2>1. pc = "tick" /\ \A x \in Session : session[x].state = "SYNCED" =>
                            session[x].last_sync_tsc >= current_tsc
      BY <1>4 DEF TickSend, TickOther, PastInv, InPast
    <2>2. pc' \in {"head", "tick"} /\ (pc' = "tick" =>
             \A x \in Session : session'[x].state = "SYNCED" =>
                session'[x].last_sync_tsc >= current_tsc')
      <3>1. CASE TickSend(s)
        <4>1. PICK d \in 0..MaxGap, now \in Tsc :
             /\ now = Older(current_tsc, d) /\ Advance(s, now)
             /\ session'[s].state # "SYNCED"
             /\ \A x \in Session \ {s} :
                  /\ session'[x].state = session[x].state
                  /\ session'[x].last_sync_tsc = Older(session[x].last_sync_tsc, d)
          BY <3>1, SendAges
        <4>2. d \in Nat
          BY <1>0
        <4>3. \A x \in Session : session'[x].state = "SYNCED" =>
                 session'[x].last_sync_tsc >= now
          BY <1>0, <2>1, <4>1, <4>2, OlderAges
        <4>. QED
          BY <2>1, <4>1, <4>3 DEF Advance
      <3>2. CASE TickOther(s)
        <4>1. /\ Advance(s, current_tsc)
              /\ \A x \in Session : session'[x].state = "SYNCED" =>
                    session'[x].last_sync_tsc >= current_tsc
          BY <2>1, <3>2, TickAges
        <4>. QED
          BY <2>1, <4>1 DEF Advance
      <3>. QED
        BY <1>4, <3>1, <3>2
    <2>. QED
      BY <2>2 DEF PastInv, InPast
  <1>5. CASE /\ UNCHANGED <<session, current_tsc, turn, burst>>
             /\ pc' = pc \/ (pc = "head" /\ pc' = "exited")
    BY <1>5 DEF PastInv, InPast
  <1>. QED
    BY <1>1, <1>2, <1>3, <1>4, <1>5, OtherAges

\* A SYNCED session has heard a Sync within the timeout and one iteration, for any
\* number of sessions, burst size and reading of the clock.
THEOREM SyncedStaysFresh == Spec => []SyncedIsFresh
  <1>1. Init => FreshInv
    BY DEF Init, FreshInv, SyncedIsFresh, SessionInit
  <1>2. FreshInv => SyncedIsFresh
    BY DEF FreshInv
  <1>. QED
    BY <1>1, <1>2, FreshStep, TypeCorrect, PTL DEF Spec

\* A worker that takes one packet at a time drops a SYNCED session for silence only.
THEOREM DropsForSilence ==
    ASSUME BurstSize <= 1
    PROVE  Spec => SyncLossIsReal
  <1>1. Init => PastInv
    BY DEF Init, PastInv
  <1>2. TypeOK /\ TypeOK' /\ PastInv /\ [Next]_vars => PastInv'
    BY PastStep
  <1>3. TypeOK /\ TypeOK' /\ PastInv /\ [Next]_vars =>
           [\A s \in Session :
              session[s].state = "SYNCED" /\ session'[s].state = "LISTENING"
                 => session[s].last_sync_tsc > SyncTimeout]_vars
    <2>. SUFFICES ASSUME TypeOK, PastInv, [Next]_vars, NEW s \in Session,
                         session[s].state = "SYNCED", session'[s].state = "LISTENING"
                  PROVE  session[s].last_sync_tsc > SyncTimeout
      OBVIOUS
    <2>0. \A x \in Session : session[x] \in PtpSession
      BY DEF TypeOK
    <2>1. ~BeginIteration /\ ~RxDone
      BY <2>0, ElapseSession DEF BeginIteration, RxDone
    <2>2. ASSUME NEW x \in Session, RxSync(x) PROVE FALSE
      <3>1. PICK d \in 1..MaxGap :
               session' = [[y \in Session |-> Elapse(session[y], d)]
                             EXCEPT ![x] = HandleSync(@)]
        BY <2>2 DEF RxSync
      <3>2. Elapse(session[s], d).state = "SYNCED"
        BY <2>0 DEF Elapse, PtpSession
      <3>3. session'[s] = IF s = x THEN HandleSync(Elapse(session[s], d))
                          ELSE Elapse(session[s], d)
        BY <3>1
      <3>4. Elapse(session[s], d) \in PtpSession
        BY <2>0, PtpAssumption, ElapseSession
      <3>. QED
        BY <3>2, <3>3, <3>4 DEF HandleSync, PtpSession
    <2>3. ASSUME NEW m \in delay, RxDelayResp(m) PROVE FALSE
      <3>1. PICK d \in 1..MaxGap, filled \in BOOLEAN :
               session' = [[y \in Session |-> Elapse(session[y], d)]
                             EXCEPT ![m.to] = HandleDelayResp(@, m, filled)]
        BY <2>3 DEF RxDelayResp
      <3>2. Elapse(session[s], d).state = "SYNCED"
        BY <2>0 DEF Elapse, PtpSession
      <3>3. session'[s] = IF s = m.to THEN HandleDelayResp(Elapse(session[s], d), m, filled)
                          ELSE Elapse(session[s], d)
        BY <3>1
      <3>. QED
        BY <3>2, <3>3 DEF HandleDelayResp
    <2>4. ASSUME NEW x \in Session, TickSend(x) PROVE FALSE
      BY <2>4, SendAges
    <2>5. ASSUME NEW x \in Session, TickOther(x)
          PROVE  session[s].last_sync_tsc > SyncTimeout
      <3>1. x = s
        BY <2>5, TickAges
      <3>2. SyncOverdue(session[s], current_tsc)
        BY <2>5, <3>1, TickAges
      <3>3. session[s].last_sync_tsc >= current_tsc
        BY <2>5 DEF TickOther, PastInv, InPast
      <3>4. session[s].last_sync_tsc \in Nat /\ current_tsc \in Nat /\ SyncTimeout \in Nat
        BY <2>0, PtpAssumption DEF TypeOK, PtpSession, Tsc
      <3>. QED
        BY <3>2, <3>3, <3>4 DEF SyncOverdue, Exceeds
    <2>6. ~UNCHANGED session
      OBVIOUS
    <2>. QED
      BY <2>1, <2>2, <2>3, <2>4, <2>5, <2>6, OtherAges
  <1>. QED
    BY <1>1, <1>2, <1>3, TypeCorrect, PTL DEF Spec, SyncLossIsReal
=============================================================================

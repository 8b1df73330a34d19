------------------------------ MODULE UnitProofs ------------------------------
(***************************************************************************)
(* The two specifications of the unit test applications.  They share no    *)
(* variable; each has its own invariants.                                  *)
(*                                                                         *)
(* UnitHealth, for every number of legs, sensors, reports and versions:    *)
(* what the PTP engine of dpdk_vmc shows of a leg is of that leg and of    *)
(* the present (PtpViewIsTrue), its health monitor stops the test exactly  *)
(* when a sensor was out of range at LIMIT looks in a row (StopsWhenHot),  *)
(* the verdict of the VMC starter is what the unit deserves                *)
(* (VerdictIsRight), and the dashboard of dpdk_cmc adds up what the boards *)
(* carried and shows the switch as it was (CmcDashboardIsTrue).  Each part *)
(* has an inductive invariant of its own, kept by its own steps; the steps *)
(* of the other parts leave its variables alone.                           *)
(*                                                                         *)
(* UnitTraffic, for any number of packets, any length of the wires and any *)
(* FLUSH: TwinsAligned, FinalLossIsReal and DamageIsReported.              *)
(***************************************************************************)
EXTENDS UnitHealth, UnitTraffic, SequenceTheorems, NumberLemmas, TLAPS

-----------------------------------------------------------------------------
(* The PTP engine.                                                         *)

\* The legs of a group always hear the same Syncs, and only a group with a leader hears
\* one; what is shown as stale has been silent; a time stamp of 0 is none.
PtpInv ==
    /\ exchange \in Nat
    /\ \A f \in frames : f.n \in Nat \ {0}
    /\ t12 \in [Legs -> Nat] /\ t3 \in [Legs -> Nat] /\ t4 \in [Legs -> Nat]
    /\ req_tx \in [Legs -> Nat] /\ resp_rx \in [Legs -> Nat]
    /\ resp_timeout \in [Legs -> Nat] /\ stray \in [Legs -> Nat]
    /\ req_outstanding \subseteq Legs
    /\ sync_age \in [Legs -> 0..Oldest \cup {Never}]
    /\ \A l \in Legs, k \in Legs : k \in GroupOf(l) => sync_age[k] = sync_age[l]
    /\ \A l \in Legs : sync_age[l] # Never => GroupOf(l) \cap Leader # {}
    /\ sync_stale \subseteq {l \in Legs : IsStale(sync_age[l])}
    /\ \A l \in Legs : l \in answered => t12[l] = t3[l] /\ t12[l] = t4[l] /\ t12[l] # 0
    /\ \A l \in Legs : req_tx[l] + stray[l] =
          resp_rx[l] + resp_timeout[l] + (IF l \in req_outstanding THEN 1 ELSE 0)

\* Two legs of a group have the same group.
LEMMA Groups ==
    ASSUME NEW l \in Legs, NEW k \in Legs
    PROVE  /\ l \in GroupOf(l)
           /\ k \in GroupOf(l) => l \in GroupOf(k) /\ GroupOf(k) = GroupOf(l)
BY DEF GroupOf

\* What the invariant says of a snapshot is what the viewer must show.
LEMMA PtpInvImplies == PtpInv => PtpViewIsTrue
<1> SUFFICES ASSUME PtpInv PROVE PtpViewIsTrue
  OBVIOUS
<1>1. OffsetIsOfOneExchange
  BY DEF PtpInv, OffsetIsOfOneExchange, OffsetOf
<1>2. StaleIsSilence
  <2> SUFFICES ASSUME NEW l \in sync_stale
               PROVE  \E k \in GroupOf(l) \cap Leader :
                          sync_age[k] # Never /\ sync_age[k] > STALE_LIMIT
    BY DEF StaleIsSilence
  <2>1. l \in Legs /\ sync_age[l] # Never /\ sync_age[l] > STALE_LIMIT
    BY DEF PtpInv, IsStale
  <2>2. PICK k \in GroupOf(l) \cap Leader : TRUE
    BY <2>1 DEF PtpInv
  <2>3. k \in Legs /\ sync_age[k] = sync_age[l]
    BY <2>1, <2>2 DEF PtpInv, Leader
  <2> QED
    BY <2>1, <2>2, <2>3
<1> QED
  BY <1>1, <1>2 DEF PtpViewIsTrue

\* The invariant of the PTP viewer holds at the start.
LEMMA PtpInvInit == PtpInit => PtpInv
BY DEF PtpInit, PtpInv, PerLeg, Never, Oldest, STALE_LIMIT

\* A Sync begins a new exchange for every leg of the group.
LEMMA SyncKeeps ==
    ASSUME PtpInv, NEW f \in frames, NEW l \in Legs, l \in Leader,
           handle_sync_rx(l, f), exchange' = exchange
    PROVE  PtpInv'
<1> DEFINE group == GroupOf(l)
<1>1. PICK failing \in SUBSET group :
         LET out == group \ failing
         IN  /\ t12' = On(t12, group, f.n)
             /\ sync_age' = On(sync_age, group, 0)
             /\ sync_stale' = sync_stale \ group
             /\ resp_timeout' = More(resp_timeout, Unanswered(group))
             /\ t3' = On(t3, out, f.n) /\ req_tx' = More(req_tx, out)
             /\ req_outstanding' = (req_outstanding \ group) \cup out
             /\ frames' = (frames \ {f}) \cup {Frame("Resp", k, f.n) : k \in out}
             /\ answered' = answered \ group
  BY DEF handle_sync_rx
<1> DEFINE out == group \ failing
<1>2. group \subseteq Legs /\ out \subseteq group /\ f.n \in Nat \ {0}
  BY DEF GroupOf, PtpInv
<1>3. t4' = t4 /\ resp_rx' = resp_rx /\ stray' = stray
  BY DEF handle_sync_rx
<1>4. \A g \in frames' : g.n \in Nat \ {0}
  BY <1>1, <1>2 DEF Frame, PtpInv
<1>5. /\ t12' \in [Legs -> Nat] /\ t3' \in [Legs -> Nat]
      /\ req_tx' \in [Legs -> Nat] /\ resp_timeout' \in [Legs -> Nat]
      /\ sync_age' \in [Legs -> 0..Oldest \cup {Never}]
      /\ req_outstanding' \subseteq Legs
  BY <1>1, <1>2 DEF On, More, PtpInv, Oldest, STALE_LIMIT
<1>6. ASSUME NEW i \in Legs, NEW k \in Legs, k \in GroupOf(i)
      PROVE  sync_age'[k] = sync_age'[i]
  <2>1. k \in group <=> i \in group
    BY <1>6, Groups
  <2> QED
    BY <1>1, <1>6, <2>1 DEF On, PtpInv
<1>7. ASSUME NEW i \in Legs, sync_age'[i] # Never PROVE GroupOf(i) \cap Leader # {}
  <2>1. CASE i \in group
    <3>1. l \in GroupOf(i) \cap Leader
      BY <2>1, Groups
    <3> QED
      BY <3>1
  <2>2. CASE i \notin group
    BY <1>1, <1>7, <2>2 DEF On, PtpInv
  <2> QED
    BY <2>1, <2>2
<1>8. ASSUME NEW i \in sync_stale' PROVE i \in Legs /\ IsStale(sync_age'[i])
  BY <1>1, <1>2 DEF On, PtpInv
<1>9. ASSUME NEW i \in Legs, i \in answered'
      PROVE  t12'[i] = t3'[i] /\ t12'[i] = t4'[i] /\ t12'[i] # 0
  BY <1>1, <1>2, <1>3, <1>9 DEF On, PtpInv
<1>10. ASSUME NEW i \in Legs
       PROVE  req_tx'[i] + stray'[i] =
                resp_rx'[i] + resp_timeout'[i] + (IF i \in req_outstanding' THEN 1 ELSE 0)
  <2>1. /\ req_tx'[i] = IF i \in out THEN req_tx[i] + 1 ELSE req_tx[i]
        /\ resp_timeout'[i] = IF i \in group /\ i \in req_outstanding
                              THEN resp_timeout[i] + 1 ELSE resp_timeout[i]
        /\ i \in req_outstanding' <=> i \in out \/ (i \in req_outstanding /\ i \notin group)
    BY <1>1, <1>2 DEF More, Unanswered
  <2>2. /\ req_tx[i] \in Nat /\ stray[i] \in Nat /\ resp_rx[i] \in Nat
        /\ resp_timeout[i] \in Nat
        /\ req_tx[i] + stray[i] =
             resp_rx[i] + resp_timeout[i] + (IF i \in req_outstanding THEN 1 ELSE 0)
    BY DEF PtpInv
  <2>3. UNCHANGED <<stray, resp_rx>>
    BY <1>3
  <2> QED
    BY <1>2, <2>1, <2>2, <2>3
<1>11. \A i \in Legs : GroupOf(i)' = GroupOf(i)
  BY DEF GroupOf
<1> QED
  BY <1>2, <1>3, <1>4, <1>5, <1>6, <1>7, <1>8, <1>9, <1>10, <1>11
     DEF PtpInv, IsStale, Leader

\* An answer belongs to the leg that its VL-ID names.
LEMMA ResponseKeeps ==
    ASSUME PtpInv, NEW f \in frames, NEW l \in Legs, ptp_flows[l].resp_vl_id = f.vl_id,
           handle_response_rx(l, f), exchange' = exchange
    PROVE  PtpInv'
<1>1. /\ t4' = [t4 EXCEPT ![l] = f.n] /\ resp_rx' = [resp_rx EXCEPT ![l] = @ + 1]
      /\ req_outstanding' = req_outstanding \ {l} /\ frames' = frames \ {f}
      /\ stray' = IF l \in req_outstanding THEN stray ELSE [stray EXCEPT ![l] = @ + 1]
      /\ answered' = IF NewestSent(f) /\ t3[l] = t12[l]
                     THEN answered \cup {l} ELSE answered \ {l}
      /\ UNCHANGED <<t3, req_tx, resp_timeout, t12, sync_age, sync_stale>>
  BY DEF handle_response_rx, syncVars
<1>2. f.n \in Nat \ {0}
  BY DEF PtpInv
<1>3. /\ t4' \in [Legs -> Nat] /\ resp_rx' \in [Legs -> Nat] /\ stray' \in [Legs -> Nat]
      /\ req_outstanding' \subseteq Legs /\ \A g \in frames' : g.n \in Nat \ {0}
  BY <1>1, <1>2 DEF PtpInv
<1>4. ASSUME NEW i \in Legs, i \in answered'
      PROVE  t12'[i] = t3'[i] /\ t12'[i] = t4'[i] /\ t12'[i] # 0
  <2>1. CASE i = l
    <3>1. NewestSent(f) /\ t3[l] = t12[l]
      BY <1>1, <1>4, <2>1
    <3>2. t3[l] = f.n
      BY <3>1 DEF NewestSent
    <3> QED
      BY <1>1, <1>2, <2>1, <3>1, <3>2 DEF PtpInv
  <2>2. CASE i # l
    <3>1. i \in answered
      BY <1>1, <1>4, <2>2
    <3> QED
      BY <1>1, <2>2, <3>1 DEF PtpInv
  <2> QED
    BY <2>1, <2>2
<1>5. ASSUME NEW i \in Legs
      PROVE  req_tx'[i] + stray'[i] =
               resp_rx'[i] + resp_timeout'[i] + (IF i \in req_outstanding' THEN 1 ELSE 0)
  <2>1. /\ req_tx[i] \in Nat /\ stray[i] \in Nat /\ resp_rx[i] \in Nat
        /\ resp_timeout[i] \in Nat
        /\ req_tx[i] + stray[i] =
             resp_rx[i] + resp_timeout[i] + (IF i \in req_outstanding THEN 1 ELSE 0)
    BY DEF PtpInv
  <2>2. CASE i = l
    <3>1. resp_rx'[i] = resp_rx[i] + 1 /\ i \notin req_outstanding'
      BY <1>1, <2>2 DEF PtpInv
    <3>2. stray'[i] = IF l \in req_outstanding THEN stray[i] ELSE stray[i] + 1
      BY <1>1, <2>2 DEF PtpInv
    <3> QED
      BY <1>1, <2>1, <2>2, <3>1, <3>2
  <2>3. CASE i # l
    <3>1. /\ resp_rx'[i] = resp_rx[i] /\ stray'[i] = stray[i]
          /\ i \in req_outstanding' <=> i \in req_outstanding
      BY <1>1, <2>3 DEF PtpInv
    <3> QED
      BY <1>1, <2>1, <3>1
  <2> QED
    BY <2>2, <2>3
<1>6. \A i \in Legs : GroupOf(i)' = GroupOf(i)
  BY DEF GroupOf
<1> QED
  BY <1>1, <1>3, <1>4, <1>5, <1>6 DEF PtpInv, IsStale, Leader

\* Time passes for all the legs alike, and a request that is late is given up.
LEMMA NapKeeps ==
    ASSUME PtpInv, NEW nap \in Nat \ {0}, ptp_thread_fn(nap)
    PROVE  PtpInv'
<1> DEFINE Aged(age) == IF age = Never THEN Never
                        ELSE IF age + nap > Oldest THEN Oldest ELSE age + nap
           late == {l \in req_outstanding : Aged(req_age[l]) > RESP_LIMIT}
<1>1. /\ sync_age' = [l \in Legs |-> Aged(sync_age[l])]
      /\ resp_timeout' = More(resp_timeout, late)
      /\ req_outstanding' = req_outstanding \ late
      /\ sync_stale' = sync_stale \cup {l \in Legs : IsStale(sync_age'[l])}
      /\ UNCHANGED <<t12, t3, t4, req_tx, resp_rx, frames, exchange, answered, stray>>
  BY DEF ptp_thread_fn
<1>2. late \subseteq req_outstanding
  OBVIOUS
<1> HIDE DEF late
<1>3. ASSUME NEW age \in 0..Oldest \cup {Never}
      PROVE  /\ Aged(age) \in 0..Oldest \cup {Never}
             /\ IsStale(age) => IsStale(Aged(age))
             /\ Aged(age) # Never => age # Never
  BY DEF Oldest, Never, STALE_LIMIT, IsStale
<1>4. \A l \in Legs : sync_age[l] \in 0..Oldest \cup {Never}
  BY DEF PtpInv
<1> HIDE DEF Aged
<1>5. /\ sync_age' \in [Legs -> 0..Oldest \cup {Never}]
      /\ resp_timeout' \in [Legs -> Nat] /\ req_outstanding' \subseteq Legs
  <2>1. sync_age' \in [Legs -> 0..Oldest \cup {Never}]
    BY <1>1, <1>3, <1>4
  <2>2. resp_timeout' \in [Legs -> Nat]
    <3>1. resp_timeout \in [Legs -> Nat]
      BY DEF PtpInv
    <3> QED
      BY <1>1, <3>1 DEF More
  <2>3. req_outstanding' \subseteq Legs
    BY <1>1, <1>2 DEF PtpInv
  <2> QED
    BY <2>1, <2>2, <2>3
<1>6. \A l \in Legs, k \in Legs : k \in GroupOf(l) => sync_age'[k] = sync_age'[l]
  BY <1>1 DEF PtpInv
<1>7. \A l \in Legs : sync_age'[l] # Never => GroupOf(l) \cap Leader # {}
  BY <1>1, <1>3, <1>4 DEF PtpInv
<1>8. \A l \in sync_stale' : l \in Legs /\ IsStale(sync_age'[l])
  BY <1>1, <1>3, <1>4 DEF PtpInv
<1>9. ASSUME NEW i \in Legs
      PROVE  req_tx'[i] + stray'[i] =
               resp_rx'[i] + resp_timeout'[i] + (IF i \in req_outstanding' THEN 1 ELSE 0)
  <2>1. /\ req_tx[i] \in Nat /\ stray[i] \in Nat /\ resp_rx[i] \in Nat
        /\ resp_timeout[i] \in Nat
        /\ req_tx[i] + stray[i] =
             resp_rx[i] + resp_timeout[i] + (IF i \in req_outstanding THEN 1 ELSE 0)
    BY DEF PtpInv
  <2>2. /\ resp_timeout'[i] = IF i \in late THEN resp_timeout[i] + 1 ELSE resp_timeout[i]
        /\ i \in req_outstanding' <=> i \in req_outstanding /\ i \notin late
    BY <1>1 DEF More
  <2> QED
    BY <1>1, <1>2, <2>1, <2>2
<1>10. \A i \in Legs : GroupOf(i)' = GroupOf(i)
  BY DEF GroupOf
<1> QED
  BY <1>1, <1>5, <1>6, <1>7, <1>8, <1>9, <1>10 DEF PtpInv, Leader, IsStale

\* Every step keeps the invariant of the PTP viewer.
LEMMA PtpInvStep == PtpInv /\ [PtpNext]_ptpVars => PtpInv'
<1> SUFFICES ASSUME PtpInv, [PtpNext]_ptpVars PROVE PtpInv'
  OBVIOUS
<1>1. ASSUME NEW l \in Leader, SendSync(l) PROVE PtpInv'
  <2>1. /\ exchange' = exchange + 1 /\ frames' = frames \cup {Frame("Sync", l, exchange')}
        /\ UNCHANGED <<requestVars, syncVars, t4, resp_rx, answered, stray>>
    BY <1>1 DEF SendSync
  <2>2. exchange' \in Nat /\ Frame("Sync", l, exchange').n \in Nat \ {0}
    BY <2>1 DEF Frame, PtpInv
  <2>3. \A f \in frames' : f.n \in Nat \ {0}
    BY <2>1, <2>2 DEF PtpInv
  <2> QED
    BY <2>1, <2>2, <2>3
       DEF PtpInv, requestVars, syncVars, GroupOf, Leader, IsStale
<1>2. ASSUME NEW f \in frames, rx_one_port(f) PROVE PtpInv'
  <2>1. PICK l \in lookup_flow(f) :
           \/ f.msg = "Sync" /\ handle_sync_rx(l, f)
           \/ f.msg = "Resp" /\ handle_response_rx(l, f)
    BY <1>2 DEF rx_one_port
  <2>2. exchange' = exchange /\ l \in Legs
    BY <1>2 DEF rx_one_port, lookup_flow
  <2>3. CASE f.msg = "Sync" /\ handle_sync_rx(l, f)
    <3>1. l \in Leader
      BY <2>3 DEF lookup_flow
    <3> QED
      BY <2>2, <2>3, <3>1, SyncKeeps
  <2>4. CASE f.msg = "Resp" /\ handle_response_rx(l, f)
    <3>1. ptp_flows[l].resp_vl_id = f.vl_id
      BY <2>4 DEF lookup_flow, IsAnswerOf
    <3> QED
      BY <2>2, <2>4, <3>1, ResponseKeeps
  <2> QED
    BY <2>1, <2>3, <2>4
<1>3. ASSUME NEW nap \in 1..MaxNap, ptp_thread_fn(nap) PROVE PtpInv'
  <2>1. nap \in Nat \ {0}
    BY VmcPtpAssumption
  <2> QED
    BY <1>3, <2>1, NapKeeps
<1>4. CASE UNCHANGED ptpVars
  BY <1>4 DEF ptpVars, requestVars, syncVars, PtpInv, GroupOf, Leader, IsStale
<1> QED
  BY <1>1, <1>2, <1>3, <1>4 DEF PtpNext

\* Whatever is lost, late, swapped or not sent, for any rows of the table of flows.
THEOREM PtpViewHolds == Spec => []PtpViewIsTrue
<1>1. Init => PtpInv
  BY PtpInvInit DEF Init
<1>2. PtpInv /\ [Next]_vars => PtpInv'
  <2>1. [Next]_vars => [PtpNext]_ptpVars
    BY DEF Next, vars
  <2> QED
    BY <2>1, PtpInvStep
<1> QED
  BY <1>1, <1>2, PtpInvImplies, PTL DEF Spec

-----------------------------------------------------------------------------
(* The health monitor.                                                     *)

\* What a slot can hold.
Content == SUBSET (BmSensor \cup EsSensor \cup SwSensor \cup {"old", "no report"})

\* f was in exactly the last s of what was found.
Streak(seq, f, s) ==
    /\ s <= Len(seq)
    /\ \A i \in 1..Len(seq) : i > Len(seq) - s => f \in seq[i]
    /\ s < Len(seq) => f \notin seq[Len(seq) - s]

\* A slot holds the newest report; the counter of a sensor is the length of its streak, and
\* when one has reached LIMIT, its slot is not looked at again before the test ends.
MonitorInv ==
    /\ slot = newest /\ newest \in [Slot -> Content]
    /\ found \in [Slot -> Seq(Content)] /\ \A e \in Slot : Len(found[e]) <= LIMIT
    /\ streak \in [Sensor -> Nat]
    /\ \A e \in Slot : \A f \in SensorsOf(e) : Streak(found[e], f, streak[<<e, f>>])
    /\ abort \in BOOLEAN /\ (abort <=> \E s \in Sensor : streak[s] = LIMIT)
    /\ at \in 0..Ended /\ (at = NotStarted => ~abort)
    /\ at \in 1..12 => Order[at] \in Slot
    /\ abort /\ at \in 1..12 =>
          \A s \in Sensor : streak[s] = LIMIT => \A j \in at..12 : Order[j] # s[1]

\* A sensor is a slot and one of its fields.
LEMMA SensorIs ==
    \A s : s \in Sensor <=> \E e \in Slot : \E f \in SensorsOf(e) : s = <<e, f>>
BY DEF Sensor

\* No sensor is called "no report".
LEMMA NoReportIsNoSensor ==
    ASSUME NEW e \in Slot, NEW f \in SensorsOf(e)
    PROVE  f # "no report" /\ SensorsOf(e) \subseteq BmSensor \cup EsSensor \cup SwSensor
BY MonitorAssumption DEF SensorsOf

\* The dashboard takes every slot once.
LEMMA OrderIsInjective ==
    ASSUME NEW i \in 1..12, NEW j \in 1..12, Order[i] = Order[j]
    PROVE  i = j
<1> DEFINE k(n) == (n + 1) \div 2
           d(n) == ((n - 1) % 2) + 1
<1>1. Order[i] = [kind |-> Kind[k(i)], device |-> Device[d(i)]]
  BY DEF Order
<1>2. Order[j] = [kind |-> Kind[k(j)], device |-> Device[d(j)]]
  BY DEF Order
<1>3. Kind[k(i)] = Kind[k(j)] /\ Device[d(i)] = Device[d(j)]
  <2> HIDE DEF k, d
  <2>1. Order[i].kind = Kind[k(i)] /\ Order[i].device = Device[d(i)]
    BY <1>1
  <2>2. Order[j].kind = Kind[k(j)] /\ Order[j].device = Device[d(j)]
    BY <1>2
  <2> QED
    BY <2>1, <2>2
<1>4. k(i) \in 1..6 /\ k(j) \in 1..6 /\ d(i) \in 1..2 /\ d(j) \in 1..2
  OBVIOUS
<1>5. \A a \in 1..6, b \in 1..6 : Kind[a] = Kind[b] => a = b
  BY DEF Kind
<1>6. \A a \in 1..2, b \in 1..2 : Device[a] = Device[b] => a = b
  BY DEF Device
<1>7. k(i) = k(j) /\ d(i) = d(j)
  BY <1>3, <1>4, <1>5, <1>6
<1> QED
  BY <1>7

\* What After leads to is a slot further on.
LEMMA AfterLeadsOn ==
    ASSUME NEW i \in 0..12
    PROVE  \/ After(i) = 0
           \/ After(i) \in 1..12 /\ After(i) > i /\ Order[After(i)] \in Slot
<1> DEFINE later == {j \in 1..12 : j > i /\ Order[j].kind \in Watched}
<1>1. CASE later = {}
  BY <1>1 DEF After
<1>2. CASE later # {}
  <2>1. Min(later) \in later
    BY <1>2, MinIsLeast
  <2> DEFINE j == Min(later)
  <2>2. After(i) = j
    BY <1>2 DEF After
  <2> HIDE DEF j
  <2>3. j \in 1..12 /\ j > i /\ Order[j].kind \in Watched
    BY <2>1 DEF j
  <2>4. Order[j] = [kind |-> Kind[(j + 1) \div 2], device |-> Device[((j - 1) % 2) + 1]]
    BY <2>3 DEF Order
  <2>5. Device[((j - 1) % 2) + 1] \in Side
    <3>1. ((j - 1) % 2) + 1 \in 1..2
      BY <2>3
    <3> QED
      BY <3>1 DEF Device, Side
  <2>6. Order[j] \in Slot
    BY <2>3, <2>4, <2>5 DEF Slot
  <2> QED
    BY <2>2, <2>3, <2>6
<1> QED
  BY <1>1, <1>2

\* A streak that is as long as the limit fills what is remembered.
LEMMA MonitorInvImplies == MonitorInv => StopsWhenHot
<1> SUFFICES ASSUME MonitorInv
             PROVE  (\E s \in Sensor : streak[s] = LIMIT)
                    <=> \E e \in Slot : \E f \in SensorsOf(e) :
                           Len(found[e]) = LIMIT /\ \A i \in 1..LIMIT : f \in found[e][i]
  BY DEF MonitorInv, StopsWhenHot
<1>1. ASSUME NEW e \in Slot, NEW f \in SensorsOf(e)
      PROVE  streak[<<e, f>>] = LIMIT
               <=> Len(found[e]) = LIMIT /\ \A i \in 1..LIMIT : f \in found[e][i]
  <2>1. /\ <<e, f>> \in Sensor /\ streak[<<e, f>>] \in Nat /\ Len(found[e]) <= LIMIT
        /\ Streak(found[e], f, streak[<<e, f>>]) /\ found[e] \in Seq(Content)
    BY SensorIs DEF MonitorInv
  <2>2. Len(found[e]) \in Nat /\ LIMIT \in Nat \ {0}
    BY <2>1, LenProperties, MonitorAssumption
  <2> DEFINE s == streak[<<e, f>>]
             q == found[e]
  <2> HIDE DEF s, q
  <2>3. s \in Nat /\ Len(q) \in Nat /\ Len(q) <= LIMIT /\ Streak(q, f, s)
    BY <2>1, <2>2 DEF s, q
  <2>4. ASSUME s = LIMIT PROVE Len(q) = LIMIT /\ \A i \in 1..LIMIT : f \in q[i]
    BY <2>2, <2>3, <2>4 DEF Streak
  <2>5. ASSUME Len(q) = LIMIT, \A i \in 1..LIMIT : f \in q[i] PROVE s = LIMIT
    <3> SUFFICES ASSUME s < LIMIT PROVE FALSE
      BY <2>2, <2>3, <2>5 DEF Streak
    <3>1. LIMIT - s \in 1..LIMIT
      BY <2>2, <2>3
    <3> QED
      BY <2>3, <2>5, <3>1 DEF Streak
  <2> QED
    BY <2>4, <2>5 DEF s, q
<1>2. ASSUME NEW s \in Sensor, streak[s] = LIMIT
      PROVE  \E e \in Slot : \E f \in SensorsOf(e) :
                Len(found[e]) = LIMIT /\ \A i \in 1..LIMIT : f \in found[e][i]
  <2>1. PICK e \in Slot : \E f \in SensorsOf(e) : s = <<e, f>>
    BY SensorIs
  <2>2. PICK f \in SensorsOf(e) : s = <<e, f>>
    BY <2>1
  <2> QED
    BY <1>1, <1>2, <2>2
<1>3. ASSUME NEW e \in Slot, NEW f \in SensorsOf(e),
             Len(found[e]) = LIMIT, \A i \in 1..LIMIT : f \in found[e][i]
      PROVE  \E s \in Sensor : streak[s] = LIMIT
  <2>1. <<e, f>> \in Sensor
    BY SensorIs
  <2> QED
    BY <1>1, <1>3, <2>1
<1> QED
  BY <1>2, <1>3

\* The invariant of the monitor holds at the start.
LEMMA MonitorInvInit == MonitorInit => MonitorInv
<1> SUFFICES ASSUME MonitorInit PROVE MonitorInv
  OBVIOUS
<1>1. /\ slot = [e \in Slot |-> NoReport] /\ streak = [s \in Sensor |-> 0]
      /\ at = NotStarted /\ abort = FALSE /\ newest = slot
      /\ found = [e \in Slot |-> <<>>]
  BY DEF MonitorInit
<1>2. NoReport \in Content
  BY DEF NoReport, Content
<1>3. found \in [Slot -> Seq(Content)] /\ \A e \in Slot : Len(found[e]) = 0
  BY <1>1, EmptySeq
<1>4. ASSUME NEW e \in Slot, NEW f \in SensorsOf(e)
      PROVE  Streak(found[e], f, streak[<<e, f>>])
  <2>1. streak[<<e, f>>] = 0 /\ Len(found[e]) = 0
    BY <1>1, <1>3, SensorIs
  <2> QED
    BY <2>1 DEF Streak
<1>5. LIMIT \in Nat \ {0} /\ NotStarted = 13 /\ Ended = 14
  BY MonitorAssumption DEF NotStarted, Ended
<1>6. \A s \in Sensor : streak[s] # LIMIT
  BY <1>1, <1>5
<1>7. newest \in [Slot -> Content] /\ streak \in [Sensor -> Nat]
  BY <1>1, <1>2
<1>8. at \in 0..Ended /\ at \notin 1..12
  BY <1>1, <1>5
<1>9. abort \in BOOLEAN /\ ~abort
  BY <1>1
<1>10. \A e \in Slot : Len(found[e]) <= LIMIT
  BY <1>3, <1>5
<1> QED
  BY <1>1, <1>3, <1>4, <1>6, <1>7, <1>8, <1>9, <1>10 DEF MonitorInv

\* A packet is stored, or it is one of those that are dropped.
LEMMA PacketKeeps ==
    ASSUME MonitorInv, NEW e \in Slot, NEW content \in SUBSET SensorsOf(e),
           NEW empty \in BOOLEAN, empty => Counted(e), HandlePacket(e, content, empty)
    PROVE  MonitorInv'
<1>1. /\ slot' = IF Stored(e, empty) THEN [slot EXCEPT ![e] = content] ELSE slot
      /\ newest' = IF empty THEN newest ELSE [newest EXCEPT ![e] = content]
      /\ UNCHANGED <<streak, at, abort, found>>
  BY DEF HandlePacket
<1>2. content \in Content
  BY DEF Content, SensorsOf
<1>3. Stored(e, empty) <=> ~empty
  BY DEF Stored
<1>4. slot' = newest' /\ newest' \in [Slot -> Content]
  BY <1>1, <1>2, <1>3 DEF MonitorInv
<1> QED
  BY <1>1, <1>4 DEF MonitorInv, Streak

\* Starting the monitor keeps its invariant.
LEMMA StartKeeps == MonitorInv /\ StartMonitor => MonitorInv'
<1> SUFFICES ASSUME MonitorInv, StartMonitor PROVE MonitorInv'
  OBVIOUS
<1>1. /\ slot' = [e \in Slot |-> Preload(e)] /\ newest' = slot' /\ at' = 0
      /\ UNCHANGED <<streak, abort, found>> /\ ~abort
  BY DEF StartMonitor, MonitorInv
<1>2. ASSUME NEW e \in Slot PROVE Preload(e) \in Content
  BY DEF Preload, Content, NoReport
<1>3. newest' \in [Slot -> Content]
  BY <1>1, <1>2
<1>4. 0 \in 0..Ended /\ 0 # NotStarted /\ 0 \notin 1..12
  BY DEF Ended, NotStarted
<1> QED
  BY <1>1, <1>3, <1>4 DEF MonitorInv, Streak

\* A second that passes keeps it.
LEMMA TickKeeps == MonitorInv /\ Tick => MonitorInv'
<1> SUFFICES ASSUME MonitorInv, Tick PROVE MonitorInv'
  OBVIOUS
<1>1. /\ at = 0 /\ at' = IF abort THEN Ended ELSE After(0)
      /\ UNCHANGED <<slot, streak, abort, newest, found>>
  BY DEF Tick
<1>2. After(0) = 0 \/ (After(0) \in 1..12 /\ Order[After(0)] \in Slot)
  BY AfterLeadsOn
<1>3. /\ at' \in 0..Ended /\ at' # NotStarted /\ (at' \in 1..12 => ~abort /\ Order[at'] \in Slot)
  BY <1>1, <1>2 DEF Ended, NotStarted
<1> QED
  BY <1>1, <1>3 DEF MonitorInv, Streak

\* One more look makes a streak longer by one, or ends it, and what is forgotten is older.
LEMMA OneMoreLook ==
    ASSUME NEW q \in Seq(Content), NEW c \in Content, Len(q) <= LIMIT
    PROVE  LET q2 == LastLooks(Append(q, c))
           IN  /\ q2 \in Seq(Content) /\ Len(q2) <= LIMIT
               /\ \A f : \A s \in Nat : s < LIMIT /\ Streak(q, f, s) =>
                     Streak(q2, f, IF f \in c THEN s + 1 ELSE 0)
<1> DEFINE a == Append(q, c)
           n == Len(q)
           q2 == LastLooks(a)
<1>1. /\ a \in Seq(Content) /\ a # <<>> /\ Len(a) = n + 1 /\ n \in Nat /\ a[n + 1] = c
      /\ \A i \in 1..n : a[i] = q[i]
  BY AppendProperties, LenProperties
<1>2. LIMIT \in Nat \ {0} /\ n <= LIMIT
  BY MonitorAssumption
<1>3. /\ Tail(a) \in Seq(Content) /\ Len(Tail(a)) = n
      /\ \A i \in 1..n : Tail(a)[i] = a[i + 1]
  <2>1. /\ Tail(a) \in Seq(Content) /\ Len(Tail(a)) = Len(a) - 1
        /\ \A i \in 1..Len(Tail(a)) : Tail(a)[i] = a[i + 1]
    BY <1>1, HeadTailProperties
  <2> HIDE DEF a, n
  <2>2. Len(Tail(a)) = n
    BY <1>1, <2>1
  <2> QED
    BY <2>1, <2>2
<1> DEFINE t == Tail(a)
<1>4. q2 = IF n + 1 > LIMIT THEN t ELSE a
  BY <1>1 DEF LastLooks
<1> HIDE DEF a, n, t, q2
<1>5. q2 \in Seq(Content) /\ Len(q2) <= LIMIT
  BY <1>1, <1>2, <1>3, <1>4 DEF t
<1>6. ASSUME NEW f, NEW s \in Nat, s < LIMIT, Streak(q, f, s)
      PROVE  Streak(q2, f, IF f \in c THEN s + 1 ELSE 0)
  <2>1. /\ s <= n /\ (\A i \in 1..n : i > n - s => f \in q[i])
        /\ (s < n => f \notin q[n - s])
    BY <1>6 DEF Streak, n
  <2>2. CASE f \notin c
    <3>1. CASE n + 1 > LIMIT
      <4>1. q2 = t /\ Len(t) = n /\ t[n] = c /\ n \in Nat \ {0}
        BY <1>1, <1>2, <1>3, <1>4, <3>1 DEF t
      <4> QED
        BY <2>2, <4>1 DEF Streak
    <3>2. CASE ~(n + 1 > LIMIT)
      <4>1. q2 = a /\ Len(a) = n + 1 /\ a[n + 1] = c /\ n \in Nat
        BY <1>1, <1>4, <3>2
      <4> QED
        BY <2>2, <4>1 DEF Streak
    <3> QED
      BY <3>1, <3>2
  <2>3. CASE f \in c
    <3>1. CASE n + 1 > LIMIT
      <4>1. q2 = t /\ Len(t) = n /\ n \in Nat /\ n = LIMIT /\ \A i \in 1..n : t[i] = a[i + 1]
        BY <1>1, <1>2, <1>3, <1>4, <3>1 DEF t
      <4>2. ASSUME NEW i \in 1..n, i > n - (s + 1) PROVE f \in t[i]
        <5>1. CASE i = n
          BY <1>1, <2>3, <4>1, <5>1
        <5>2. CASE i # n
          <6>1. i + 1 \in 1..n /\ i + 1 > n - s
            BY <4>1, <4>2, <5>2
          <6> QED
            BY <1>1, <2>1, <4>1, <6>1
        <5> QED
          BY <5>1, <5>2
      <4>3. ASSUME s + 1 < n PROVE f \notin t[n - (s + 1)]
        <5>1. n - (s + 1) \in 1..n /\ n - s \in 1..n /\ (n - (s + 1)) + 1 = n - s
          BY <4>1, <4>3
        <5>2. t[n - (s + 1)] = q[n - s]
          BY <1>1, <4>1, <5>1
        <5> QED
          BY <2>1, <4>3, <5>2, <4>1
      <4> QED
        BY <1>6, <2>3, <4>1, <4>2, <4>3 DEF Streak
    <3>2. CASE ~(n + 1 > LIMIT)
      <4>1. q2 = a /\ Len(a) = n + 1 /\ n \in Nat
        BY <1>1, <1>4, <3>2
      <4>2. ASSUME NEW i \in 1..(n + 1), i > (n + 1) - (s + 1) PROVE f \in a[i]
        BY <1>1, <2>1, <2>3, <4>1, <4>2
      <4>3. ASSUME s + 1 < n + 1 PROVE f \notin a[(n + 1) - (s + 1)]
        <5>1. (n + 1) - (s + 1) = n - s /\ n - s \in 1..n
          BY <4>1, <4>3
        <5> QED
          BY <1>1, <2>1, <4>1, <4>3, <5>1
      <4> QED
        BY <1>6, <2>1, <2>3, <4>1, <4>2, <4>3 DEF Streak
    <3> QED
      BY <3>1, <3>2
  <2> QED
    BY <2>2, <2>3
<1> QED
  BY <1>5, <1>6 DEF q2, a

\* A look at a slot that has a report: its streaks go on or end, the others stay.
LEMMA LookKeeps ==
    ASSUME MonitorInv, at \in 1..12, NEW e \in Slot, e = Order[at],
           CheckTemps(e), found' = [found EXCEPT ![e] = LastLooks(Append(@, newest[e]))],
           at' = After(at), UNCHANGED <<slot, newest>>
    PROVE  MonitorInv'
<1> DEFINE next(f) == IF f \in newest[e] THEN streak[<<e, f>>] + 1 ELSE 0
<1>1. /\ LIMIT \in Nat \ {0} /\ newest[e] \in Content
      /\ found[e] \in Seq(Content) /\ Len(found[e]) <= LIMIT /\ Len(found[e]) \in Nat
  BY MonitorAssumption, LenProperties DEF MonitorInv
<1>2. ASSUME NEW f \in SensorsOf(e)
      PROVE  /\ <<e, f>> \in Sensor /\ streak[<<e, f>>] \in Nat /\ streak[<<e, f>>] < LIMIT
             /\ Streak(found[e], f, streak[<<e, f>>])
  <2>1. <<e, f>> \in Sensor
    BY SensorIs
  <2>2. streak[<<e, f>>] \in Nat /\ Streak(found[e], f, streak[<<e, f>>])
    BY <2>1 DEF MonitorInv
  <2>3. streak[<<e, f>>] <= LIMIT
    BY <1>1, <2>2 DEF Streak
  <2>4. streak[<<e, f>>] # LIMIT
    <3> SUFFICES ASSUME streak[<<e, f>>] = LIMIT PROVE FALSE
      OBVIOUS
    <3>1. abort
      BY <2>1 DEF MonitorInv
    <3>2. at \in at..12
      OBVIOUS
    <3>3. Order[at] # e
      BY <2>1, <3>1, <3>2 DEF MonitorInv
    <3> QED
      BY <3>3
  <2> QED
    BY <1>1, <2>1, <2>2, <2>3, <2>4
<1>3. ASSUME NEW s \in Sensor
      PROVE  streak'[s] = IF s[1] = e THEN next(s[2]) ELSE streak[s]
  <2>1. PICK d \in Slot : \E f \in SensorsOf(d) : s = <<d, f>>
    BY SensorIs
  <2>2. PICK f \in SensorsOf(d) : s = <<d, f>>
    BY <2>1
  <2>3. s \in {StreakOf(e, g) : g \in SensorsOf(e)} <=> s[1] = e
    BY <2>2 DEF StreakOf
  <2>4. slot[e] = newest[e]
    BY DEF MonitorInv
  <2> QED
    BY <2>2, <2>3, <2>4 DEF CheckTemps, StreakOf
<1>4. abort' <=> abort \/ \E f \in SensorsOf(e) : next(f) >= LIMIT
  BY DEF CheckTemps, StreakOf, MonitorInv
<1>5. \A f \in SensorsOf(e) : next(f) \in Nat /\ next(f) <= LIMIT
  BY <1>1, <1>2
<1>6. DOMAIN streak' = Sensor /\ streak' = [s \in Sensor |-> streak'[s]]
  BY DEF CheckTemps
<1>7. streak' \in [Sensor -> Nat]
  <2>1. ASSUME NEW s \in Sensor PROVE streak'[s] \in Nat
    <3>1. PICK d \in Slot : \E f \in SensorsOf(d) : s = <<d, f>>
      BY SensorIs
    <3>2. PICK f \in SensorsOf(d) : s = <<d, f>>
      BY <3>1
    <3>3. streak[s] \in Nat
      BY DEF MonitorInv
    <3> QED
      BY <1>3, <1>5, <3>2, <3>3
  <2> QED
    BY <1>6, <2>1
<1>8. /\ found' \in [Slot -> Seq(Content)] /\ \A d \in Slot : Len(found'[d]) <= LIMIT
  BY <1>1, OneMoreLook DEF MonitorInv
<1>9. ASSUME NEW d \in Slot, NEW f \in SensorsOf(d)
      PROVE  Streak(found'[d], f, streak'[<<d, f>>])
  <2>0. <<d, f>> \in Sensor
    BY SensorIs
  <2>1. CASE d = e
    <3>1. found'[d] = LastLooks(Append(found[e], newest[e]))
      BY <2>1 DEF MonitorInv
    <3>2. streak'[<<d, f>>] = IF f \in newest[e] THEN streak[<<e, f>>] + 1 ELSE 0
      BY <1>3, <2>0, <2>1
    <3>3. /\ streak[<<e, f>>] \in Nat /\ streak[<<e, f>>] < LIMIT
          /\ Streak(found[e], f, streak[<<e, f>>])
      BY <1>2, <2>1
    <3> QED
      BY <1>1, <3>1, <3>2, <3>3, OneMoreLook
  <2>2. CASE d # e
    <3>1. found'[d] = found[d] /\ streak'[<<d, f>>] = streak[<<d, f>>]
      BY <1>3, <2>0, <2>2 DEF MonitorInv
    <3> QED
      BY <3>1 DEF MonitorInv
  <2> QED
    BY <2>1, <2>2
<1>10. ASSUME NEW s \in Sensor PROVE streak'[s] = LIMIT => abort'
  <2> SUFFICES ASSUME streak'[s] = LIMIT PROVE abort'
    OBVIOUS
  <2>1. CASE s[1] = e
    <3>1. PICK d \in Slot : \E f \in SensorsOf(d) : s = <<d, f>>
      BY SensorIs
    <3>2. PICK f \in SensorsOf(d) : s = <<d, f>>
      BY <3>1
    <3>3. f \in SensorsOf(e) /\ next(f) = LIMIT
      BY <1>3, <2>1, <3>2
    <3> QED
      BY <1>1, <1>4, <3>3
  <2>2. CASE s[1] # e
    <3>1. streak[s] = LIMIT
      BY <1>3, <2>2
    <3> QED
      BY <1>4, <3>1 DEF MonitorInv
  <2> QED
    BY <2>1, <2>2
<1>11. ASSUME abort' PROVE \E s \in Sensor : streak'[s] = LIMIT
  <2>1. CASE abort
    <3>1. PICK s \in Sensor : streak[s] = LIMIT
      BY <2>1 DEF MonitorInv
    <3>2. s[1] # e
      <4>1. PICK d \in Slot : \E f \in SensorsOf(d) : s = <<d, f>>
        BY SensorIs
      <4>2. PICK f \in SensorsOf(d) : s = <<d, f>>
        BY <4>1
      <4> QED
        BY <1>1, <1>2, <3>1, <4>2
    <3> QED
      BY <1>3, <3>1, <3>2
  <2>2. ASSUME NEW f \in SensorsOf(e), next(f) >= LIMIT
        PROVE  \E s \in Sensor : streak'[s] = LIMIT
    <3>1. next(f) = LIMIT
      BY <1>1, <1>5, <2>2
    <3>2. <<e, f>> \in Sensor
      BY SensorIs
    <3>3. streak'[<<e, f>>] = next(f)
      BY <1>3, <3>2
    <3> QED
      BY <3>1, <3>2, <3>3
  <2> QED
    BY <1>4, <1>11, <2>1, <2>2
<1>12. \/ at' = 0
       \/ at' \in 1..12 /\ at' > at /\ Order[at'] \in Slot
  BY AfterLeadsOn
<1>13. at' \in 0..Ended /\ at' # NotStarted
  BY <1>12 DEF Ended, NotStarted
<1>14. ASSUME at' \in 1..12, NEW s \in Sensor, streak'[s] = LIMIT, NEW j \in at'..12
       PROVE  Order[j] # s[1]
  <2>1. j \in 1..12 /\ j > at /\ j \in at..12
    BY <1>12, <1>14
  <2>2. CASE s[1] = e
    <3>1. Order[j] # Order[at]
      BY <2>1, OrderIsInjective
    <3> QED
      BY <2>2, <3>1
  <2>3. CASE s[1] # e
    <3>1. streak[s] = LIMIT
      BY <1>3, <1>14, <2>3
    <3>2. abort
      BY <3>1 DEF MonitorInv
    <3> QED
      BY <2>1, <3>1, <3>2 DEF MonitorInv
  <2> QED
    BY <2>2, <2>3
<1>15. abort' \in BOOLEAN
  BY <1>4 DEF CheckTemps, MonitorInv
<1>16. slot' = newest' /\ newest' \in [Slot -> Content]
  BY DEF MonitorInv
<1> HIDE DEF next
<1>17. abort' <=> \E s \in Sensor : streak'[s] = LIMIT
  BY <1>10, <1>11
<1>18. at' \in 1..12 => Order[at'] \in Slot
  BY <1>12
<1> QED
  BY <1>7, <1>8, <1>9, <1>13, <1>14, <1>15, <1>16, <1>17, <1>18 DEF MonitorInv

\* A packet that is handled keeps it.
LEMMA DrainKeeps == MonitorInv /\ Drain => MonitorInv'
<1> SUFFICES ASSUME MonitorInv, Drain PROVE MonitorInv'
  OBVIOUS
<1> DEFINE e == Order[at]
<1>1. at \in 1..12 /\ at' = After(at) /\ UNCHANGED <<slot, newest>> /\ e \in Slot
  BY DEF Drain, MonitorInv
<1>2. slot[e] = newest[e]
  BY DEF MonitorInv
<1>3. CASE newest[e] = NoReport
  <2>1. UNCHANGED <<slot, newest, streak, abort, found>>
    BY <1>1, <1>2, <1>3 DEF Drain
  <2>2. \/ at' = 0
        \/ at' \in 1..12 /\ at' > at /\ Order[at'] \in Slot
    BY <1>1, AfterLeadsOn
  <2>3. at' \in 0..Ended /\ at' # NotStarted
    BY <2>2 DEF Ended, NotStarted
  <2>4. at' \in 1..12 => \A j \in at'..12 : j \in at..12
    BY <1>1, <2>2
  <2> QED
    BY <1>1, <2>1, <2>2, <2>3, <2>4 DEF MonitorInv, Streak
<1>4. CASE newest[e] # NoReport
  <2>1. CheckTemps(e) /\ found' = [found EXCEPT ![e] = LastLooks(Append(@, newest[e]))]
    BY <1>2, <1>4 DEF Drain
  <2> QED
    BY <1>1, <2>1, LookKeeps
<1> QED
  BY <1>3, <1>4

\* Every step keeps the invariant of the monitor.
LEMMA MonitorInvStep == MonitorInv /\ [MonitorNext]_monitorVars => MonitorInv'
<1> SUFFICES ASSUME MonitorInv, [MonitorNext]_monitorVars PROVE MonitorInv'
  OBVIOUS
<1>1. CASE StartMonitor \/ Tick \/ Drain
  BY <1>1, StartKeeps, TickKeeps, DrainKeeps
<1>2. ASSUME NEW e \in Slot, NEW content \in SUBSET SensorsOf(e),
             NEW empty \in (IF content = {} /\ Counted(e) THEN BOOLEAN ELSE {FALSE}),
             HandlePacket(e, content, empty)
      PROVE  MonitorInv'
  <2>1. empty \in BOOLEAN /\ (empty => Counted(e))
    BY <1>2
  <2> QED
    BY <1>2, <2>1, PacketKeeps
<1>3. CASE UNCHANGED monitorVars
  BY <1>3 DEF monitorVars, MonitorInv, Streak
<1> QED
  BY <1>1, <1>2, <1>3 DEF MonitorNext

\* For any sensors and any LIMIT, and whatever reports come between two looks.
THEOREM StopsWhenHotHolds == Spec => []StopsWhenHot
<1>1. Init => MonitorInv
  BY MonitorInvInit DEF Init
<1>2. MonitorInv /\ [Next]_vars => MonitorInv'
  <2>1. [Next]_vars => [MonitorNext]_monitorVars
    BY DEF Next, vars
  <2> QED
    BY <2>1, MonitorInvStep
<1> QED
  BY <1>1, <1>2, MonitorInvImplies, PTL DEF Spec

-----------------------------------------------------------------------------
(* The VMC starter.                                                        *)

\* What a side has reported well enough to be kept.
Kept(s, t) == t \in {"DTN_ES", "BM_FLAG"} => <<s, t>> \notin mute

StarterState ==
    [phase : {"off", "trigger", "cbit", "pbit"}, count : [Side -> [CbitType -> Nat]],
     sw : [Side -> [fw : Firmware \cup {None}, linked : BOOLEAN]],
     es : [Side -> Firmware \cup {None}],
     bm : [Side -> {None, "fault", "clean"}], pbit : SUBSET Side,
     result : {None, "OK", "TIMEOUT", "ERROR", "BM_FLAG_FAULT"}]

\* What the program has of a side is nothing or the truth, and it is the truth when a
\* report counted, unless one was too short to keep.
ToldTruly(st, s) ==
    /\ st.sw[s] \in {NoSwitch, Heard(s, "DTN_SW")}
    /\ st.es[s] \in {None, Heard(s, "DTN_ES")}
    /\ st.bm[s] \in {None, Heard(s, "BM_FLAG")}
    /\ st.count[s]["DTN_SW"] > 0 => st.sw[s] = Heard(s, "DTN_SW")
    /\ st.count[s]["DTN_ES"] > 0 /\ Kept(s, "DTN_ES") => st.es[s] = Heard(s, "DTN_ES")
    /\ st.count[s]["BM_FLAG"] > 0 /\ Kept(s, "BM_FLAG") => st.bm[s] = Heard(s, "BM_FLAG")

\* The second phase begins when enough reports were counted, and the verdict is the end.
PhaseIsDue(st) ==
    /\ st.phase = "pbit" => AllMet(st)
    /\ judged => st.phase = "off"

StarterInv ==
    /\ truth \in [Side -> Unit] /\ judged \in BOOLEAN
    /\ starter \in StarterState
    /\ \A s \in Side : ToldTruly(starter, s)
    /\ PhaseIsDue(starter)
    /\ VerdictIsRight

\* A program that has heard nothing has heard nothing false.
LEMMA NothingIsTrue ==
    ASSUME NEW st, NEW s \in Side, st.sw[s] = NoSwitch, st.es[s] = None, st.bm[s] = None,
           \A t \in CbitType : st.count[s][t] = 0
    PROVE  ToldTruly(st, s)
<1>1. \A t \in CbitType : ~(st.count[s][t] > 0)
  OBVIOUS
<1>2. ~(st.count[s]["DTN_SW"] > 0) /\ ~(st.count[s]["DTN_ES"] > 0)
      /\ ~(st.count[s]["BM_FLAG"] > 0)
  BY <1>1 DEF CbitType
<1> QED
  BY <1>2 DEF ToldTruly

\* The invariant of the starter holds at the start of every phase it may begin in.
LEMMA StarterInvInit ==
    ASSUME NEW P \in SUBSET {"off", "trigger", "cbit"}, NEW F, StarterInit(P, F)
    PROVE  StarterInv
<1>1. PICK p \in P : starter = [Fresh EXCEPT !.phase = p]
  BY DEF StarterInit
<1>2. truth \in [Side -> Unit] /\ judged = FALSE /\ mute = {}
  BY DEF StarterInit
<1>3. starter \in StarterState
  BY <1>1 DEF Fresh, StarterState, NoSwitch, None
<1>4. /\ starter.count = [s \in Side |-> [t \in CbitType |-> 0]]
      /\ starter.sw = [s \in Side |-> NoSwitch] /\ starter.es = [s \in Side |-> None]
      /\ starter.bm = [s \in Side |-> None] /\ starter.phase = p
  BY <1>1 DEF Fresh
<1>5. \A s \in Side : ToldTruly(starter, s)
  BY <1>4, NothingIsTrue
<1>6. VerdictIsRight
  BY <1>2 DEF VerdictIsRight
<1>7. PhaseIsDue(starter)
  BY <1>2, <1>4 DEF PhaseIsDue
<1> QED
  BY <1>2, <1>3, <1>5, <1>6, <1>7 DEF StarterInv

\* The program ends, with a result that is no verdict or a right one.
LEMMA EndKeeps ==
    ASSUME StarterInv, NEW r \in {"OK", "TIMEOUT", "ERROR", "BM_FLAG_FAULT"}, Result(r),
           truth' = truth, mute' = mute, judged' \in BOOLEAN, VerdictIsRight'
    PROVE  StarterInv'
<1>1. starter' \in StarterState
  BY DEF Result, Fresh, StarterState, NoSwitch, None
<1>2. /\ starter'.count = [s \in Side |-> [t \in CbitType |-> 0]]
      /\ starter'.sw = [s \in Side |-> NoSwitch] /\ starter'.es = [s \in Side |-> None]
      /\ starter'.bm = [s \in Side |-> None] /\ starter'.phase = "off"
  BY DEF Result, Fresh
<1>3. \A s \in Side :
          /\ starter'.sw[s] = NoSwitch /\ starter'.es[s] = None /\ starter'.bm[s] = None
          /\ \A t \in CbitType : starter'.count[s][t] = 0
  BY <1>2
<1>4. \A s \in Side : ToldTruly(starter', s)
  BY <1>3, NothingIsTrue
<1>5. \A s \in Side : ToldTruly(starter, s)'
  BY <1>4 DEF ToldTruly, Heard, Kept
<1>6. PhaseIsDue(starter)'
  BY <1>2 DEF PhaseIsDue
<1>7. (truth \in [Side -> Unit])'
  BY DEF StarterInv, Unit
<1> QED
  BY <1>1, <1>5, <1>6, <1>7 DEF StarterInv

\* What stands in the field is its value, of whatever type.
LEMMA LinkedIs ==
    ASSUME NEW a, NEW b
    PROVE  [fw |-> a, linked |-> b].linked = b
OBVIOUS

\* A verdict comes after enough reports of every type of both sides.
LEMMA VerdictIsDeserved ==
    ASSUME StarterInv, starter.phase = "pbit", NEW p \in SUBSET Side,
           Verdict([starter EXCEPT !.pbit = p]), truth' = truth, mute' = mute
    PROVE  StarterInv'
<1> DEFINE st == [starter EXCEPT !.pbit = p]
<1>1. st.sw = starter.sw /\ st.es = starter.es /\ st.bm = starter.bm
  BY DEF StarterInv, StarterState
<1>2. \A s \in Side : truth[s].sw \in Firmware /\ truth[s].es \in Firmware /\ truth[s] \in Unit
  BY DEF StarterInv, Unit
<1>3. None \notin Firmware /\ Required \in Nat \ {0}
  BY StarterAssumption
<1>4. ASSUME NEW s \in Side, NEW t \in CbitType PROVE starter.count[s][t] > 0
  <2>1. starter.count[s][t] \in Nat /\ starter.count[s][t] >= Required
    BY DEF StarterInv, AllMet, StarterState, PhaseIsDue
  <2> QED
    BY <1>3, <2>1
<1>5. ASSUME NEW s \in Side
      PROVE  /\ starter.sw[s] = [fw |-> truth[s].sw, linked |-> truth[s].linked]
             /\ starter.sw[s] # NoSwitch
             /\ starter.es[s] \in {None, truth[s].es} /\ truth[s].es # None
             /\ <<s, "DTN_ES">> \notin mute => starter.es[s] = truth[s].es
             /\ starter.bm[s] = "fault" => truth[s].fault
             /\ <<s, "BM_FLAG">> \notin mute =>
                   (starter.bm[s] = "fault" <=> truth[s].fault)
  <2>1. /\ starter.count[s]["DTN_SW"] > 0 /\ starter.count[s]["DTN_ES"] > 0
        /\ starter.count[s]["BM_FLAG"] > 0
    BY <1>4 DEF CbitType
  <2>2. starter.sw[s] = [fw |-> truth[s].sw, linked |-> truth[s].linked]
    BY <2>1 DEF StarterInv, ToldTruly, Heard
  <2>3. starter.sw[s] # NoSwitch
    <3>1. starter.sw[s].fw = truth[s].sw /\ NoSwitch.fw = None
      BY <2>2 DEF NoSwitch
    <3> QED
      BY <1>2, <1>3, <3>1
  <2>4. /\ starter.es[s] \in {None, truth[s].es} /\ truth[s].es # None
        /\ <<s, "DTN_ES">> \notin mute => starter.es[s] = truth[s].es
    BY <1>2, <1>3, <2>1 DEF StarterInv, ToldTruly, Heard, Kept
  <2>5. Heard(s, "BM_FLAG") = IF truth[s].fault THEN "fault" ELSE "clean"
    BY DEF Heard
  <2>6. /\ starter.bm[s] \in {None, Heard(s, "BM_FLAG")}
        /\ <<s, "BM_FLAG">> \notin mute => starter.bm[s] = Heard(s, "BM_FLAG")
    BY <2>1 DEF StarterInv, ToldTruly, Kept
  <2> QED
    BY <2>2, <2>3, <2>4, <2>5, <2>6 DEF None
<1>6. SwitchesAgree(st) <=> truth["FLCS"].sw = truth["VS"].sw
  BY <1>1, <1>5 DEF SwitchesAgree, Side
<1>7. PortsLinked(st) <=> \A s \in Side : truth[s].linked
  <2>1. ASSUME NEW s \in Side PROVE starter.sw[s].linked = truth[s].linked
    <3>1. starter.sw[s] = [fw |-> truth[s].sw, linked |-> truth[s].linked]
      BY <1>5
    <3> QED
      BY <3>1, LinkedIs
  <2> QED
    BY <1>1, <2>1, Zenon DEF PortsLinked
<1>8. EndSystemsAgree(st) => truth["FLCS"].es = truth["VS"].es
  BY <1>1, <1>5 DEF EndSystemsAgree, Side
<1>9. (\A s \in Side : <<s, "DTN_ES">> \notin mute) =>
          (EndSystemsAgree(st) <=> truth["FLCS"].es = truth["VS"].es)
  BY <1>1, <1>5 DEF EndSystemsAgree, Side
<1>10. ChecksPass(st) => Sound
  BY <1>6, <1>7, <1>8 DEF ChecksPass, Sound
<1>11. ~ChecksPass(st) => ~Sound \/ \E s \in Side : <<s, "DTN_ES">> \in mute
  BY <1>6, <1>7, <1>9 DEF ChecksPass, Sound
<1>12. /\ BmFaults(st) \subseteq Faulty
       /\ \A s \in Faulty : <<s, "BM_FLAG">> \notin mute => s \in BmFaults(st)
  <2>1. ASSUME NEW s \in Side
        PROVE  /\ s \in BmFaults(st) => s \in Faulty
               /\ s \in Faulty /\ <<s, "BM_FLAG">> \notin mute => s \in BmFaults(st)
    BY <1>1, <1>5 DEF BmFaults, Faulty
  <2> QED
    BY <2>1 DEF BmFaults, Faulty
<1>13. Sound' = Sound /\ Faulty' = Faulty
  BY DEF Sound, Faulty
<1>14. CASE ~ChecksPass(st) /\ Result("TIMEOUT")
  <2>1. starter'.result = "TIMEOUT"
    BY <1>14 DEF Result, Fresh
  <2>2. VerdictIsRight'
    BY <1>11, <1>13, <1>14, <2>1 DEF VerdictIsRight, Accepted
  <2> QED
    BY <1>14, <2>2, EndKeeps DEF Verdict
<1>15. CASE ChecksPass(st) /\ Result(IF BmFaults(st) = {} THEN "OK" ELSE "BM_FLAG_FAULT")
  <2>1. starter'.result = IF BmFaults(st) = {} THEN "OK" ELSE "BM_FLAG_FAULT"
    BY <1>15 DEF Result, Fresh
  <2>2. VerdictIsRight'
    BY <1>10, <1>12, <1>13, <1>15, <2>1 DEF VerdictIsRight, Accepted
  <2> QED
    BY <1>15, <2>2, EndKeeps DEF Verdict
<1> QED
  BY <1>14, <1>15 DEF Verdict

\* The last response brings the verdict, an earlier one is put down.
LEMMA PbitKeeps ==
    ASSUME StarterInv, NEW s \in Side, ReceivePbit(s)
    PROVE  StarterInv'
<1> DEFINE p == starter.pbit \cup {s}
<1> DEFINE got == [starter EXCEPT !.pbit = p]
<1>1. p \in SUBSET Side /\ got.pbit = p
  BY DEF StarterInv, StarterState
<1>2. truth' = truth /\ mute' = mute /\ starter.phase = "pbit"
  BY DEF ReceivePbit
<1>3. CASE got.pbit = Side
  <2>1. Verdict(got)
    BY <1>3 DEF ReceivePbit
  <2> HIDE DEF p
  <2> QED
    BY <1>1, <1>2, <2>1, VerdictIsDeserved
<1>4. CASE got.pbit # Side
  <2>1. starter' = got /\ judged' = judged
    BY <1>4 DEF ReceivePbit
  <2> HIDE DEF p
  <2>2. /\ starter' \in StarterState
        /\ starter'.sw = starter.sw /\ starter'.es = starter.es /\ starter'.bm = starter.bm
        /\ starter'.count = starter.count /\ starter'.phase = starter.phase
        /\ starter'.result = starter.result
    BY <1>1, <2>1 DEF StarterInv, StarterState
  <2>3. ASSUME NEW u \in Side PROVE ToldTruly(starter, u)'
    <3>1. (\A x : Heard(u, x)' = Heard(u, x)) /\ (\A x : Kept(u, x)' <=> Kept(u, x))
      BY <1>2 DEF Heard, Kept
    <3>2. ToldTruly(starter, u)
      BY DEF StarterInv
    <3> QED
      BY <2>2, <3>1, <3>2 DEF ToldTruly
  <2>4. PhaseIsDue(starter)'
    BY <2>1, <2>2 DEF StarterInv, PhaseIsDue, AllMet
  <2>5. VerdictIsRight'
    BY <1>2, <2>1, <2>2 DEF StarterInv, VerdictIsRight, Sound, Faulty
  <2> QED
    BY <1>2, <2>1, <2>2, <2>3, <2>4, <2>5 DEF StarterInv, Unit
<1> QED
  BY <1>3, <1>4

\* A report is put down truly, and one too short to keep is remembered as such.
LEMMA KeepIsTrue ==
    ASSUME StarterInv, NEW s \in Side, NEW t \in CbitType,
           NEW form \in {"full", "short", "empty"}, Counts(t, form)
    PROVE  LET kept == Keep(s, t, form)
           IN /\ kept \in StarterState /\ kept.phase = starter.phase
              /\ kept.result = starter.result
              /\ \A u \in Side :
                    /\ kept.sw[u] = IF u = s /\ t = "DTN_SW" THEN Heard(u, "DTN_SW")
                                    ELSE starter.sw[u]
                    /\ kept.es[u] = IF u = s /\ t = "DTN_ES" /\ form = "full"
                                    THEN Heard(u, "DTN_ES") ELSE starter.es[u]
                    /\ kept.bm[u] = IF u = s /\ t = "BM_FLAG" /\ form = "full"
                                    THEN Heard(u, "BM_FLAG") ELSE starter.bm[u]
                    /\ \A x \in CbitType :
                          u # s \/ x # t => kept.count[u][x] = starter.count[u][x]
<1> DEFINE n == IF starter.count[s][t] < Required THEN starter.count[s][t] + 1
                ELSE starter.count[s][t]
<1> DEFINE counted == [starter EXCEPT !.count[s][t] = n]
<1>1. n \in Nat
  BY DEF StarterInv, StarterState
<1>2. /\ Heard(s, "DTN_SW") \in [fw : Firmware \cup {None}, linked : BOOLEAN]
      /\ Heard(s, "DTN_ES") \in Firmware \cup {None}
      /\ Heard(s, "BM_FLAG") \in {None, "fault", "clean"}
  BY DEF StarterInv, Heard, Unit
<1>3. Keep(s, t, form) =
        IF form # "full" THEN counted
        ELSE CASE t = "DTN_SW" -> [counted EXCEPT !.sw[s] = Heard(s, t)]
               [] t = "DTN_ES" -> [counted EXCEPT !.es[s] = Heard(s, t)]
               [] t = "BM_FLAG" -> [counted EXCEPT !.bm[s] = Heard(s, t)]
               [] OTHER -> counted
  BY DEF Keep
<1> HIDE DEF n
<1>4. counted \in StarterState
  BY <1>1 DEF StarterInv, StarterState
<1>5. /\ counted.phase = starter.phase /\ counted.result = starter.result
      /\ counted.sw = starter.sw /\ counted.es = starter.es /\ counted.bm = starter.bm
      /\ \A u \in Side : \A x \in CbitType :
            u # s \/ x # t => counted.count[u][x] = starter.count[u][x]
  BY DEF StarterInv, StarterState
<1> HIDE DEF counted
<1>6. CASE form # "full"
  <2>1. t # "DTN_SW"
    BY <1>6 DEF Counts
  <2>2. Keep(s, t, form) = counted
    BY <1>3, <1>6
  <2>3. \A u \in Side :
          /\ counted.sw[u] = IF u = s /\ t = "DTN_SW" THEN Heard(u, "DTN_SW")
                             ELSE starter.sw[u]
          /\ counted.es[u] = IF u = s /\ t = "DTN_ES" /\ form = "full"
                             THEN Heard(u, "DTN_ES") ELSE starter.es[u]
          /\ counted.bm[u] = IF u = s /\ t = "BM_FLAG" /\ form = "full"
                             THEN Heard(u, "BM_FLAG") ELSE starter.bm[u]
    BY <1>5, <1>6, <2>1
  <2> QED
    BY <1>4, <1>5, <2>2, <2>3
<1>7. CASE form = "full" /\ t = "DTN_SW"
  <2> DEFINE kept == [counted EXCEPT !.sw[s] = Heard(s, "DTN_SW")]
  <2>1. Keep(s, t, form) = kept
    BY <1>3, <1>7
  <2>2. kept \in StarterState
    BY <1>2, <1>4 DEF StarterState
  <2>3. /\ kept.phase = starter.phase /\ kept.result = starter.result
        /\ kept.count = counted.count
        /\ kept.sw = [starter.sw EXCEPT ![s] = Heard(s, "DTN_SW")]
        /\ kept.es = starter.es
        /\ kept.bm = starter.bm
    BY <1>4, <1>5 DEF StarterState
  <2> HIDE DEF kept
  <2>4. \A u \in Side :
          /\ kept.sw[u] = IF u = s /\ t = "DTN_SW" THEN Heard(u, "DTN_SW")
                          ELSE starter.sw[u]
          /\ kept.es[u] = IF u = s /\ t = "DTN_ES" /\ form = "full"
                          THEN Heard(u, "DTN_ES") ELSE starter.es[u]
          /\ kept.bm[u] = IF u = s /\ t = "BM_FLAG" /\ form = "full"
                          THEN Heard(u, "BM_FLAG") ELSE starter.bm[u]
    BY <1>7, <2>3 DEF StarterInv, StarterState
  <2> QED
    BY <1>5, <2>1, <2>2, <2>3, <2>4
<1>8. CASE form = "full" /\ t = "DTN_ES"
  <2> DEFINE kept == [counted EXCEPT !.es[s] = Heard(s, "DTN_ES")]
  <2>1. Keep(s, t, form) = kept
    BY <1>3, <1>8
  <2>2. kept \in StarterState
    BY <1>2, <1>4 DEF StarterState
  <2>3. /\ kept.phase = starter.phase /\ kept.result = starter.result
        /\ kept.count = counted.count
        /\ kept.sw = starter.sw
        /\ kept.es = [starter.es EXCEPT ![s] = Heard(s, "DTN_ES")]
        /\ kept.bm = starter.bm
    BY <1>4, <1>5 DEF StarterState
  <2> HIDE DEF kept
  <2>4. \A u \in Side :
          /\ kept.sw[u] = IF u = s /\ t = "DTN_SW" THEN Heard(u, "DTN_SW")
                          ELSE starter.sw[u]
          /\ kept.es[u] = IF u = s /\ t = "DTN_ES" /\ form = "full"
                          THEN Heard(u, "DTN_ES") ELSE starter.es[u]
          /\ kept.bm[u] = IF u = s /\ t = "BM_FLAG" /\ form = "full"
                          THEN Heard(u, "BM_FLAG") ELSE starter.bm[u]
    BY <1>8, <2>3 DEF StarterInv, StarterState
  <2> QED
    BY <1>5, <2>1, <2>2, <2>3, <2>4
<1>9. CASE form = "full" /\ t = "BM_FLAG"
  <2> DEFINE kept == [counted EXCEPT !.bm[s] = Heard(s, "BM_FLAG")]
  <2>1. Keep(s, t, form) = kept
    BY <1>3, <1>9
  <2>2. kept \in StarterState
    BY <1>2, <1>4 DEF StarterState
  <2>3. /\ kept.phase = starter.phase /\ kept.result = starter.result
        /\ kept.count = counted.count
        /\ kept.sw = starter.sw
        /\ kept.es = starter.es
        /\ kept.bm = [starter.bm EXCEPT ![s] = Heard(s, "BM_FLAG")]
    BY <1>4, <1>5 DEF StarterState
  <2> HIDE DEF kept
  <2>4. \A u \in Side :
          /\ kept.sw[u] = IF u = s /\ t = "DTN_SW" THEN Heard(u, "DTN_SW")
                          ELSE starter.sw[u]
          /\ kept.es[u] = IF u = s /\ t = "DTN_ES" /\ form = "full"
                          THEN Heard(u, "DTN_ES") ELSE starter.es[u]
          /\ kept.bm[u] = IF u = s /\ t = "BM_FLAG" /\ form = "full"
                          THEN Heard(u, "BM_FLAG") ELSE starter.bm[u]
    BY <1>9, <2>3 DEF StarterInv, StarterState
  <2> QED
    BY <1>5, <2>1, <2>2, <2>3, <2>4
<1>10. CASE form = "full" /\ t \notin {"DTN_SW", "DTN_ES", "BM_FLAG"}
  <2>1. Keep(s, t, form) = counted
    BY <1>3, <1>10
  <2> QED
    BY <1>4, <1>5, <1>10, <2>1
<1> QED
  BY <1>6, <1>7, <1>8, <1>9, <1>10

\* A CBIT packet that is heard keeps the invariant of the starter.
LEMMA CbitKeeps ==
    ASSUME StarterInv, NEW s \in Side, NEW t \in CbitType,
           NEW form \in {"full", "short", "empty"}, ReceiveCbit(s, t, form)
    PROVE  StarterInv'
<1> DEFINE kept == Keep(s, t, form)
<1>1. /\ kept \in StarterState /\ kept.phase = "cbit" /\ kept.result = starter.result
      /\ \A u \in Side :
            /\ kept.sw[u] = IF u = s /\ t = "DTN_SW" THEN Heard(u, "DTN_SW")
                            ELSE starter.sw[u]
            /\ kept.es[u] = IF u = s /\ t = "DTN_ES" /\ form = "full"
                            THEN Heard(u, "DTN_ES") ELSE starter.es[u]
            /\ kept.bm[u] = IF u = s /\ t = "BM_FLAG" /\ form = "full"
                            THEN Heard(u, "BM_FLAG") ELSE starter.bm[u]
            /\ \A x \in CbitType :
                  u # s \/ x # t => kept.count[u][x] = starter.count[u][x]
  BY KeepIsTrue DEF ReceiveCbit
<1>2. /\ starter' = [kept EXCEPT !.phase = IF AllMet(kept) THEN "pbit" ELSE @]
      /\ truth' = truth /\ judged' = judged /\ Counts(t, form) /\ starter.phase = "cbit"
      /\ mute' = IF form = "full" THEN mute ELSE mute \cup {<<s, t>>}
  BY DEF ReceiveCbit
<1> HIDE DEF kept
<1>3. /\ starter' \in StarterState
      /\ starter'.phase = IF AllMet(kept) THEN "pbit" ELSE "cbit"
      /\ starter'.sw = kept.sw /\ starter'.es = kept.es /\ starter'.bm = kept.bm
      /\ starter'.count = kept.count
  BY <1>1, <1>2 DEF StarterState
<1>4. judged = FALSE
  BY <1>2 DEF StarterInv, PhaseIsDue
<1>5. ASSUME NEW u \in Side PROVE ToldTruly(starter, u)'
  <2>1. ToldTruly(starter, u) /\ (\A x \in CbitType : Heard(u, x)' = Heard(u, x))
    BY <1>2 DEF StarterInv, Heard
  <2>2. \A x \in CbitType : Kept(u, x)' => Kept(u, x)
    BY <1>2 DEF Kept
  <2>3. Kept(s, t)' => form = "full" \/ t \notin {"DTN_ES", "BM_FLAG"}
    BY <1>2 DEF Kept
  <2>4. "DTN_SW" \in CbitType /\ "DTN_ES" \in CbitType /\ "BM_FLAG" \in CbitType
    BY DEF CbitType
  <2>5. starter'.sw[u] \in {NoSwitch, Heard(u, "DTN_SW")}
    BY <1>1, <1>3, <2>1 DEF ToldTruly
  <2>6. starter'.es[u] \in {None, Heard(u, "DTN_ES")}
    BY <1>1, <1>3, <2>1 DEF ToldTruly
  <2>7. starter'.bm[u] \in {None, Heard(u, "BM_FLAG")}
    BY <1>1, <1>3, <2>1 DEF ToldTruly
  <2>8. starter'.count[u]["DTN_SW"] > 0 => starter'.sw[u] = Heard(u, "DTN_SW")
    BY <1>1, <1>3, <2>1, <2>4 DEF ToldTruly
  <2>9. starter'.count[u]["DTN_ES"] > 0 /\ Kept(u, "DTN_ES")' =>
            starter'.es[u] = Heard(u, "DTN_ES")
    BY <1>1, <1>3, <2>1, <2>2, <2>3, <2>4 DEF ToldTruly
  <2>10. starter'.count[u]["BM_FLAG"] > 0 /\ Kept(u, "BM_FLAG")' =>
            starter'.bm[u] = Heard(u, "BM_FLAG")
    BY <1>1, <1>3, <2>1, <2>2, <2>3, <2>4 DEF ToldTruly
  <2>11. /\ Heard(u, "DTN_SW")' = Heard(u, "DTN_SW")
         /\ Heard(u, "DTN_ES")' = Heard(u, "DTN_ES")
         /\ Heard(u, "BM_FLAG")' = Heard(u, "BM_FLAG")
    BY <2>1, <2>4
  <2> QED
    BY <2>5, <2>6, <2>7, <2>8, <2>9, <2>10, <2>11, Zenon DEF ToldTruly
<1>6. PhaseIsDue(starter)'
  BY <1>2, <1>3, <1>4 DEF PhaseIsDue, AllMet
<1>7. VerdictIsRight'
  BY <1>2, <1>4 DEF VerdictIsRight
<1> QED
  BY <1>2, <1>3, <1>4, <1>5, <1>6, <1>7 DEF StarterInv, Unit

\* Every step keeps the invariant of the starter.
LEMMA StarterInvStep == StarterInv /\ [StarterNext]_starterVars => StarterInv'
<1> SUFFICES ASSUME StarterInv, [StarterNext]_starterVars PROVE StarterInv'
  OBVIOUS
<1>1. CASE TriggerCmc \/ GiveUp
  <2>1. /\ truth' = truth /\ mute' = mute /\ judged' = judged /\ starter.phase # "off"
        /\ \E r \in {"OK", "TIMEOUT", "ERROR"} : Result(r)
    BY <1>1 DEF TriggerCmc, GiveUp
  <2>2. judged = FALSE
    BY <2>1 DEF StarterInv, PhaseIsDue
  <2>3. VerdictIsRight'
    BY <2>1, <2>2 DEF VerdictIsRight
  <2> QED
    BY <2>1, <2>2, <2>3, EndKeeps
<1>2. CASE UNCHANGED <<starter, truth, mute, judged>>
  <2>1. (\A s \in Side : ToldTruly(starter, s))' /\ PhaseIsDue(starter)'
    BY <1>2 DEF StarterInv, ToldTruly, Heard, Kept, PhaseIsDue, AllMet
  <2>2. VerdictIsRight'
    BY <1>2 DEF StarterInv, VerdictIsRight, Sound, Faulty
  <2> QED
    BY <1>2, <2>1, <2>2 DEF StarterInv, StarterState, Unit
<1>3. SendRequests => UNCHANGED <<starter, truth, mute, judged>>
  BY DEF SendRequests
<1>4. \A s \in Side : Answer(s) => UNCHANGED <<starter, truth, mute, judged>>
  BY DEF Answer
<1>5. UNCHANGED starterVars => UNCHANGED <<starter, truth, mute, judged>>
  BY DEF starterVars
<1> QED
  BY <1>1, <1>2, <1>3, <1>4, <1>5, PbitKeeps, CbitKeeps DEF StarterNext

\* For any versions, any number of reports wanted and any number of them too short, in
\* whatever order they come.
THEOREM VerdictHolds == Spec => []VerdictIsRight
<1>1. Init => StarterInv
  BY StarterInvInit DEF Init
<1>2. StarterInv /\ [Next]_vars => StarterInv'
  <2>1. [Next]_vars => [StarterNext]_starterVars
    BY DEF Next, vars
  <2> QED
    BY <2>1, StarterInvStep
<1>3. StarterInv => VerdictIsRight
  BY DEF StarterInv
<1> QED
  BY <1>1, <1>2, <1>3, PTL DEF Spec

-----------------------------------------------------------------------------
(* The dashboard of CMC: the reports of the ring, added up.                *)

Counts2 == [tx : Nat, rx : Nat]
Accum == [Dpm -> [tx : Nat, rx : Nat, valid : BOOLEAN]]
Item == [kind : {"dpm"}, of : Dpm, data : Counts2] \cup [kind : {"other"}, of : {0}, data : {Zero}]
        \cup [kind : {"sw"}, of : {0}, data : [{1, 2} -> Nat]]

\* One item, and all of them: dpm_vl_accumulate.
AddReport(i, acc) ==
    IF i.kind # "dpm" THEN acc
    ELSE [acc EXCEPT ![i.of].tx = @ + i.data.tx,
                     ![i.of].rx = @ + i.data.rx, ![i.of].valid = TRUE]
AddedUp(base, items) == FoldSeq(AddReport, base, items)

\* The fold of the model, by its name here.
LEMMA AccumulateIs == ASSUME NEW items PROVE Accumulate(items) = AddedUp(accum, items)
BY DEF Accumulate, AddedUp, FoldSeq, FoldFunction, FoldFunctionOnSet, MapThenFoldSet, AddReport

\* What a report adds, and that the order of two reports does not matter.
LEMMA AddReportIs ==
    ASSUME NEW i \in Item, NEW acc \in Accum
    PROVE  /\ AddReport(i, acc) \in Accum
           /\ i.kind # "dpm" => AddReport(i, acc) = acc
           /\ i.kind = "dpm" =>
                /\ i.of \in Dpm /\ i.data.tx \in Nat /\ i.data.rx \in Nat
                /\ AddReport(i, acc)[i.of] = [tx |-> acc[i.of].tx + i.data.tx,
                                              rx |-> acc[i.of].rx + i.data.rx, valid |-> TRUE]
                /\ \A d \in Dpm : d # i.of => AddReport(i, acc)[d] = acc[d]
<1>1. i.kind # "dpm" => AddReport(i, acc) = acc
  BY DEF AddReport
<1>2. ASSUME i.kind = "dpm"
      PROVE  /\ i.of \in Dpm /\ i.data.tx \in Nat /\ i.data.rx \in Nat
             /\ AddReport(i, acc) \in Accum
             /\ AddReport(i, acc)[i.of] = [tx |-> acc[i.of].tx + i.data.tx,
                                           rx |-> acc[i.of].rx + i.data.rx, valid |-> TRUE]
             /\ \A d \in Dpm : d # i.of => AddReport(i, acc)[d] = acc[d]
  <2>1. i.of \in Dpm /\ i.data \in Counts2
    BY <1>2 DEF Item
  <2>2. PICK o \in Dpm, a \in Nat, b \in Nat : o = i.of /\ a = i.data.tx /\ b = i.data.rx
    BY <2>1 DEF Counts2
  <2>3. AddReport(i, acc) = [acc EXCEPT ![o].tx = @ + a, ![o].rx = @ + b, ![o].valid = TRUE]
    BY <1>2, <2>2 DEF AddReport
  <2>4. acc[o] \in [tx : Nat, rx : Nat, valid : BOOLEAN] /\ DOMAIN acc = Dpm
    BY DEF Accum
  <2>5. /\ AddReport(i, acc)[o] = [tx |-> acc[o].tx + a, rx |-> acc[o].rx + b, valid |-> TRUE]
        /\ \A d \in Dpm : d # o => AddReport(i, acc)[d] = acc[d]
        /\ AddReport(i, acc) = [d \in Dpm |-> AddReport(i, acc)[d]]
    BY <2>3, <2>4
  <2>6. acc[o].tx + a \in Nat /\ acc[o].rx + b \in Nat
    BY <2>4
  <2>7. AddReport(i, acc) \in Accum
    <3>1. PICK f : f = AddReport(i, acc)
      OBVIOUS
    <3>2. \A d \in Dpm : f[d] \in [tx : Nat, rx : Nat, valid : BOOLEAN]
      <4> SUFFICES ASSUME NEW d \in Dpm PROVE f[d] \in [tx : Nat, rx : Nat, valid : BOOLEAN]
        OBVIOUS
      <4>1. CASE d = o
        <5>1. PICK x \in Nat, y \in Nat : f[o] = [tx |-> x, rx |-> y, valid |-> TRUE]
          BY <2>5, <2>6, <3>1
        <5> QED
          BY <4>1, <5>1
      <4>2. CASE d # o
        BY <2>5, <3>1, <4>2 DEF Accum
      <4> QED
        BY <4>1, <4>2
    <3>3. f = [d \in Dpm |-> f[d]]
      BY <2>5, <3>1
    <3> QED
      BY <3>1, <3>2, <3>3 DEF Accum
  <2> QED
    BY <2>2, <2>5, <2>7
<1> QED
  BY <1>1, <1>2

\* Whichever of two items is added first, the sums are the same.
LEMMA ReportsCommute ==
    ASSUME NEW i \in Item, NEW j \in Item, NEW acc \in Accum
    PROVE  AddReport(i, AddReport(j, acc)) = AddReport(j, AddReport(i, acc))
<1>1. CASE i.kind # "dpm" \/ j.kind # "dpm"
  BY <1>1, AddReportIs
<1>2. CASE i.kind = "dpm" /\ j.kind = "dpm"
  <2> DEFINE a == AddReport(i, acc)
             b == AddReport(j, acc)
             ij == AddReport(i, b)
             ji == AddReport(j, a)
  <2>1. a \in Accum /\ b \in Accum /\ ij \in Accum /\ ji \in Accum
    BY AddReportIs
  <2>2. /\ i.of \in Dpm /\ i.data.tx \in Nat /\ i.data.rx \in Nat
        /\ j.of \in Dpm /\ j.data.tx \in Nat /\ j.data.rx \in Nat
    BY <1>2, AddReportIs
  <2>3. /\ a[i.of] = [tx |-> acc[i.of].tx + i.data.tx, rx |-> acc[i.of].rx + i.data.rx, valid |-> TRUE]
        /\ \A d \in Dpm : d # i.of => a[d] = acc[d]
        /\ b[j.of] = [tx |-> acc[j.of].tx + j.data.tx, rx |-> acc[j.of].rx + j.data.rx, valid |-> TRUE]
        /\ \A d \in Dpm : d # j.of => b[d] = acc[d]
    BY <1>2, AddReportIs
  <2>4. /\ ij[i.of] = [tx |-> b[i.of].tx + i.data.tx, rx |-> b[i.of].rx + i.data.rx, valid |-> TRUE]
        /\ \A d \in Dpm : d # i.of => ij[d] = b[d]
        /\ ji[j.of] = [tx |-> a[j.of].tx + j.data.tx, rx |-> a[j.of].rx + j.data.rx, valid |-> TRUE]
        /\ \A d \in Dpm : d # j.of => ji[d] = a[d]
    BY <1>2, <2>1, AddReportIs
  <2> HIDE DEF a, b, ij, ji
  <2>5. \A d \in Dpm : ij[d] = ji[d]
    <3> SUFFICES ASSUME NEW d \in Dpm PROVE ij[d] = ji[d]
      OBVIOUS
    <3>1. CASE d # i.of
      <4>1. ij[d] = b[d] /\ a[d] = acc[d]
        BY <2>3, <2>4, <3>1
      <4>2. CASE d = j.of
        <5>1. /\ b[d] = [tx |-> acc[d].tx + j.data.tx, rx |-> acc[d].rx + j.data.rx, valid |-> TRUE]
              /\ ji[d] = [tx |-> a[d].tx + j.data.tx, rx |-> a[d].rx + j.data.rx, valid |-> TRUE]
          BY <2>3, <2>4, <4>2
        <5> QED
          BY <4>1, <5>1
      <4>3. CASE d # j.of
        BY <2>3, <2>4, <4>1, <4>3
      <4> QED
        BY <4>2, <4>3
    <3>2. CASE d = i.of /\ d # j.of
      <4>1. ji[d] = a[d] /\ b[d] = acc[d]
        BY <2>3, <2>4, <3>2
      <4>2. /\ a[d] = [tx |-> acc[d].tx + i.data.tx, rx |-> acc[d].rx + i.data.rx, valid |-> TRUE]
            /\ ij[d] = [tx |-> b[d].tx + i.data.tx, rx |-> b[d].rx + i.data.rx, valid |-> TRUE]
        BY <2>3, <2>4, <3>2
      <4> QED
        BY <4>1, <4>2
    <3>3. CASE d = i.of /\ d = j.of
      <4>1. acc[d].tx \in Nat /\ acc[d].rx \in Nat
        BY DEF Accum
      <4>2. /\ ij[d] = [tx |-> (acc[d].tx + j.data.tx) + i.data.tx,
                        rx |-> (acc[d].rx + j.data.rx) + i.data.rx, valid |-> TRUE]
            /\ ji[d] = [tx |-> (acc[d].tx + i.data.tx) + j.data.tx,
                        rx |-> (acc[d].rx + i.data.rx) + j.data.rx, valid |-> TRUE]
        <5>1. b[i.of] = b[d] /\ a[j.of] = a[d] /\ b[d] = b[j.of] /\ a[d] = a[i.of]
          BY <3>3
        <5>2. /\ b[d].tx = acc[d].tx + j.data.tx /\ b[d].rx = acc[d].rx + j.data.rx
              /\ a[d].tx = acc[d].tx + i.data.tx /\ a[d].rx = acc[d].rx + i.data.rx
          BY <2>3, <3>3
        <5>3. /\ ij[d] = [tx |-> b[d].tx + i.data.tx, rx |-> b[d].rx + i.data.rx, valid |-> TRUE]
              /\ ji[d] = [tx |-> a[d].tx + j.data.tx, rx |-> a[d].rx + j.data.rx, valid |-> TRUE]
          BY <2>4, <3>3, <5>1
        <5> QED
          BY <5>2, <5>3
      <4>3. /\ (acc[d].tx + j.data.tx) + i.data.tx = (acc[d].tx + i.data.tx) + j.data.tx
            /\ (acc[d].rx + j.data.rx) + i.data.rx = (acc[d].rx + i.data.rx) + j.data.rx
        BY <2>2, <4>1
      <4> QED
        BY <4>2, <4>3
    <3> QED
      BY <3>1, <3>2, <3>3
  <2>6. ij = ji
    BY <2>1, <2>5 DEF Accum
  <2> QED
    BY <2>6 DEF ij, ji, a, b
<1> QED
  BY <1>1, <1>2

\* The places of n items.
LEMMA SetsOfPlaces ==
    ASSUME NEW n \in Nat
    PROVE  /\ \A s \in SUBSET (1..n) : IsFiniteSet(s) /\ Cardinality(s) \in Nat /\ Cardinality(s) <= n
           /\ \A s \in SUBSET (1..n) : \A x \in s :
                s \ {x} \in SUBSET (1..n) /\ Cardinality(s \ {x}) = Cardinality(s) - 1
<1>1. IsFiniteSet(1..n) /\ Cardinality(1..n) = n
  BY FS_Interval
<1>2. ASSUME NEW s \in SUBSET (1..n)
      PROVE  IsFiniteSet(s) /\ Cardinality(s) \in Nat /\ Cardinality(s) <= n
  BY <1>1, FS_Subset, FS_CardinalityType
<1>3. ASSUME NEW s \in SUBSET (1..n), NEW x \in s PROVE Cardinality(s \ {x}) = Cardinality(s) - 1
  BY <1>2, FS_RemoveElement
<1> QED
  BY <1>1, <1>2, <1>3

\* A family of sets of places has a smallest member.
LEMMA SmallestPlaces ==
    ASSUME NEW n \in Nat, NEW C \in SUBSET (SUBSET (1..n)), C # {}
    PROVE  \E s \in C : \A t \in C : Cardinality(s) <= Cardinality(t)
<1> DEFINE N == {Cardinality(s) : s \in C}
<1>1. N \in SUBSET Nat /\ N # {}
  BY SetsOfPlaces
<1>2. PICK m \in N : \A k \in N : m <= k
  BY <1>1, LeastNatural
<1> QED
  BY <1>2

\* The items of some places, added one after the other.
AnyOf(s) == CHOOSE x \in s : TRUE
AddsOn(base, q, g, s) == IF s = {} THEN base ELSE AddReport(q[AnyOf(s)], g[s \ {AnyOf(s)}])
PartAdded(base, q) == CHOOSE g : g = [s \in SUBSET DOMAIN q |-> AddsOn(base, q, g, s)]

\* The fold is defined by sets of places: the value at the set of all of them.
LEMMA AddedUpIs == ASSUME NEW base, NEW q PROVE AddedUp(base, q) = PartAdded(base, q)[DOMAIN q]
BY DEF AddedUp, FoldSeq, FoldFunction, FoldFunctionOnSet, MapThenFoldSet, PartAdded, AddsOn, AnyOf

\* The chosen place is one of them.
LEMMA AnyOfIs == ASSUME NEW s, s # {} PROVE AnyOf(s) \in s
BY DEF AnyOf

\* There is such a function: for sets of one place, of two, and so on.
Below(n, k) == {s \in SUBSET (1..n) : Cardinality(s) <= k}
AddedBelow(base, q, n, g, k) ==
    g \in [Below(n, k) -> Accum] /\ \A s \in Below(n, k) : g[s] = AddsOn(base, q, g, s)

\* From the sets of at most k places to those of at most k + 1.
LEMMA AddedGrow ==
    ASSUME NEW base \in Accum, NEW n \in Nat, NEW q \in [1..n -> Item], NEW k \in Nat, NEW g,
           AddedBelow(base, q, n, g, k)
    PROVE  \E h : AddedBelow(base, q, n, h, k + 1)
<1> DEFINE h == [s \in Below(n, k + 1) |-> AddsOn(base, q, g, s)]
<1>1. ASSUME NEW s \in Below(n, k + 1), s # {}
      PROVE  /\ AnyOf(s) \in 1..n /\ q[AnyOf(s)] \in Item
             /\ s \ {AnyOf(s)} \in Below(n, k) /\ s \ {AnyOf(s)} \in Below(n, k + 1)
  <2>1. AnyOf(s) \in s /\ s \in SUBSET (1..n) /\ Cardinality(s) \in Nat /\ Cardinality(s) <= k + 1
    BY <1>1, AnyOfIs, SetsOfPlaces DEF Below
  <2>2. s \ {AnyOf(s)} \in SUBSET (1..n) /\ Cardinality(s \ {AnyOf(s)}) = Cardinality(s) - 1
    BY <2>1, SetsOfPlaces
  <2>3. Cardinality(s \ {AnyOf(s)}) <= k /\ Cardinality(s \ {AnyOf(s)}) <= k + 1
    BY <2>1, <2>2
  <2> QED
    BY <2>1, <2>2, <2>3 DEF Below
<1>2. \A s \in Below(n, k) : s \in Below(n, k + 1) /\ h[s] = g[s]
  <2>1. ASSUME NEW s \in Below(n, k) PROVE s \in Below(n, k + 1)
    BY SetsOfPlaces DEF Below
  <2> QED
    BY <2>1 DEF AddedBelow
<1>3. ASSUME NEW s \in Below(n, k + 1) PROVE h[s] \in Accum
  <2>1. CASE s = {}
    BY <2>1 DEF AddsOn
  <2>2. CASE s # {}
    BY <1>1, <2>2, AddReportIs DEF AddsOn, AddedBelow
  <2> QED
    BY <2>1, <2>2
<1>4. ASSUME NEW s \in Below(n, k + 1) PROVE h[s] = AddsOn(base, q, h, s)
  <2>1. CASE s = {}
    BY <2>1 DEF AddsOn
  <2>2. CASE s # {}
    <3>1. h[s \ {AnyOf(s)}] = g[s \ {AnyOf(s)}]
      BY <1>1, <1>2, <2>2
    <3>2. h[s] = AddsOn(base, q, g, s)
      OBVIOUS
    <3> HIDE DEF h
    <3> QED
      BY <2>2, <3>1, <3>2 DEF AddsOn
  <2> QED
    BY <2>1, <2>2
<1>5. h \in [Below(n, k + 1) -> Accum]
  BY <1>3
<1> HIDE DEF h
<1> QED
  BY <1>4, <1>5 DEF AddedBelow

\* Were there a size for which it fails, there would be a least one.
LEMMA AddedExist ==
    ASSUME NEW base \in Accum, NEW n \in Nat, NEW q \in [1..n -> Item], NEW k \in Nat
    PROVE  \E g : AddedBelow(base, q, n, g, k)
<1> DEFINE C == {j \in Nat : ~\E g : AddedBelow(base, q, n, g, j)}
<1> SUFFICES ASSUME C # {} PROVE FALSE
  BY DEF C
<1>1. PICK m \in C : \A j \in C : m <= j
  BY LeastNatural
<1>2. m # 0
  <2> DEFINE g == [s \in Below(n, 0) |-> base]
  <2>1. ASSUME NEW s \in Below(n, 0) PROVE s = {}
    BY SetsOfPlaces, FS_EmptySet DEF Below
  <2>2. g \in [Below(n, 0) -> Accum]
    OBVIOUS
  <2>3. \A s \in Below(n, 0) : g[s] = AddsOn(base, q, g, s)
    BY <2>1 DEF AddsOn
  <2> HIDE DEF g
  <2>4. AddedBelow(base, q, n, g, 0)
    BY <2>2, <2>3 DEF AddedBelow
  <2> QED
    BY <2>4
<1>3. m - 1 \in Nat /\ (m - 1) + 1 = m /\ ~(m <= m - 1)
  BY <1>2
<1>4. PICK g : AddedBelow(base, q, n, g, m - 1)
  BY <1>1, <1>3
<1>5. \E h : AddedBelow(base, q, n, h, m)
  BY <1>3, <1>4, AddedGrow
<1> QED
  BY <1>5

\* So what is added up of a set of places is what one of them adds to the others.
LEMMA PartAddedIs ==
    ASSUME NEW base \in Accum, NEW n \in Nat, NEW q \in [1..n -> Item]
    PROVE  /\ \A s \in SUBSET (1..n) : /\ PartAdded(base, q)[s] \in Accum
                                       /\ PartAdded(base, q)[s] = AddsOn(base, q, PartAdded(base, q), s)
           /\ AddedUp(base, q) = PartAdded(base, q)[1..n]
<1> DEFINE P == PartAdded(base, q)
<1>1. \E g : g = [s \in SUBSET DOMAIN q |-> AddsOn(base, q, g, s)]
  <2>1. PICK g : AddedBelow(base, q, n, g, n)
    BY AddedExist
  <2>2. Below(n, n) = SUBSET DOMAIN q
    BY SetsOfPlaces DEF Below
  <2>3. g = [s \in Below(n, n) |-> g[s]]
    BY <2>1 DEF AddedBelow
  <2> QED
    BY <2>1, <2>2, <2>3 DEF AddedBelow
<1>2. P = [s \in SUBSET DOMAIN q |-> AddsOn(base, q, P, s)]
  BY <1>1 DEF PartAdded
<1> HIDE DEF P
<1>3. \A s \in SUBSET (1..n) : P[s] = AddsOn(base, q, P, s)
  BY <1>2
<1>4. \A s \in SUBSET (1..n) : P[s] \in Accum
  <2> DEFINE C == {s \in SUBSET (1..n) : P[s] \notin Accum}
  <2> SUFFICES ASSUME C # {} PROVE FALSE
    OBVIOUS
  <2>1. PICK s \in C : \A t \in C : Cardinality(s) <= Cardinality(t)
    BY SmallestPlaces
  <2>2. s # {}
    BY <1>3, <2>1 DEF AddsOn
  <2> DEFINE t == s \ {AnyOf(s)}
  <2>3. AnyOf(s) \in s /\ AnyOf(s) \in 1..n /\ s \in SUBSET (1..n)
    BY <2>1, <2>2, AnyOfIs
  <2>4. t \in SUBSET (1..n) /\ Cardinality(t) = Cardinality(s) - 1 /\ Cardinality(s) \in Nat
    BY <2>3, SetsOfPlaces
  <2>5. P[t] \in Accum
    <3>1. t \notin C
      BY <2>1, <2>4
    <3> QED
      BY <2>4, <3>1
  <2>6. P[s] = AddReport(q[AnyOf(s)], P[t])
    BY <1>3, <2>2, <2>3 DEF AddsOn
  <2>7. q[AnyOf(s)] \in Item
    BY <2>3
  <2> HIDE DEF t
  <2>8. P[s] \in Accum
    BY <2>5, <2>6, <2>7, AddReportIs
  <2> QED
    BY <2>1, <2>8
<1> QED
  BY <1>3, <1>4, AddedUpIs DEF P

\* Any place may be taken out first.
LEMMA TakeOutItem ==
    ASSUME NEW base \in Accum, NEW n \in Nat, NEW q \in [1..n -> Item],
           NEW s \in SUBSET (1..n), NEW z \in s
    PROVE  PartAdded(base, q)[s] = AddReport(q[z], PartAdded(base, q)[s \ {z}])
<1> DEFINE P == PartAdded(base, q)
           C == {u \in SUBSET (1..n) : \E x \in u : P[u] # AddReport(q[x], P[u \ {x}])}
<1>0. \A u \in SUBSET (1..n) : P[u] \in Accum /\ P[u] = AddsOn(base, q, P, u)
  BY PartAddedIs
<1> HIDE DEF P
<1> SUFFICES ASSUME C # {} PROVE FALSE
  BY DEF P
<1>1. PICK u \in C : \A t \in C : Cardinality(u) <= Cardinality(t)
  BY SmallestPlaces
<1>2. PICK x \in u : P[u] # AddReport(q[x], P[u \ {x}])
  BY <1>1
<1> DEFINE y == AnyOf(u)
<1>3. y \in u /\ u \in SUBSET (1..n) /\ P[u] = AddReport(q[y], P[u \ {y}])
  BY <1>0, <1>1, <1>2, AnyOfIs DEF AddsOn
<1> HIDE DEF y
<1>4. x # y
  BY <1>2, <1>3
<1>5. /\ u \ {y} \in SUBSET (1..n) /\ u \ {y} \notin C
      /\ u \ {x} \in SUBSET (1..n) /\ u \ {x} \notin C
  <2>1. ASSUME NEW w \in u PROVE u \ {w} \in SUBSET (1..n) /\ u \ {w} \notin C
    <3>1. Cardinality(u \ {w}) = Cardinality(u) - 1 /\ Cardinality(u) \in Nat /\ u \ {w} \in SUBSET (1..n)
      BY <1>3, SetsOfPlaces
    <3>2. ~(Cardinality(u) <= Cardinality(u \ {w}))
      BY <3>1
    <3> HIDE DEF C
    <3> QED
      BY <1>1, <3>1, <3>2
  <2> QED
    BY <1>2, <1>3, <2>1
<1>6. P[u \ {y}] = AddReport(q[x], P[(u \ {y}) \ {x}])
  BY <1>2, <1>4, <1>5
<1>7. P[u \ {x}] = AddReport(q[y], P[(u \ {x}) \ {y}])
  BY <1>3, <1>4, <1>5
<1>8. (u \ {y}) \ {x} = (u \ {x}) \ {y} /\ (u \ {y}) \ {x} \in SUBSET (1..n)
  BY <1>5
<1> DEFINE r == P[(u \ {y}) \ {x}]
<1>9. q[x] \in Item /\ q[y] \in Item /\ r \in Accum
  BY <1>0, <1>2, <1>3, <1>8
<1>10. AddReport(q[y], AddReport(q[x], r)) = AddReport(q[x], AddReport(q[y], r))
  BY <1>9, ReportsCommute
<1> QED
  BY <1>2, <1>3, <1>6, <1>7, <1>8, <1>10

\* The items of the same places add the same.
LEMMA SameItems ==
    ASSUME NEW base \in Accum, NEW n \in Nat, NEW m \in Nat, n <= m,
           NEW q \in [1..n -> Item], NEW p \in [1..m -> Item], \A k \in 1..n : p[k] = q[k]
    PROVE  \A s \in SUBSET (1..n) : PartAdded(base, p)[s] = PartAdded(base, q)[s]
<1> DEFINE P == PartAdded(base, p)
           Q == PartAdded(base, q)
           C == {s \in SUBSET (1..n) : P[s] # Q[s]}
<1>1. /\ \A s \in SUBSET (1..n) : Q[s] = AddsOn(base, q, Q, s)
      /\ \A s \in SUBSET (1..m) : P[s] = AddsOn(base, p, P, s)
  BY PartAddedIs
<1> HIDE DEF P, Q
<1> SUFFICES ASSUME C # {} PROVE FALSE
  BY DEF P, Q
<1>2. PICK s \in C : \A t \in C : Cardinality(s) <= Cardinality(t)
  BY SmallestPlaces
<1>3. s \in SUBSET (1..n) /\ s \in SUBSET (1..m) /\ P[s] # Q[s]
  BY <1>2
<1>4. s # {}
  BY <1>1, <1>3 DEF AddsOn
<1> DEFINE y == AnyOf(s)
<1>5. y \in s /\ y \in 1..n
  BY <1>3, <1>4, AnyOfIs
<1>6. P[s] = AddReport(p[y], P[s \ {y}]) /\ Q[s] = AddReport(q[y], Q[s \ {y}])
  BY <1>1, <1>3, <1>4 DEF AddsOn
<1> HIDE DEF y
<1>7. s \ {y} \notin C /\ s \ {y} \in SUBSET (1..n)
  <2>1. Cardinality(s \ {y}) = Cardinality(s) - 1 /\ Cardinality(s) \in Nat
    BY <1>3, <1>5, SetsOfPlaces
  <2>2. ~(Cardinality(s) <= Cardinality(s \ {y}))
    BY <2>1
  <2> HIDE DEF C
  <2> QED
    BY <1>2, <1>3, <2>2
<1> QED
  BY <1>3, <1>5, <1>6, <1>7

\* One item more in the ring.
LEMMA AppendedAdds ==
    ASSUME NEW base \in Accum, NEW q \in Seq(Item), NEW i \in Item
    PROVE  /\ AddedUp(base, q) \in Accum
           /\ AddedUp(base, Append(q, i)) = AddReport(i, AddedUp(base, q))
           /\ AddedUp(base, <<>>) = base
<1> DEFINE n == Len(q)
           p == Append(q, i)
<1>1. /\ n \in Nat /\ q \in [1..n -> Item] /\ n + 1 \in Nat /\ n <= n + 1
      /\ p \in [1..(n + 1) -> Item] /\ p[n + 1] = i /\ \A k \in 1..n : p[k] = q[k]
  <2>1. n \in Nat /\ q \in [1..n -> Item]
    BY LenProperties
  <2>2. p \in Seq(Item) /\ Len(p) = n + 1 /\ p[n + 1] = i /\ \A k \in 1..n : p[k] = q[k]
    BY <2>1, AppendProperties
  <2>3. p \in [1..Len(p) -> Item]
    BY <2>2, LenProperties
  <2> HIDE DEF n, p
  <2> QED
    BY <2>1, <2>2, <2>3
<1> HIDE DEF n, p
<1>2. AddedUp(base, q) = PartAdded(base, q)[1..n] /\ PartAdded(base, q)[1..n] \in Accum
  BY <1>1, PartAddedIs
<1>3. AddedUp(base, p) = PartAdded(base, p)[1..(n + 1)]
  BY <1>1, PartAddedIs
<1>4. n + 1 \in 1..(n + 1) /\ (1..(n + 1)) \ {n + 1} = 1..n
  BY <1>1
<1>5. PartAdded(base, p)[1..(n + 1)] = AddReport(i, PartAdded(base, p)[1..n])
  BY <1>1, <1>4, TakeOutItem
<1>6. PartAdded(base, p)[1..n] = PartAdded(base, q)[1..n]
  BY <1>1, SameItems
<1>7. AddedUp(base, <<>>) = base
  <2>1. <<>> \in [1..0 -> Item] /\ 0 \in Nat
    OBVIOUS
  <2>2. 1..0 = {}
    OBVIOUS
  <2>3. ASSUME NEW e \in [1..0 -> Item]
        PROVE  AddedUp(base, e) = AddsOn(base, e, PartAdded(base, e), 1..0)
    <3>1. /\ AddedUp(base, e) = PartAdded(base, e)[1..0]
          /\ \A s \in SUBSET (1..0) : PartAdded(base, e)[s] = AddsOn(base, e, PartAdded(base, e), s)
      BY <2>1, PartAddedIs
    <3>2. 1..0 \in SUBSET (1..0)
      OBVIOUS
    <3> QED
      BY <3>1, <3>2
  <2>4. AddedUp(base, <<>>) = AddsOn(base, <<>>, PartAdded(base, <<>>), 1..0)
    BY <2>1, <2>3
  <2> QED
    BY <2>2, <2>4 DEF AddsOn
<1> QED
  BY <1>2, <1>3, <1>5, <1>6, <1>7 DEF p

(* The dashboard of CMC: its invariant.                                    *)

\* What is added up, with what still lies in the ring.
SoFar == AddedUp(accum, ring)

CmcTypes ==
    /\ second \in Nat /\ due \in SUBSET Dpm /\ missed \in SUBSET Dpm
    /\ report \in [Dpm -> Counts2] /\ total \in [Dpm -> Counts2]
    /\ accum \in Accum /\ ring \in Seq(Item)
    /\ part \in [Network -> 1..3] /\ worker \in [Network -> {"idle", "flag", "join"}]
    /\ held \in [parts : [{1, 2} -> Nat], first : BOOLEAN]
    /\ shownSw \in [{1, 2} -> Nat]

\* A board of which nothing was missed has been added up but for the report that is on its
\* way; without a report in the ring it already shows; and no link gets more than was sent.
SumsHold ==
    /\ \A d \in Dpm \ missed :
         /\ SoFar[d].tx + (IF d \in due THEN report[d].tx ELSE 0) = total[d].tx
         /\ SoFar[d].rx + (IF d \in due THEN report[d].rx ELSE 0) = total[d].rx
    /\ \A d \in Dpm : ~InRing(d) => SoFar[d] = accum[d]
    /\ \A l \in Link : total[l + 1].rx <= total[l].tx

\* A report of the switch is of one second, or both the part that would have ended the
\* earlier report and the part that would have begun the later one were lost.
OfOneSecond(r) == r[1] # r[2] => <<2, r[1]>> \in lostParts /\ <<1, r[2]>> \in lostParts

RingWhole == \A i \in 1..Len(ring) : ring[i].kind = "sw" => OfOneSecond(ring[i].data)

\* The first part is of this second when its place has been passed, or it was lost; what
\* waits for a second part is waited for still, or that part was lost.
PartsHold ==
    /\ \A n \in Network : part[n] >= 2 => held.parts[1] = second \/ <<1, second>> \in lostParts
    /\ \A n \in Network : worker[n] = "flag" => part[n] = 2 /\ held.parts[1] = second
    /\ \A n \in Network : worker[n] = "join" =>
          part[n] = 3 /\ (held.parts[1] = second \/ <<2, held.parts[1]>> \in lostParts)
    /\ held.first => \/ <<2, held.parts[1]>> \in lostParts
                     \/ /\ held.parts[1] = second
                        /\ \E n \in Network : part[n] < 3 \/ worker[n] = "join"
    /\ OfOneSecond(shownSw) /\ RingWhole

CmcInv == CmcTypes /\ SumsHold /\ PartsHold

\* The boards and the links between them.
LEMMA Chain ==
    /\ Dpm \subseteq Nat /\ Link \subseteq Dpm
    /\ \A l \in Link : l \in Nat /\ l + 1 \in Dpm /\ (l + 1) - 1 = l /\ l # l + 1
BY CmcMonitorAssumption DEF Dpm, Link

\* The sum that is shown is the one that is claimed.
LEMMA CmcInvImplies == CmcInv => CmcDashboardIsTrue
<1> SUFFICES ASSUME CmcInv PROVE CmcDashboardIsTrue
  OBVIOUS
<1>1. LossTableTrue
  <2> SUFFICES ASSUME NEW l \in Link, Current(l), Current(l + 1)
               PROVE  LossShown(l) = total[l].tx - total[l + 1].rx
    BY DEF LossTableTrue
  <2>1. l \in Dpm /\ l + 1 \in Dpm
    BY Chain
  <2>2. /\ SoFar[l] = accum[l] /\ SoFar[l + 1] = accum[l + 1]
        /\ SoFar[l].tx + 0 = total[l].tx /\ SoFar[l + 1].rx + 0 = total[l + 1].rx
    BY <2>1 DEF CmcInv, SumsHold, Current
  <2>3. accum[l].tx \in Nat /\ accum[l + 1].rx \in Nat
    BY <2>1 DEF CmcInv, CmcTypes, Accum
  <2>4. total[l + 1].rx <= total[l].tx
    BY DEF CmcInv, SumsHold
  <2>5. accum[l].tx = total[l].tx /\ accum[l + 1].rx = total[l + 1].rx
    BY <2>2, <2>3
  <2> QED
    BY <2>3, <2>4, <2>5 DEF LossShown
<1>2. SwReportWhole
  BY DEF SwReportWhole, CmcInv, PartsHold, OfOneSecond, RingWhole
<1> QED
  BY <1>1, <1>2 DEF CmcDashboardIsTrue

\* The sums are sums.
LEMMA SumsAre == ASSUME CmcTypes PROVE SoFar \in Accum /\ (ring = <<>> => SoFar = accum)
<1>1. [kind |-> "other", of |-> 0, data |-> Zero] \in Item
  BY DEF Item
<1> QED
  BY <1>1, AppendedAdds DEF CmcTypes, SoFar

\* Nothing has been heard at the start.
LEMMA CmcInvInit == CmcMonitorInit => CmcInv
<1> SUFFICES ASSUME CmcMonitorInit PROVE CmcInv
  OBVIOUS
<1>1. /\ second = 0 /\ due = {} /\ report = [d \in Dpm |-> Zero]
      /\ part = [n \in Network |-> 3]
      /\ held = [parts |-> <<NotYet, NotYet>>, first |-> FALSE]
      /\ worker = [n \in Network |-> "idle"]
      /\ ring = <<>> /\ accum = [d \in Dpm |-> [tx |-> 0, rx |-> 0, valid |-> FALSE]]
      /\ total = [d \in Dpm |-> Zero] /\ missed = {} /\ shownSw = <<NotYet, NotYet>>
  BY DEF CmcMonitorInit
<1>2. <<NotYet, NotYet>> \in [{1, 2} -> Nat] /\ <<NotYet, NotYet>>[1] = 0 /\ <<NotYet, NotYet>>[2] = 0
  BY DEF NotYet
<1>3. Zero \in Counts2 /\ Zero.tx = 0 /\ Zero.rx = 0
  BY DEF Zero, Counts2
<1>4. accum \in Accum
  BY <1>1 DEF Accum
<1>5. CmcTypes
  <2>1. ring \in Seq(Item)
    BY <1>1
  <2>2. held \in [parts : [{1, 2} -> Nat], first : BOOLEAN]
    BY <1>1, <1>2
  <2> QED
    BY <1>1, <1>2, <1>3, <1>4, <2>1, <2>2 DEF CmcTypes
<1>6. SoFar = accum
  BY <1>1, <1>5, SumsAre
<1>7. SumsHold
  <2>1. \A d \in Dpm : SoFar[d].tx = 0 /\ SoFar[d].rx = 0 /\ total[d].tx = 0 /\ total[d].rx = 0
    BY <1>1, <1>3, <1>6
  <2>2. \A l \in Link : total[l + 1].rx <= total[l].tx
    BY <2>1, Chain
  <2> QED
    BY <1>1, <1>6, <2>1, <2>2 DEF SumsHold
<1>8. PartsHold
  BY <1>1, <1>2 DEF PartsHold, OfOneSecond, RingWhole
<1> QED
  BY <1>5, <1>7, <1>8 DEF CmcInv

\* What has been heard does not change while ring and sums stay.
LEMMA SumsStay == ASSUME UNCHANGED <<accum, ring>> PROVE SoFar' = SoFar
BY DEF SoFar

\* An item pushed into the ring is added to what has been heard, if it is a report.
LEMMA ItemAdds ==
    ASSUME CmcTypes, NEW i \in Item, accum' = accum, ring' = Append(ring, i)
    PROVE  /\ SoFar' = AddReport(i, SoFar) /\ SoFar \in Accum
           /\ ring' \in Seq(Item) /\ ring' # ring
           /\ Len(ring') = Len(ring) + 1 /\ Len(ring) \in Nat /\ ring'[Len(ring) + 1] = i
           /\ \A k \in 1..Len(ring) : ring'[k] = ring[k]
<1>1. accum \in Accum /\ ring \in Seq(Item) /\ Len(ring) \in Nat
  BY DEF CmcTypes
<1>2. AddedUp(accum, Append(ring, i)) = AddReport(i, AddedUp(accum, ring)) /\ AddedUp(accum, ring) \in Accum
  BY <1>1, AppendedAdds
<1>3. /\ Len(Append(ring, i)) = Len(ring) + 1 /\ Append(ring, i) \in Seq(Item)
      /\ Append(ring, i)[Len(ring) + 1] = i
      /\ \A k \in 1..Len(ring) : Append(ring, i)[k] = ring[k]
  BY <1>1, AppendProperties
<1>4. Append(ring, i) # ring
  BY <1>1, <1>3
<1>5. SoFar' = AddedUp(accum, Append(ring, i))
  BY DEF SoFar
<1> QED
  BY <1>1, <1>2, <1>3, <1>4, <1>5 DEF SoFar

\* An item that is no report of a board leaves the sums as they are.
LEMMA OtherItemsPass ==
    ASSUME CmcTypes, SumsHold, NEW i \in Item, i.kind # "dpm", Push(i),
           UNCHANGED <<accum, due, report, total, missed>>
    PROVE  SumsHold'
<1>1. CASE ring' = ring
  BY <1>1, SumsStay DEF SumsHold, InRing
<1>2. CASE ring' = Append(ring, i)
  <2>1. SoFar' = SoFar
    BY <1>2, ItemAdds, AddReportIs
  <2>2. \A d \in Dpm : InRing(d)' <=> InRing(d)
    <3> SUFFICES ASSUME NEW d \in Dpm PROVE InRing(d)' <=> InRing(d)
      OBVIOUS
    <3>1. /\ Len(ring') = Len(ring) + 1 /\ Len(ring) \in Nat /\ ring'[Len(ring) + 1] = i
          /\ \A k \in 1..Len(ring) : ring'[k] = ring[k]
      BY <1>2, ItemAdds
    <3>2. \A k \in 1..Len(ring') : k \in 1..Len(ring) \/ k = Len(ring) + 1
      BY <3>1
    <3>3. \A k \in 1..Len(ring) : k \in 1..Len(ring')
      BY <3>1
    <3> QED
      BY <3>1, <3>2, <3>3 DEF InRing
  <2> QED
    BY <2>1, <2>2 DEF SumsHold
<1> QED
  BY <1>1, <1>2 DEF Push

\* Places and workers when only the parts of a report move.
LEMMA SumsAside ==
    ASSUME SumsHold, UNCHANGED <<accum, ring, due, report, total, missed>>
    PROVE  SumsHold'
BY SumsStay DEF SumsHold, InRing

\* A second passes: every board reports what the links carried.
LEMMA SecondKeeps == ASSUME CmcInv, NextSecond PROVE CmcInv'
<1>0. CmcTypes /\ SumsHold /\ PartsHold
  BY DEF CmcInv
<1>1. /\ second \in Nat /\ due = {} /\ due' = Dpm /\ second' = second + 1
      /\ (\A n \in Network : part[n] = 3 /\ worker[n] = "idle") /\ part' = [n \in Network |-> 1]
      /\ UNCHANGED <<held, worker, ring, accum, missed, lostParts, shownSw>>
      /\ total' = [d \in Dpm |-> [tx |-> total[d].tx + report'[d].tx,
                                  rx |-> total[d].rx + report'[d].rx]]
  BY <1>0 DEF NextSecond, CmcTypes
<1>2. PICK got \in [Link -> {0, 1}] : report' = Reports(got)
  BY DEF NextSecond
<1>3. /\ report' \in [Dpm -> Counts2]
      /\ \A l \in Link : report'[l + 1].rx <= report'[l].tx
  <2>1. ASSUME NEW d \in Dpm PROVE report'[d] \in Counts2
    <3>1. d - 1 \in Link => got[d - 1] \in Nat
      OBVIOUS
    <3> QED
      BY <1>2, <3>1 DEF Reports, Counts2
  <2>2. report' = [d \in Dpm |-> report'[d]]
    BY <1>2 DEF Reports
  <2>3. ASSUME NEW l \in Link PROVE report'[l + 1].rx <= report'[l].tx
    <3>1. l \in Dpm /\ l + 1 \in Dpm /\ (l + 1) - 1 = l /\ got[l] \in {0, 1}
      BY Chain
    <3>2. report'[l + 1].rx = got[l] /\ report'[l].tx = 1
      BY <1>2, <3>1 DEF Reports
    <3> QED
      BY <3>1, <3>2
  <2> QED
    BY <2>1, <2>2, <2>3
<1>4. /\ total' \in [Dpm -> Counts2]
      /\ \A d \in Dpm : /\ total'[d].tx = total[d].tx + report'[d].tx
                        /\ total'[d].rx = total[d].rx + report'[d].rx
                        /\ total[d].tx \in Nat /\ total[d].rx \in Nat
                        /\ report'[d].tx \in Nat /\ report'[d].rx \in Nat
  BY <1>0, <1>1, <1>3 DEF CmcTypes, Counts2
<1>5. CmcTypes'
  BY <1>0, <1>1, <1>3, <1>4 DEF CmcTypes
<1>6. SumsHold'
  <2>1. SoFar' = SoFar
    BY <1>1, SumsStay
  <2>2. \A d \in Dpm \ missed : SoFar[d].tx + 0 = total[d].tx /\ SoFar[d].rx + 0 = total[d].rx
    BY <1>0, <1>1 DEF SumsHold
  <2>3. SoFar \in Accum
    BY <1>0, SumsAre
  <2>4. \A d \in Dpm \ missed : /\ SoFar[d].tx + report'[d].tx = total'[d].tx
                                /\ SoFar[d].rx + report'[d].rx = total'[d].rx
    BY <1>4, <2>2, <2>3 DEF Accum
  <2>5. \A l \in Link : total'[l + 1].rx <= total'[l].tx
    <3> SUFFICES ASSUME NEW l \in Link PROVE total'[l + 1].rx <= total'[l].tx
      OBVIOUS
    <3>1. l \in Dpm /\ l + 1 \in Dpm /\ total[l + 1].rx <= total[l].tx
      BY <1>0, Chain DEF SumsHold
    <3>2. report'[l + 1].rx <= report'[l].tx
      BY <1>3
    <3> QED
      BY <1>4, <3>1, <3>2
  <2> QED
    BY <1>0, <1>1, <2>1, <2>4, <2>5 DEF SumsHold, InRing
<1>7. PartsHold'
  BY <1>0, <1>1 DEF PartsHold, OfOneSecond, RingWhole
<1> QED
  BY <1>5, <1>6, <1>7 DEF CmcInv

\* A report is lost, or one of another kind comes.
LEMMA LossKeeps == ASSUME CmcInv, NEW d \in Dpm, LoseReport(d) PROVE CmcInv'
<1>1. /\ due' = due \ {d} /\ missed' = missed \cup {d}
      /\ UNCHANGED <<second, report, part, held, worker, ring, accum, total, lostParts, shownSw>>
  BY DEF LoseReport
<1>2. SumsHold'
  BY <1>1, SumsStay DEF CmcInv, SumsHold, InRing
<1> QED
  BY <1>1, <1>2 DEF CmcInv, CmcTypes, PartsHold, OfOneSecond, RingWhole

\* What a push leaves of the parts.
LEMMA PushedParts ==
    ASSUME CmcTypes, NEW i \in Item, Push(i), accum' = accum,
           RingWhole, i.kind = "sw" => OfOneSecond(i.data), lostParts' = lostParts
    PROVE  ring' \in Seq(Item) /\ RingWhole'
<1>1. CASE ring' = ring
  BY <1>1 DEF CmcTypes, OfOneSecond, RingWhole
<1>2. CASE ring' = Append(ring, i)
  <2>1. /\ ring' \in Seq(Item) /\ ring'[Len(ring) + 1] = i /\ Len(ring') = Len(ring) + 1
        /\ Len(ring) \in Nat /\ \A k \in 1..Len(ring) : ring'[k] = ring[k]
    BY <1>2, ItemAdds
  <2>2. \A k \in 1..Len(ring') : k \in 1..Len(ring) \/ k = Len(ring) + 1
    BY <2>1
  <2>3. \A k \in 1..Len(ring') : ring'[k].kind = "sw" => OfOneSecond(ring'[k].data)
    BY <2>1, <2>2 DEF RingWhole
  <2> QED
    BY <2>1, <2>3 DEF RingWhole, OfOneSecond
<1> QED
  BY <1>1, <1>2 DEF Push

\* A frame that is no report leaves what has been heard.
LEMMA OtherKeeps == ASSUME CmcInv, ReceiveOther PROVE CmcInv'
<1> DEFINE i == [kind |-> "other", of |-> 0, data |-> Zero]
<1>1. i \in Item /\ i.kind = "other"
  BY DEF Item
<1>2. /\ Push(i)
      /\ UNCHANGED <<second, due, report, part, held, worker, accum, total, missed, lostParts,
                     shownSw>>
  BY DEF ReceiveOther
<1> HIDE DEF i
<1>3. SumsHold'
  BY <1>1, <1>2, OtherItemsPass DEF CmcInv
<1>4. ring' \in Seq(Item) /\ RingWhole'
  BY <1>1, <1>2, PushedParts DEF CmcInv, PartsHold
<1>5. CmcTypes'
  BY <1>2, <1>4 DEF CmcInv, CmcTypes
<1>6. PartsHold'
  BY <1>2, <1>4 DEF CmcInv, PartsHold, OfOneSecond
<1> QED
  BY <1>3, <1>5, <1>6 DEF CmcInv

\* A report comes and is pushed, or does not fit.
LEMMA ReportKeeps == ASSUME CmcInv, NEW d \in Dpm, ReceiveReport(d) PROVE CmcInv'
<1> DEFINE i == [kind |-> "dpm", of |-> d, data |-> report[d]]
<1>1. i \in Item /\ i.kind = "dpm" /\ i.of = d /\ i.data = report[d] /\ report[d] \in Counts2
  BY DEF Item, CmcInv, CmcTypes
<1>2. /\ d \in due /\ due' = due \ {d} /\ Push(i)
      /\ missed' = IF ring' = ring THEN missed \cup {d} ELSE missed
      /\ UNCHANGED <<second, report, part, held, worker, accum, total, lostParts, shownSw>>
  BY DEF ReceiveReport
<1> HIDE DEF i
<1>3. ring' \in Seq(Item) /\ RingWhole'
  BY <1>1, <1>2, PushedParts DEF CmcInv, PartsHold
<1>4. CmcTypes'
  BY <1>2, <1>3 DEF CmcInv, CmcTypes
<1>5. PartsHold'
  BY <1>2, <1>3 DEF CmcInv, PartsHold, OfOneSecond
<1>6. SumsHold'
  <2>1. CASE ring' = ring
    BY <1>2, <2>1, SumsStay DEF CmcInv, SumsHold, InRing
  <2>2. CASE ring' = Append(ring, i)
    <3>1. /\ SoFar' = AddReport(i, SoFar) /\ SoFar \in Accum /\ ring' # ring
          /\ Len(ring') = Len(ring) + 1 /\ Len(ring) \in Nat /\ ring'[Len(ring) + 1] = i
          /\ \A k \in 1..Len(ring) : ring'[k] = ring[k]
      BY <1>1, <1>2, <2>2, ItemAdds DEF CmcInv
    <3>2. /\ SoFar'[d].tx = SoFar[d].tx + report[d].tx /\ SoFar'[d].rx = SoFar[d].rx + report[d].rx
          /\ \A e \in Dpm : e # d => SoFar'[e] = SoFar[e]
      <4>1. SoFar'[d] = [tx |-> SoFar[d].tx + report[d].tx, rx |-> SoFar[d].rx + report[d].rx,
                         valid |-> TRUE]
            /\ \A e \in Dpm : e # d => SoFar'[e] = SoFar[e]
        BY <1>1, <3>1, AddReportIs
      <4> QED
        BY <4>1
    <3>3. Len(ring) + 1 \in 1..Len(ring') /\ \A k \in 1..Len(ring) : k \in 1..Len(ring')
      BY <3>1
    <3>4. InRing(d)' /\ \A e \in Dpm : InRing(e) => InRing(e)'
      BY <1>1, <3>1, <3>3 DEF InRing
    <3>5. missed' = missed
      BY <1>2, <3>1
    <3>6. ASSUME NEW e \in Dpm \ missed
          PROVE  /\ SoFar'[e].tx + (IF e \in due' THEN report'[e].tx ELSE 0) = total'[e].tx
                 /\ SoFar'[e].rx + (IF e \in due' THEN report'[e].rx ELSE 0) = total'[e].rx
      <4>1. /\ SoFar[e].tx + (IF e \in due THEN report[e].tx ELSE 0) = total[e].tx
            /\ SoFar[e].rx + (IF e \in due THEN report[e].rx ELSE 0) = total[e].rx
        BY DEF CmcInv, SumsHold
      <4>2. CASE e = d
        <5>1. SoFar[d].tx \in Nat /\ SoFar[d].rx \in Nat /\ report[d].tx \in Nat /\ report[d].rx \in Nat
          BY <1>1, <3>1 DEF Accum, Counts2
        <5> QED
          BY <1>2, <3>2, <4>1, <4>2, <5>1
      <4>3. CASE e # d
        BY <1>2, <3>2, <4>1, <4>3
      <4> QED
        BY <4>2, <4>3
    <3>7. \A e \in Dpm : ~InRing(e)' => SoFar'[e] = accum'[e]
      BY <1>2, <3>2, <3>4 DEF CmcInv, SumsHold
    <3> QED
      BY <1>2, <3>5, <3>6, <3>7 DEF CmcInv, SumsHold
  <2> QED
    BY <1>2, <2>1, <2>2 DEF Push
<1> QED
  BY <1>4, <1>5, <1>6 DEF CmcInv

\* A part of the switch's report is lost, copied, flagged, or checked.
LEMMA PartsKeep ==
    ASSUME CmcInv, NEW n \in Network,
           LosePart(n) \/ CopyFirst(n) \/ FlagFirst(n) \/ CheckSecond(n)
    PROVE  CmcInv'
<1>0. CmcTypes /\ SumsHold /\ PartsHold
  BY DEF CmcInv
<1>1. UNCHANGED <<second, due, report, ring, accum, total, missed, shownSw>>
  BY DEF LosePart, CopyFirst, FlagFirst, CheckSecond
<1>2. SumsHold'
  BY <1>0, <1>1, SumsAside
<1>3. /\ held.parts \in [{1, 2} -> Nat] /\ held.first \in BOOLEAN /\ second \in Nat
      /\ part[n] \in 1..3
  BY <1>0 DEF CmcTypes
<1>4. CASE LosePart(n)
  <2>1. /\ part[n] \in {1, 2} /\ worker[n] = "idle" /\ part' = [part EXCEPT ![n] = part[n] + 1]
        /\ lostParts' = lostParts \cup {<<part[n], second>>} /\ UNCHANGED <<held, worker>>
    BY <1>3, <1>4 DEF LosePart
  <2>2. CmcTypes'
    BY <1>0, <1>1, <2>1 DEF CmcTypes
  <2>3. PartsHold'
    <3>1. part[n] = 1 \/ part[n] = 2
      BY <2>1
    <3>2. /\ part' \in [Network -> 1..3] /\ part'[n] = part[n] + 1
          /\ \A k \in Network : k # n => part'[k] = part[k]
      BY <1>0, <2>1, <2>2 DEF CmcTypes
    <3>3. \A k \in Network : part'[k] >= 2 => held.parts[1] = second \/ <<1, second>> \in lostParts'
      BY <1>0, <2>1, <3>1, <3>2 DEF PartsHold
    <3>4. held.first => \/ <<2, held.parts[1]>> \in lostParts'
                        \/ /\ held.parts[1] = second
                           /\ \E k \in Network : part'[k] < 3 \/ worker[k] = "join"
      <4>1. CASE part[n] = 1
        BY <1>0, <2>1, <3>2, <4>1 DEF PartsHold
      <4>2. CASE part[n] = 2
        BY <1>0, <2>1, <3>2, <4>2 DEF PartsHold
      <4> QED
        BY <3>1, <4>1, <4>2
    <3>5. \A k \in Network :
             /\ worker[k] = "flag" => part'[k] = 2 /\ held.parts[1] = second
             /\ worker[k] = "join" => /\ part'[k] = 3
                                      /\ held.parts[1] = second \/ <<2, held.parts[1]>> \in lostParts'
      BY <1>0, <2>1, <3>2 DEF PartsHold
    <3>6. OfOneSecond(shownSw)' /\ RingWhole'
      BY <1>0, <1>1, <2>1 DEF PartsHold, OfOneSecond, RingWhole
    <3> QED
      BY <1>1, <2>1, <3>3, <3>4, <3>5, <3>6 DEF PartsHold
  <2> QED
    BY <1>2, <2>2, <2>3 DEF CmcInv
<1>5. CASE CopyFirst(n)
  <2>1. /\ part[n] = 1 /\ worker[n] = "idle" /\ part' = [part EXCEPT ![n] = 2]
        /\ worker' = [worker EXCEPT ![n] = "flag"] /\ held' = [held EXCEPT !.parts[1] = second]
        /\ UNCHANGED lostParts
    BY <1>5 DEF CopyFirst
  <2>2. /\ held'.parts \in [{1, 2} -> Nat] /\ held'.parts[1] = second /\ held'.first = held.first
        /\ held' \in [parts : [{1, 2} -> Nat], first : BOOLEAN]
    BY <1>0, <1>3, <2>1 DEF CmcTypes
  <2>3. CmcTypes'
    BY <1>0, <1>1, <2>1, <2>2 DEF CmcTypes
  <2>4. PartsHold'
    <3>1. /\ part'[n] = 2 /\ \A k \in Network : k # n => part'[k] = part[k] /\ worker'[k] = worker[k]
          /\ worker'[n] = "flag"
      BY <1>0, <2>1 DEF CmcTypes
    <3>2. OfOneSecond(shownSw)' /\ RingWhole'
      BY <1>0, <1>1, <2>1 DEF PartsHold, OfOneSecond, RingWhole
    <3> QED
      BY <1>0, <1>1, <2>1, <2>2, <3>1, <3>2 DEF PartsHold
  <2> QED
    BY <1>2, <2>3, <2>4 DEF CmcInv
<1>6. CASE FlagFirst(n)
  <2>1. /\ worker[n] = "flag" /\ worker' = [worker EXCEPT ![n] = "idle"]
        /\ held' = [held EXCEPT !.first = TRUE] /\ UNCHANGED <<lostParts, part>>
    BY <1>6 DEF FlagFirst
  <2>2. /\ held'.parts = held.parts /\ held' \in [parts : [{1, 2} -> Nat], first : BOOLEAN]
    BY <1>0, <1>3, <2>1 DEF CmcTypes
  <2>3. CmcTypes'
    BY <1>0, <1>1, <2>1, <2>2 DEF CmcTypes
  <2>4. PartsHold'
    <3>1. /\ part[n] = 2 /\ held.parts[1] = second
          /\ \A k \in Network : k # n => worker'[k] = worker[k]
          /\ worker'[n] = "idle"
      BY <1>0, <2>1 DEF CmcTypes, PartsHold
    <3>2. OfOneSecond(shownSw)' /\ RingWhole'
      BY <1>0, <1>1, <2>1 DEF PartsHold, OfOneSecond, RingWhole
    <3>3. \E k \in Network : part'[k] < 3
      BY <2>1, <3>1
    <3> QED
      BY <1>0, <1>1, <2>1, <2>2, <3>1, <3>2, <3>3 DEF PartsHold
  <2> QED
    BY <1>2, <2>3, <2>4 DEF CmcInv
<1>7. CASE CheckSecond(n)
  <2>1. /\ part[n] = 2 /\ worker[n] = "idle" /\ part' = [part EXCEPT ![n] = 3]
        /\ worker' = [worker EXCEPT ![n] = IF held.first THEN "join" ELSE "idle"]
        /\ UNCHANGED <<held, lostParts>>
    BY <1>7 DEF CheckSecond
  <2>2. CmcTypes'
    BY <1>0, <1>1, <2>1 DEF CmcTypes
  <2>3. PartsHold'
    <3>1. /\ part'[n] = 3 /\ \A k \in Network : k # n => part'[k] = part[k] /\ worker'[k] = worker[k]
          /\ worker'[n] = IF held.first THEN "join" ELSE "idle"
      BY <1>0, <2>1 DEF CmcTypes
    <3>2. OfOneSecond(shownSw)' /\ RingWhole'
      BY <1>0, <1>1, <2>1 DEF PartsHold, OfOneSecond, RingWhole
    <3>3. held.first => held.parts[1] = second \/ <<2, held.parts[1]>> \in lostParts
      BY <1>0 DEF PartsHold
    <3>4. \A k \in Network : part'[k] >= 2 => held.parts[1] = second \/ <<1, second>> \in lostParts
      BY <1>0, <2>1, <3>1 DEF PartsHold
    <3>5. held.first => \/ <<2, held.parts[1]>> \in lostParts
                        \/ /\ held.parts[1] = second
                           /\ \E k \in Network : part'[k] < 3 \/ worker'[k] = "join"
      BY <3>1, <3>3
    <3>6. \A k \in Network :
             /\ worker'[k] = "flag" => part'[k] = 2 /\ held.parts[1] = second
             /\ worker'[k] = "join" => /\ part'[k] = 3
                                       /\ held.parts[1] = second \/ <<2, held.parts[1]>> \in lostParts
      BY <1>0, <3>1, <3>3 DEF PartsHold
    <3> QED
      BY <1>1, <2>1, <3>2, <3>4, <3>5, <3>6 DEF PartsHold
  <2> QED
    BY <1>2, <2>2, <2>3 DEF CmcInv
<1> QED
  BY <1>4, <1>5, <1>6, <1>7

\* The second part ends the report, which is pushed.
LEMMA JoinKeeps == ASSUME CmcInv, NEW n \in Network, Join(n) PROVE CmcInv'
<1>0. CmcTypes /\ SumsHold /\ PartsHold
  BY DEF CmcInv
<1> DEFINE i == [kind |-> "sw", of |-> 0, data |-> held'.parts]
<1>1. /\ worker[n] = "join" /\ worker' = [worker EXCEPT ![n] = "idle"]
      /\ held' = [held EXCEPT !.parts[2] = second, !.first = FALSE]
      /\ Push(i)
      /\ UNCHANGED <<second, due, report, part, accum, total, missed, lostParts, shownSw>>
  BY DEF Join, AfterJoin
<1>2. /\ held'.parts \in [{1, 2} -> Nat] /\ held'.parts[1] = held.parts[1]
      /\ held'.parts[2] = second /\ held'.first = FALSE
      /\ held' \in [parts : [{1, 2} -> Nat], first : BOOLEAN]
  <2>1. held \in [parts : [{1, 2} -> Nat], first : BOOLEAN] /\ second \in Nat
    BY <1>0 DEF CmcTypes
  <2>2. PICK p \in [{1, 2} -> Nat], f \in BOOLEAN : held = [parts |-> p, first |-> f]
    BY <2>1
  <2>3. held' = [parts |-> [p EXCEPT ![2] = second], first |-> FALSE]
    BY <1>1, <2>2
  <2>4. [p EXCEPT ![2] = second] \in [{1, 2} -> Nat]
    BY <2>1
  <2> QED
    BY <2>2, <2>3, <2>4
<1>3. i \in Item /\ i.kind = "sw" /\ i.data = held'.parts
  BY <1>2 DEF Item
<1>4. OfOneSecond(held'.parts)
  BY <1>0, <1>1, <1>2 DEF PartsHold, OfOneSecond
<1> HIDE DEF i
<1>5. SumsHold'
  BY <1>0, <1>1, <1>3, OtherItemsPass
<1>6. ring' \in Seq(Item) /\ RingWhole'
  BY <1>0, <1>1, <1>3, <1>4, PushedParts DEF PartsHold
<1>7. CmcTypes'
  BY <1>0, <1>1, <1>2, <1>6 DEF CmcTypes
<1>8. PartsHold'
  <2>1. worker'[n] = "idle" /\ \A k \in Network : k # n => worker'[k] = worker[k]
    BY <1>0, <1>1 DEF CmcTypes
  <2>2. OfOneSecond(shownSw)'
    BY <1>0, <1>1 DEF PartsHold, OfOneSecond
  <2> QED
    BY <1>0, <1>1, <1>2, <1>6, <2>1, <2>2 DEF PartsHold
<1> QED
  BY <1>5, <1>7, <1>8 DEF CmcInv

\* The ring is emptied.
LEMMA DashboardKeeps == ASSUME CmcInv, Dashboard PROVE CmcInv'
<1>0. CmcTypes /\ SumsHold /\ PartsHold
  BY DEF CmcInv
<1>1. /\ accum' = SoFar /\ ring' = <<>>
      /\ UNCHANGED <<second, due, report, part, held, worker, total, missed, lostParts>>
  BY AccumulateIs DEF Dashboard, SoFar
<1>2. shownSw' \in [{1, 2} -> Nat] /\ OfOneSecond(shownSw')
  <2> DEFINE i == LastOf(ring, "sw")
             I == {k \in 1..Len(ring) : ring[k].kind = "sw"}
  <2>1. i = IF I # {} THEN Max(I) ELSE 0
    BY DEF LastOf, SelectLastInSeq
  <2>2. shownSw' = IF i = 0 THEN shownSw ELSE ring[i].data
    BY DEF Dashboard
  <2>3. CASE I = {}
    BY <1>0, <2>1, <2>2, <2>3 DEF CmcTypes, PartsHold
  <2>4. CASE I # {}
    <3>1. ring \in Seq(Item) /\ Len(ring) \in Nat
      BY <1>0 DEF CmcTypes
    <3>2. I \in SUBSET Nat /\ \A k \in I : k <= Len(ring)
      BY <3>1
    <3>3. Max(I) \in I
      BY <2>4, <3>1, <3>2, MaxIsGreatest
    <3>4. i \in 1..Len(ring) /\ ring[i].kind = "sw" /\ i # 0
      BY <2>1, <2>4, <3>1, <3>3
    <3>5. shownSw' = ring[i].data /\ ring[i] \in Item
      BY <2>2, <3>1, <3>4
    <3>6. ring[i].data \in [{1, 2} -> Nat]
      BY <3>4, <3>5 DEF Item
    <3>7. OfOneSecond(ring[i].data)
      BY <1>0, <3>4 DEF PartsHold, RingWhole
    <3> QED
      BY <3>5, <3>6, <3>7
  <2> QED
    BY <2>3, <2>4
<1>3. SoFar \in Accum /\ ring' \in Seq(Item)
  BY <1>0, <1>1, SumsAre
<1>4. CmcTypes'
  BY <1>0, <1>1, <1>2, <1>3 DEF CmcTypes
<1>5. SoFar' = SoFar /\ accum' = SoFar
  <2>1. (CmcTypes => (ring = <<>> => SoFar = accum))'
    BY SumsAre, PTL
  <2> QED
    BY <1>1, <1>4, <2>1
<1>6. SumsHold'
  BY <1>0, <1>1, <1>5 DEF SumsHold
<1>7. PartsHold'
  <2>1. RingWhole'
    BY <1>1 DEF RingWhole
  <2>2. OfOneSecond(shownSw)'
    BY <1>1, <1>2 DEF OfOneSecond
  <2> QED
    BY <1>0, <1>1, <2>1, <2>2 DEF PartsHold
<1> QED
  BY <1>4, <1>6, <1>7 DEF CmcInv

\* What the dashboard of CMC shows is true: the losses of a link are those of all seconds,
\* for any number of boards and seconds, any size of the ring and any reports that were lost
\* or came at once; and the parts of a switch report belong together, however the workers
\* of the two networks meet.
THEOREM CmcDashboardHolds == Spec => []CmcDashboardIsTrue
<1>1. Init => CmcInv
  BY CmcInvInit DEF Init
<1>2. CmcInv /\ [Next]_vars => CmcInv'
  <2> SUFFICES ASSUME CmcInv, [Next]_vars
               PROVE  CmcInv'
    OBVIOUS
  <2>1. CASE UNCHANGED cmcVars
    <3>1. SumsHold'
      BY <2>1, SumsAside DEF CmcInv, cmcVars
    <3> QED
      BY <2>1, <3>1 DEF CmcInv, CmcTypes, PartsHold, OfOneSecond, RingWhole, cmcVars
  <2>2. CASE CmcMonitorNext
    BY <2>2, SecondKeeps, LossKeeps, OtherKeeps, ReportKeeps, PartsKeep, JoinKeeps,
       DashboardKeeps DEF CmcMonitorNext
  <2> QED
    BY <2>1, <2>2 DEF Next, vars
<1> QED
  BY <1>1, <1>2, CmcInvImplies, PTL DEF Spec

-----------------------------------------------------------------------------
(* The traffic: what its variables hold.                                   *)

Number == {0, 1} \X Nat
TxState == [pc : {"tick", "send", "twin", "load", "store"}, seq : Nat, era : {0, 1}]
TrackerState == [max_seq : Nat, pkt_count : Nat, expected_seq : Nat, initialized : {0, 1}]
PacketState == [seq : Nat, era : {0, 1}, alien : BOOLEAN, zone : Zones \cup {"none"}]
WorkerState == [pc : {"poll", "track", "flush", "final", "exited"}, pkt : PacketState,
                rx : Nat, bad : Nat, lost : Nat, leaving : BOOLEAN]
SpoiledState == [fresh : Nat, all : Nat]

TrafficTypes ==
    /\ unit \in {"cmc", "vmc"} /\ own \in Net /\ source \in SUBSET Net
    /\ tx \in TxState /\ sequence \in Nat
    /\ wire \in [Net -> Seq(Number)] /\ sent \in [Net -> SUBSET Number]
    /\ tracker \in TrackerState /\ rx_worker \in WorkerState
    /\ port \in Nat /\ lost \in Nat /\ odd \in Nat /\ spoiled \in SpoiledState
    /\ seen \in SUBSET Nat

\* The parts of the reset by their numbers.
Parts == IF unit = "cmc" THEN 4 ELSE 3
TrackerDone == main > 2
NumbersDone == unit = "cmc" /\ main > 3
Now == IF NumbersDone THEN 1 ELSE 0
TrackedEra == IF TrackerDone THEN 1 ELSE 0

\* The stop finds the reset before its first part, after its last, or cuts it short.
InPhase ==
    /\ main \in 0..(Parts + 1)
    /\ stop /\ ~cut => main = 0 \/ main = Parts + 1
    /\ ~stop => ~cut
    /\ raced => NumbersDone
    /\ rx_worker.leaving \/ rx_worker.pc \in {"final", "exited"} => stop

\* The order in which numbers are sent.
Before(p, q) == p[1] < q[1] \/ (p[1] = q[1] /\ p[2] < q[2])

\* The twin of a packet is sent after it.
TwinFollows ==
    /\ sent["B"] \subseteq sent["A"]
    /\ tx.pc = "twin" => <<tx.era, tx.seq>> \in sent["A"]

\* What is on network A is what the numbering says, and no more.
Committed == tx.pc \in {"tick", "send"}
Numbered ==
    /\ ~repeated
    /\ tx.pc \in {"send", "twin"} => tx.seq = sequence /\ tx.era = Now
    /\ tx.pc = "store" => tx.seq = sequence
    /\ \A m \in sent["A"] :
          \/ m[1] < Now
          \/ m[1] = Now /\ m[2] < sequence
          \/ m[1] = Now /\ m[2] = sequence /\ ~Committed
    /\ \A m \in sent["A"] : \A s \in 0..m[2] : <<m[1], s>> \in sent["A"]
    /\ \A s \in 0..sequence : s < sequence \/ ~Committed => <<Now, s>> \in sent["A"]
    /\ tx.pc = "twin" => <<tx.era, tx.seq>> \notin sent["B"]

\* The packets of a network are on their way in the order of their numbers.
InOrder ==
    \A n \in Net : \A i \in 1..Len(wire[n]) :
        /\ wire[n][i] \in sent[n]
        /\ \A j \in 1..Len(wire[n]) : i < j => Before(wire[n][i], wire[n][j])

\* A number that was sent on a network before those on their way there.
First(p, n) == p \in sent[n] /\ \A i \in 1..Len(wire[n]) : Before(p, wire[n][i])

\* The packet in hand comes before those on their way ...
Hand == <<rx_worker.pkt.era, rx_worker.pkt.seq>>
Held == rx_worker.pc = "track" /\ ~rx_worker.pkt.alien
HandFirst == Held => First(Hand, own)

\* ... and what was tracked before both.
SeenFirst ==
    \A q \in seen :
        First(<<TrackedEra, q>>, own) /\ (Held => Before(<<TrackedEra, q>>, Hand))

\* The tracker says what was seen.
TrackerCounts ==
    /\ IsFiniteSet(seen) /\ tracker.pkt_count = Cardinality(seen)
    /\ seen = {} => tracker = FreshTracker
    /\ seen # {} =>
          /\ tracker.initialized = 1 /\ tracker.max_seq \in seen
          /\ \A q \in seen : q <= tracker.max_seq
          /\ tracker.expected_seq = tracker.max_seq + 1

\* What was counted in real time, where nothing is reset, is missing.
RealTime ==
    unit = "vmc" /\ main = 0 =>
        lost + rx_worker.lost + tracker.pkt_count <= tracker.expected_seq

\* A damaged packet is pending, in the worker's count or in the port's.
Pending == IF Fails(rx_worker.pkt.zone) = {} THEN 0 ELSE 1
Damaged ==
    /\ rx_worker.pc # "track" => rx_worker.pkt.zone = "none"
    /\ odd <= MaxOdd
    /\ spoiled.fresh <= port + rx_worker.bad + Pending
    /\ port + rx_worker.bad + Pending
         <= spoiled.all + (IF pure /\ unit = "vmc" THEN odd ELSE 0)

TrafficInv ==
    /\ TrafficTypes /\ InPhase /\ TwinFollows /\ Damaged
    /\ ~raced => Numbered /\ InOrder /\ HandFirst
    /\ ~raced /\ ~foul => SeenFirst /\ TrackerCounts
    /\ ~raced /\ ~foul /\ rx_worker.pc # "exited" => RealTime
    /\ FinalLossIsReal

-----------------------------------------------------------------------------
(* The parts of the reset.                                                 *)

\* What is done, by the number of the part that comes next.
LEMMA DoneIs ==
    ASSUME TrafficTypes, InPhase
    PROVE  /\ Done("tracker") <=> TrackerDone
           /\ Done("tx") <=> NumbersDone
           /\ Era = Now /\ main \in 0..5 /\ Len(ResetOrder) = Parts
<1>1. CASE unit = "cmc"
  <2>1. ResetOrder = <<"port", "tracker", "tx", "unit">> /\ Parts = 4 /\ main \in 0..5
    BY <1>1 DEF ResetOrder, CmcResetOrder, Parts, InPhase
  <2>2. Done("tracker") <=> main > 2
    BY <2>1 DEF Done
  <2>3. Done("tx") <=> main > 3
    BY <2>1 DEF Done
  <2> QED
    BY <1>1, <2>1, <2>2, <2>3 DEF TrackerDone, NumbersDone, Era, Now
<1>2. CASE unit = "vmc"
  <2>1. ResetOrder = <<"port", "tracker", "unit">> /\ Parts = 3 /\ main \in 0..4
    BY <1>2 DEF ResetOrder, VmcResetOrder, Parts, InPhase
  <2>2. Done("tracker") <=> main > 2
    BY <2>1 DEF Done
  <2>3. ~Done("tx")
    BY <2>1 DEF Done
  <2> QED
    BY <1>2, <2>1, <2>2, <2>3 DEF TrackerDone, NumbersDone, Era, Now
<1> QED
  BY <1>1, <1>2 DEF TrafficTypes

\* The part that is due, by its number.
LEMMA PartIs ==
    ASSUME TrafficTypes, InPhase
    PROVE  /\ AtReset("port") => main = 1 /\ main' = 2
           /\ AtReset("tracker") => main = 2 /\ main' = 3
           /\ AtReset("tx") => main = 3 /\ main' = 4 /\ unit = "cmc"
           /\ AtReset("unit") => main = Parts /\ main' = Parts + 1
<1>1. CASE unit = "cmc"
  <2>1. ResetOrder = <<"port", "tracker", "tx", "unit">> /\ Parts = 4
    BY <1>1 DEF ResetOrder, CmcResetOrder, Parts
  <2> QED
    BY <1>1, <2>1 DEF AtReset
<1>2. CASE unit = "vmc"
  <2>1. ResetOrder = <<"port", "tracker", "unit">> /\ Parts = 3
    BY <1>2 DEF ResetOrder, VmcResetOrder, Parts
  <2> QED
    BY <1>2, <2>1 DEF AtReset
<1> QED
  BY <1>1, <1>2 DEF TrafficTypes

\* The reset advances part by part.
LEMMA MainAdvances ==
    ASSUME TrafficTypes, InPhase, Main
    PROVE  main' = main + 1 /\ main <= Parts /\ main' \in 1..5 /\ UNCHANGED unit
<1>1. UNCHANGED unit
  BY DEF Main, BeginReset, ResetPort, ResetTracker, ResetNumbers, ResetUnit, envVars
<1>2. Parts \in {3, 4} /\ (unit = "cmc" => Parts = 4)
  BY DEF Parts
<1> QED
  BY <1>1, <1>2, PartIs DEF Main, BeginReset, ResetPort, ResetTracker, ResetNumbers, ResetUnit

-----------------------------------------------------------------------------
(* Types and phases.                                                       *)

\* They hold at the start.
LEMMA TrafficInit == FlowInit => TrafficTypes /\ InPhase
<1> SUFFICES ASSUME FlowInit PROVE TrafficTypes /\ InPhase
  OBVIOUS
<1>1. unit \in {"cmc", "vmc"} /\ own \in Net /\ source \in SUBSET Net
  BY DEF FlowInit, CmcPorts, VmcPorts, CmcRules, VmcRules, CmcQueue, VmcQueue, Net
<1>2. /\ tx = [pc |-> "tick", seq |-> 0, era |-> 0] /\ sequence = 0
      /\ wire = [n \in Net |-> <<>>] /\ sent = [n \in Net |-> {}]
      /\ tracker = FreshTracker /\ rx_worker = IdleWorker /\ port = 0 /\ lost = 0
      /\ main = 0 /\ odd = 0 /\ seen = {} /\ spoiled = [fresh |-> 0, all |-> 0]
      /\ ~stop /\ ~raced /\ ~cut
  BY DEF FlowInit
<1>3. tx \in TxState /\ tracker \in TrackerState /\ spoiled \in SpoiledState
  BY <1>2 DEF TxState, TrackerState, FreshTracker, SpoiledState
<1>4. rx_worker \in WorkerState /\ rx_worker.pc = "poll" /\ ~rx_worker.leaving
  BY <1>2 DEF WorkerState, IdleWorker, NoPacket, PacketState, Zones
<1>5. wire \in [Net -> Seq(Number)] /\ sent \in [Net -> SUBSET Number]
  BY <1>2, EmptySeq
<1>6. TrafficTypes
  BY <1>1, <1>2, <1>3, <1>4, <1>5 DEF TrafficTypes
<1>7. InPhase
  <2>1. Parts \in {3, 4}
    BY DEF Parts
  <2> QED
    BY <1>2, <1>4, <2>1 DEF InPhase
<1> QED
  BY <1>6, <1>7

\* A packet is put at the end of a wire, or nowhere.
LEMMA PutTypes ==
    ASSUME TrafficTypes, NEW n \in Net, Put(n)
    PROVE  wire' \in [Net -> Seq(Number)] /\ sent' \in [Net -> SUBSET Number]
<1> DEFINE number == <<tx.era, tx.seq>>
<1>1. number \in Number
  BY DEF TrafficTypes, TxState, Number
<1>2. /\ wire' = [wire EXCEPT ![n] = Append(@, number)] \/ wire' = wire
      /\ sent' = [sent EXCEPT ![n] = @ \cup {number}]
  BY DEF Put
<1> HIDE DEF number
<1>3. sent' \in [Net -> SUBSET Number]
  BY <1>1, <1>2 DEF TrafficTypes
<1>4. Append(wire[n], number) \in Seq(Number)
  BY <1>1, AppendProperties DEF TrafficTypes
<1> QED
  BY <1>2, <1>3, <1>4 DEF TrafficTypes

\* A packet taken from a wire is one of those sent.
LEMMA FirstOf ==
    ASSUME TrafficTypes, NEW n \in Net, wire[n] # <<>>
    PROVE  /\ Head(wire[n]) \in Number /\ Head(wire[n]) = wire[n][1]
           /\ 1 \in 1..Len(wire[n])
           /\ Tail(wire[n]) \in Seq(Number)
           /\ Len(Tail(wire[n])) = Len(wire[n]) - 1 /\ Len(wire[n]) \in Nat \ {0}
           /\ \A i \in 1..Len(Tail(wire[n])) :
                 Tail(wire[n])[i] = wire[n][i + 1] /\ i + 1 \in 1..Len(wire[n])
<1>1. wire[n] \in Seq(Number)
  BY DEF TrafficTypes
<1>2. /\ Head(wire[n]) \in Number /\ Tail(wire[n]) \in Seq(Number)
      /\ Len(Tail(wire[n])) = Len(wire[n]) - 1
      /\ \A i \in 1..Len(Tail(wire[n])) : Tail(wire[n])[i] = wire[n][i + 1]
  BY <1>1, HeadTailProperties
<1>3. Len(wire[n]) \in Nat \ {0}
  BY <1>1, EmptySeq
<1>4. Head(wire[n]) = wire[n][1]
  BY <1>1
<1> QED
  BY <1>2, <1>3, <1>4

\* The sender keeps the types.
LEMMA SenderTypes == TrafficTypes /\ InPhase /\ Sender => TrafficTypes'
<1> SUFFICES ASSUME TrafficTypes, InPhase, Sender PROVE TrafficTypes'
  OBVIOUS
<1>1. UNCHANGED <<unit, own, source, tracker, rx_worker, port, lost, odd, spoiled, seen>>
  BY DEF Sender, Pick, Retry, SendA, SendB, CommitLoad, CommitStore, txFixed, envVars, rxVars
<1>2. tx \in TxState /\ sequence \in Nat /\ Era \in {0, 1}
  BY DEF TrafficTypes, Era
<1>3. tx' \in TxState
  <2>1. CASE Pick
    BY <1>2, <2>1 DEF Pick, TxState
  <2>2. CASE SendA
    BY <1>2, <2>2 DEF SendA, TxState
  <2>3. CASE Retry \/ SendB
    BY <1>2, <2>3 DEF Retry, SendB, TxState
  <2>4. CASE CommitLoad
    BY <1>2, <2>4 DEF CommitLoad, TxState
  <2>5. CASE CommitStore
    BY <1>2, <2>5 DEF CommitStore, TxState
  <2> QED
    BY <2>1, <2>2, <2>3, <2>4, <2>5 DEF Sender
<1>4. sequence' \in Nat
  BY <1>2 DEF Sender, Pick, Retry, SendA, SendB, CommitLoad, CommitStore, TxState
<1>5. wire' \in [Net -> Seq(Number)] /\ sent' \in [Net -> SUBSET Number]
  <2>1. CASE Put("A") \/ Put("B")
    BY <2>1, PutTypes DEF Net
  <2>2. CASE UNCHANGED <<wire, sent>>
    BY <2>2 DEF TrafficTypes
  <2> QED
    BY <2>1, <2>2 DEF Sender, Pick, Retry, SendA, SendB, CommitLoad, CommitStore
<1> QED
  BY <1>1, <1>3, <1>4, <1>5 DEF TrafficTypes

\* The other processes move packets only from the head of a wire.
LEMMA TailTypes ==
    ASSUME TrafficTypes, NEW n \in Net, wire[n] # <<>>,
           wire' = [wire EXCEPT ![n] = Tail(@)]
    PROVE  /\ wire' \in [Net -> Seq(Number)]
           /\ wire'[n] = Tail(wire[n]) /\ \A k \in Net \ {n} : wire'[k] = wire[k]
  BY FirstOf DEF TrafficTypes

\* A packet in hand has a type.
LEMMA TakenPacket ==
    ASSUME TrafficTypes, NEW n \in Net, NEW zone \in Zones \cup {"none"}, wire[n] # <<>>
    PROVE  [seq |-> IF zone = "number" THEN Wild ELSE Head(wire[n])[2],
            era |-> Head(wire[n])[1], alien |-> zone = "number" \/ n # own,
            zone |-> zone] \in PacketState
<1>1. Head(wire[n])[1] \in {0, 1} /\ Head(wire[n])[2] \in Nat
  BY FirstOf DEF Number
<1>2. Wild \in Nat
  BY TrafficAssumption DEF Wild
<1>3. PICK s \in Nat : s = IF zone = "number" THEN Wild ELSE Head(wire[n])[2]
  BY <1>1, <1>2
<1>4. PICK b \in BOOLEAN : b = (zone = "number" \/ n # own)
  OBVIOUS
<1>5. PICK e \in {0, 1} : e = Head(wire[n])[1]
  BY <1>1
<1>6. [seq |-> s, era |-> e, alien |-> b, zone |-> zone] \in PacketState
  BY DEF PacketState
<1> QED
  BY <1>3, <1>4, <1>5, <1>6, Zenon

\* The RX worker keeps the types.
LEMMA WorkerTypes == TrafficTypes /\ InPhase /\ Worker => TrafficTypes'
<1> SUFFICES ASSUME TrafficTypes, InPhase, Worker PROVE TrafficTypes'
  OBVIOUS
<1>1. UNCHANGED <<unit, own, source, tx, sequence, sent, main>>
  BY DEF Worker, Take, TakeOther, Track, Flush, Leave, Final, rxFixed, envVars, txVars
<1>2. /\ rx_worker \in WorkerState /\ tracker \in TrackerState /\ spoiled \in SpoiledState
      /\ port \in Nat /\ lost \in Nat /\ odd \in Nat /\ FLUSH \in Nat
      /\ wire \in [Net -> Seq(Number)] /\ seen \in SUBSET Nat
  BY TrafficAssumption DEF TrafficTypes
<1>3. CASE Take
  <2>1. PICK n \in Net, zone \in Zones \cup {"none"} :
          /\ wire[n] # <<>> /\ wire' = [wire EXCEPT ![n] = Tail(@)]
          /\ odd' = odd + (IF zone # "none" THEN 1 ELSE 0)
          /\ rx_worker' = [rx_worker EXCEPT
                    !.pkt = [seq |-> IF zone = "number" THEN Wild ELSE Head(wire[n])[2],
                             era |-> Head(wire[n])[1], alien |-> zone = "number" \/ n # own,
                             zone |-> zone],
                    !.rx = @ + 1, !.pc = "track"]
          /\ LET hit == IF zone \in {"none", "last"} THEN 0 ELSE 1
             IN  spoiled' = [fresh |-> spoiled.fresh + hit, all |-> spoiled.all + hit]
    BY <1>3 DEF Take
  <2>2. PICK p \in PacketState : rx_worker' = [rx_worker EXCEPT !.pkt = p, !.rx = @ + 1, !.pc = "track"]
    BY <2>1, TakenPacket
  <2>3. rx_worker' \in WorkerState
    <3>1. PICK r \in Nat : r = rx_worker.rx + 1
      BY <1>2 DEF WorkerState
    <3>2. rx_worker' = [rx_worker EXCEPT !.pkt = p, !.rx = r, !.pc = "track"]
      BY <2>2, <3>1
    <3> QED
      BY <1>2, <3>2 DEF WorkerState
  <2>4. spoiled' \in SpoiledState /\ odd' \in Nat
    BY <1>2, <2>1 DEF SpoiledState
  <2>5. UNCHANGED <<tracker, port, lost, seen>>
    BY <1>3 DEF Take
  <2>6. wire' \in [Net -> Seq(Number)]
    BY <2>1, TailTypes
  <2> QED
    BY <1>1, <1>2, <2>3, <2>4, <2>5, <2>6 DEF TrafficTypes
<1>4. CASE Track
  <2>1. rx_worker.pkt.seq \in Nat /\ NoPacket \in PacketState
    BY <1>2 DEF WorkerState, PacketState, NoPacket
  <2>2. Gap(rx_worker.pkt.seq) \in Nat
    BY <1>2, <2>1 DEF Gap, TrackerState
  <2>3. Max({tracker.max_seq, rx_worker.pkt.seq}) \in Nat
    <3>1. PICK S \in SUBSET Nat : S = {tracker.max_seq, rx_worker.pkt.seq} /\ S # {}
      <4>1. tracker.max_seq \in Nat
        BY <1>2 DEF TrackerState
      <4> QED
        BY <2>1, <4>1
    <3>2. PICK b \in Nat : \A k \in S : k <= b
      <4>1. tracker.max_seq + rx_worker.pkt.seq \in Nat
        BY <1>2, <2>1 DEF TrackerState
      <4> QED
        BY <1>2, <2>1, <3>1, <4>1 DEF TrackerState
    <3> QED
      BY <3>1, <3>2, MaxIsGreatest
  <2>4. tracker' \in TrackerState
    BY <1>2, <1>4, <2>1, <2>3 DEF Track, Tracked, TrackerState
  <2>5. rx_worker' \in WorkerState
    <3>1. PICK l \in Nat : l = rx_worker.lost + Gap(rx_worker.pkt.seq)
      BY <1>2, <2>2 DEF WorkerState
    <3>2. PICK b \in Nat : b = rx_worker.bad + (IF Fails(rx_worker.pkt.zone) = {} THEN 0 ELSE 1)
      BY <1>2 DEF WorkerState
    <3>3. PICK q \in {"poll", "flush"} : q = AfterPacket(rx_worker.rx)
      BY DEF AfterPacket
    <3>4. rx_worker' = [rx_worker EXCEPT !.pc = q, !.pkt = NoPacket, !.lost = l, !.bad = b]
      BY <1>4, <3>1, <3>2, <3>3 DEF Track
    <3> QED
      BY <1>2, <2>1, <3>4 DEF WorkerState
  <2>6. seen' \in SUBSET Nat /\ UNCHANGED <<wire, port, lost, spoiled, odd>>
    BY <1>2, <1>4, <2>1 DEF Track
  <2> QED
    BY <1>1, <1>2, <2>4, <2>5, <2>6 DEF TrafficTypes
<1>5. CASE TakeOther
  <2>1. rx_worker' \in WorkerState /\ odd' \in Nat
    <3>1. PICK r \in Nat : r = rx_worker.rx + 1
      BY <1>2 DEF WorkerState
    <3>2. PICK q \in {"poll", "flush"} : q = AfterPacket(r)
      BY DEF AfterPacket
    <3>3. rx_worker' = [rx_worker EXCEPT !.rx = r, !.pc = q] /\ odd' = odd + 1
      BY <1>5, <3>1, <3>2 DEF TakeOther
    <3>4. rx_worker' \in WorkerState
      BY <1>2, <3>3 DEF WorkerState
    <3> QED
      BY <1>2, <3>3, <3>4
  <2>2. UNCHANGED <<wire, tracker, port, lost, seen, spoiled>>
    BY <1>5 DEF TakeOther
  <2> QED
    BY <1>1, <1>2, <2>1, <2>2 DEF TrafficTypes
<1>6. CASE Flush
  <2>1. rx_worker' \in WorkerState
    BY <1>2, <1>6 DEF Flush, WorkerState
  <2>2. port' \in Nat /\ lost' \in Nat
    BY <1>2, <1>6 DEF Flush, WorkerState
  <2>3. UNCHANGED <<wire, tracker, seen, spoiled, odd>>
    BY <1>6 DEF Flush
  <2> QED
    BY <1>1, <1>2, <2>1, <2>2, <2>3 DEF TrafficTypes
<1>7. CASE Leave
  <2>1. rx_worker' \in WorkerState
    BY <1>2, <1>7 DEF Leave, WorkerState
  <2>2. UNCHANGED <<wire, tracker, port, lost, seen, spoiled, odd>>
    BY <1>7 DEF Leave
  <2> QED
    BY <1>1, <1>2, <2>1, <2>2 DEF TrafficTypes
<1>8. CASE Final
  <2>1. rx_worker' \in WorkerState
    BY <1>2, <1>8 DEF Final, WorkerState
  <2>2. lost' \in Nat
    <3>1. Watermark \in Nat
      BY <1>2 DEF Watermark, TrackerState
    <3> QED
      BY <1>2, <1>8, <3>1 DEF Final, CmcFinal, VmcFinal
  <2>3. UNCHANGED <<wire, tracker, port, seen, spoiled, odd>>
    BY <1>8 DEF Final
  <2> QED
    BY <1>1, <1>2, <2>1, <2>2, <2>3 DEF TrafficTypes
<1> QED
  BY <1>3, <1>4, <1>5, <1>6, <1>7, <1>8 DEF Worker

\* Every step keeps the types.
LEMMA TypesKeep == TrafficTypes /\ InPhase /\ [FlowNext]_flowVars => TrafficTypes'
<1> SUFFICES ASSUME TrafficTypes, InPhase, [FlowNext]_flowVars PROVE TrafficTypes'
  OBVIOUS
<1>1. CASE Main
  <2>1. /\ UNCHANGED <<unit, own, source, tx, sent, wire, rx_worker, odd>>
        /\ tracker' \in {tracker, FreshTracker} /\ sequence' \in {sequence, 0}
        /\ port' \in {port, 0} /\ lost' \in {lost, 0} /\ seen' \in {seen, {}}
        /\ spoiled' \in {spoiled, [spoiled EXCEPT !.fresh = 0]}
    BY <1>1 DEF Main, BeginReset, ResetPort, ResetTracker, ResetNumbers, ResetUnit,
       envVars, txVars, rxVars
  <2>2. FreshTracker \in TrackerState /\ [spoiled EXCEPT !.fresh = 0] \in SpoiledState
    BY DEF FreshTracker, TrackerState, TrafficTypes, SpoiledState
  <2> QED
    BY <2>1, <2>2 DEF TrafficTypes
<1>2. CASE Stop \/ UNCHANGED flowVars
  BY <1>2 DEF Stop, flowVars, envVars, txVars, rxVars, TrafficTypes
<1>3. CASE \E n \in Net : Lose(n)
  <2>1. wire' \in [Net -> Seq(Number)] /\ odd' \in Nat
    BY <1>3, TailTypes DEF Lose, TrafficTypes
  <2>2. UNCHANGED <<unit, own, source, tx, sequence, sent, tracker, rx_worker, port, lost,
                    spoiled, seen>>
    BY <1>3 DEF Lose, envVars, txVars, rxVars
  <2> QED
    BY <2>1, <2>2 DEF TrafficTypes
<1> QED
  BY <1>1, <1>2, <1>3, SenderTypes, WorkerTypes DEF FlowNext

\* Every step keeps the phases.
LEMMA PhaseKeeps == TrafficTypes /\ InPhase /\ [FlowNext]_flowVars => InPhase'
<1> SUFFICES ASSUME TrafficTypes, InPhase, [FlowNext]_flowVars PROVE InPhase'
  OBVIOUS
<1>0. /\ Parts \in {3, 4} /\ (unit = "cmc" => Parts = 4)
      /\ (UNCHANGED unit => Parts' = Parts)
  BY DEF Parts
<1>1. CASE Main
  <2>1. main' = main + 1 /\ main <= Parts /\ UNCHANGED unit /\ main \in Nat
    BY <1>1, MainAdvances DEF InPhase
  <2>2. UNCHANGED <<stop, cut, rx_worker>>
    BY <1>1 DEF Main, BeginReset, ResetPort, ResetTracker, ResetNumbers, ResetUnit,
       rxVars
  <2>3. main = 0 => ~stop
    BY <1>1, PartIs, <1>0 DEF Main, BeginReset, ResetPort, ResetTracker, ResetNumbers, ResetUnit
  <2>4. raced' => NumbersDone'
    <3>1. NumbersDone => NumbersDone'
      BY <2>1 DEF NumbersDone
    <3>2. CASE UNCHANGED raced
      BY <3>1, <3>2 DEF InPhase
    <3>3. CASE ResetNumbers
      BY <2>1, <3>3, PartIs DEF ResetNumbers, NumbersDone
    <3> QED
      BY <1>1, <3>2, <3>3 DEF Main, BeginReset, ResetPort, ResetTracker, ResetUnit
  <2>5. ~(stop /\ ~cut)
    BY <1>0, <2>1, <2>3 DEF InPhase
  <2> QED
    BY <1>0, <2>1, <2>2, <2>4, <2>5 DEF InPhase
<1>2. CASE Stop
  <2>1. /\ UNCHANGED <<unit, main, raced, rx_worker>> /\ stop'
        /\ cut' = (main \in 1..Len(ResetOrder))
    BY <1>2 DEF Stop, rxVars, envVars
  <2>2. Len(ResetOrder) = Parts
    BY DoneIs
  <2>3. ~cut' => main \notin 1..Parts
    BY <2>1, <2>2
  <2>4. ~cut' => main' = 0 \/ main' = Parts' + 1
    BY <1>0, <2>1, <2>3 DEF InPhase
  <2>5. raced' => NumbersDone'
    BY <2>1 DEF InPhase, NumbersDone
  <2>6. main' \in 0..(Parts' + 1)
    BY <1>0, <2>1 DEF InPhase
  <2> QED
    BY <2>1, <2>4, <2>5, <2>6 DEF InPhase
<1>3. CASE Sender \/ \E n \in Net : Lose(n)
  <2>1. UNCHANGED <<unit, main, stop, cut, raced, rx_worker>>
    BY <1>3 DEF Sender, Pick, Retry, SendA, SendB, CommitLoad, CommitStore, Lose,
       txFixed, envVars, rxVars
  <2> QED
    BY <1>0, <2>1 DEF InPhase, NumbersDone
<1>4. CASE Worker
  <2>1. UNCHANGED <<unit, main, stop, cut, raced>>
    BY <1>4 DEF Worker, Take, TakeOther, Track, Flush, Leave, Final, rxFixed, envVars
  <2>2. rx_worker \in WorkerState
    BY DEF TrafficTypes
  <2>3. rx_worker'.leaving \/ rx_worker'.pc \in {"final", "exited"} => stop
    <3>1. CASE Take
      BY <2>2, <3>1 DEF Take, WorkerState, InPhase
    <3>2. CASE TakeOther \/ Track
      BY <2>2, <3>2 DEF TakeOther, Track, WorkerState, InPhase, AfterPacket
    <3>3. CASE Flush \/ Leave
      BY <2>2, <3>3 DEF Flush, Leave, WorkerState, InPhase
    <3>4. CASE Final
      BY <2>2, <3>4 DEF Final, WorkerState, InPhase
    <3> QED
      BY <1>4, <3>1, <3>2, <3>3, <3>4 DEF Worker
  <2> QED
    BY <1>0, <2>1, <2>3 DEF InPhase, NumbersDone
<1>5. CASE UNCHANGED flowVars
  BY <1>0, <1>5 DEF flowVars, envVars, rxVars, InPhase, NumbersDone
<1> QED
  BY <1>1, <1>2, <1>3, <1>4, <1>5 DEF FlowNext

-----------------------------------------------------------------------------
(* The numbering.                                                          *)

\* The numbering is in order at the start.
LEMMA NumberedInit == FlowInit => TwinFollows /\ Numbered
<1> SUFFICES ASSUME FlowInit PROVE TwinFollows /\ Numbered
  OBVIOUS
<1>1. /\ tx.pc = "tick" /\ sequence = 0 /\ ~repeated
      /\ \A n \in Net : sent[n] = {}
  BY DEF FlowInit
<1>2. sent["A"] = {} /\ sent["B"] = {}
  BY <1>1 DEF Net
<1> QED
  BY <1>1, <1>2 DEF TwinFollows, Numbered, Committed

\* What a packet on the wire changes of the numbering.
LEMMA PutIs ==
    ASSUME TrafficTypes, NEW n \in Net, Put(n)
    PROVE  /\ sent'[n] = sent[n] \cup {<<tx.era, tx.seq>>}
           /\ \A k \in Net \ {n} : sent'[k] = sent[k]
           /\ repeated' => repeated \/ <<tx.era, tx.seq>> \in sent[n]
  BY DEF Put, TrafficTypes

\* The twin keeps behind its packet whatever the reset does.
LEMMA TwinKeeps == TrafficTypes /\ TwinFollows /\ [FlowNext]_flowVars => TwinFollows'
<1> SUFFICES ASSUME TrafficTypes, TwinFollows, [FlowNext]_flowVars PROVE TwinFollows'
  OBVIOUS
<1>0. "A" \in Net /\ "B" \in Net /\ tx \in TxState
  BY DEF Net, TrafficTypes
<1>1. CASE SendA
  <2>1. /\ sent'["A"] = sent["A"] \cup {<<tx.era, tx.seq>>} /\ sent'["B"] = sent["B"]
        /\ tx'.era = tx.era /\ tx'.seq = tx.seq
    BY <1>0, <1>1, PutIs DEF SendA, TxState
  <2> QED
    BY <2>1 DEF TwinFollows
<1>2. CASE SendB
  <2>1. /\ sent'["B"] \subseteq sent["B"] \cup {<<tx.era, tx.seq>>}
        /\ sent'["A"] = sent["A"] /\ tx.pc = "twin" /\ tx'.pc = "load"
    BY <1>0, <1>2, PutIs DEF SendB, TxState
  <2> QED
    BY <2>1 DEF TwinFollows
<1>3. CASE Pick \/ Retry \/ CommitLoad \/ CommitStore
  <2>1. CASE Pick \/ CommitStore
    BY <2>1 DEF Pick, CommitStore, TwinFollows
  <2>2. CASE Retry \/ CommitLoad
    BY <1>0, <2>2 DEF Retry, CommitLoad, TxState, TwinFollows
  <2> QED
    BY <1>3, <2>1, <2>2
<1>4. CASE Main \/ Stop \/ (\E n \in Net : Lose(n)) \/ Worker \/ UNCHANGED flowVars
  <2>1. UNCHANGED <<tx, sent>>
    BY <1>4 DEF Main, BeginReset, ResetPort, ResetTracker, ResetNumbers, ResetUnit, Stop,
       Lose, Worker, Take, TakeOther, Track, Flush, Leave, Final, rxFixed, txVars, flowVars
  <2> QED
    BY <2>1 DEF TwinFollows
<1> QED
  BY <1>1, <1>2, <1>3, <1>4 DEF FlowNext, Sender

\* Only the reset can put the numbering out of order, by racing with a commit.
LEMMA NumberedKeeps ==
    TrafficTypes /\ InPhase /\ TwinFollows /\ (~raced => Numbered) /\ [FlowNext]_flowVars
        => (~raced' => Numbered')
<1> SUFFICES ASSUME TrafficTypes, InPhase, TwinFollows, ~raced => Numbered, [FlowNext]_flowVars,
                    ~raced'
             PROVE  Numbered'
  OBVIOUS
<1>0. /\ "A" \in Net /\ "B" \in Net /\ tx \in TxState /\ sequence \in Nat /\ Now \in {0, 1}
      /\ Era = Now /\ sent["A"] \subseteq Number /\ sent["B"] \subseteq Number
  BY DoneIs DEF Net, TrafficTypes, Now
<1>1. CASE ResetNumbers
  <2>1. /\ main = 3 /\ main' = 4 /\ unit = "cmc" /\ unit' = "cmc" /\ tx.pc = "tick"
        /\ sequence' = 0 /\ UNCHANGED <<tx, sent, repeated>>
    BY <1>1, PartIs DEF ResetNumbers, envVars
  <2>2. Now = 0 /\ Now' = 1 /\ ~NumbersDone
    BY <2>1 DEF Now, NumbersDone
  <2>3. Numbered
    BY <2>2 DEF InPhase
  <2>4. \A m \in sent'["A"] : m[1] < Now'
    <3>1. \A m \in sent["A"] : m[1] \in {0, 1}
      BY <1>0 DEF Number
    <3>2. \A m \in sent["A"] : m[1] < 0 \/ m[1] = 0
      BY <2>2, <2>3 DEF Numbered
    <3> QED
      BY <2>1, <2>2, <3>1, <3>2
  <2>5. \A k \in 0..sequence' : ~(k < sequence')
    BY <2>1
  <2>6. ~repeated' /\ \A m \in sent'["A"] : \A k \in 0..m[2] : <<m[1], k>> \in sent'["A"]
    BY <2>1, <2>3 DEF Numbered
  <2> QED
    BY <2>1, <2>4, <2>5, <2>6 DEF Numbered, Committed
<1>2. CASE Sender
  <2>1. Now' = Now /\ Numbered
    BY <1>2 DEF Sender, Pick, Retry, SendA, SendB, CommitLoad, CommitStore, txFixed,
       envVars, Now, NumbersDone
  <2>2. CASE Pick
    <3>1. /\ tx'.pc = "send" /\ tx'.seq = sequence /\ tx'.era = Now /\ tx.pc = "tick"
          /\ UNCHANGED <<sequence, sent, repeated>>
      BY <1>0, <2>2 DEF Pick
    <3> QED
      BY <2>1, <3>1 DEF Numbered, Committed
  <2>3. CASE Retry
    <3>1. tx'.pc = "tick" /\ tx.pc = "send" /\ UNCHANGED <<sequence, sent, repeated>>
      BY <1>0, <2>3 DEF Retry, TxState
    <3> QED
      BY <2>1, <3>1 DEF Numbered, Committed
  <2>4. CASE SendA
    <3> DEFINE number == <<Now, sequence>>
    <3>1. /\ tx.pc = "send" /\ tx'.pc \in {"twin", "load"} /\ tx'.seq = sequence
          /\ tx'.era = Now /\ sequence' = sequence /\ tx.seq = sequence /\ tx.era = Now
      BY <1>0, <2>1, <2>4 DEF SendA, TxState, Numbered
    <3>2. /\ sent'["A"] = sent["A"] \cup {number} /\ sent'["B"] = sent["B"]
          /\ repeated' => repeated \/ number \in sent["A"]
      BY <1>0, <2>4, <3>1, PutIs DEF SendA
    <3>3. number \notin sent["A"] /\ number \notin sent["B"]
      BY <1>0, <2>1, <3>1 DEF Numbered, Committed, TwinFollows
    <3>4. ASSUME NEW m \in sent'["A"], NEW k \in 0..m[2]
          PROVE  <<m[1], k>> \in sent'["A"]
      <4>1. CASE m \in sent["A"]
        BY <2>1, <3>2, <4>1 DEF Numbered
      <4>2. CASE m = number
        <5>1. k \in 0..sequence
          BY <4>2
        <5>2. k < sequence \/ k = sequence
          BY <1>0, <5>1
        <5>3. k < sequence => <<Now, k>> \in sent["A"]
          BY <2>1, <5>1 DEF Numbered
        <5> QED
          BY <3>2, <4>2, <5>2, <5>3
      <4> QED
        BY <3>2, <4>1, <4>2
    <3>5. ASSUME NEW k \in 0..sequence PROVE <<Now, k>> \in sent'["A"]
      <4>1. k < sequence \/ k = sequence
        BY <1>0
      <4>2. k < sequence => <<Now, k>> \in sent["A"]
        BY <2>1 DEF Numbered
      <4> QED
        BY <3>2, <4>1, <4>2
    <3>6. ASSUME NEW m \in sent'["A"]
          PROVE  m[1] < Now \/ (m[1] = Now /\ m[2] < sequence) \/ (m[1] = Now /\ m[2] = sequence)
      BY <1>0, <2>1, <3>2 DEF Numbered
    <3>7. ~repeated'
      BY <2>1, <3>2, <3>3 DEF Numbered
    <3> QED
      BY <2>1, <3>1, <3>2, <3>3, <3>4, <3>5, <3>6, <3>7 DEF Numbered, Committed
  <2>5. CASE SendB
    <3>1. /\ tx.pc = "twin" /\ tx'.pc = "load" /\ sequence' = sequence
          /\ sent'["A"] = sent["A"]
          /\ repeated' => repeated \/ <<tx.era, tx.seq>> \in sent["B"]
      BY <1>0, <2>5, PutIs DEF SendB, TxState
    <3> QED
      BY <2>1, <3>1 DEF Numbered, Committed
  <2>6. CASE CommitLoad
    <3>1. /\ tx.pc = "load" /\ tx'.pc = "store" /\ tx'.seq = sequence
          /\ UNCHANGED <<sequence, sent, repeated>>
      BY <1>0, <2>6 DEF CommitLoad, TxState
    <3> QED
      BY <2>1, <3>1 DEF Numbered, Committed
  <2>7. CASE CommitStore
    <3>1. /\ tx.pc = "store" /\ tx'.pc = "tick" /\ sequence' = sequence + 1
          /\ UNCHANGED <<sent, repeated>>
      BY <1>0, <2>1, <2>7 DEF CommitStore, Numbered
    <3>2. ASSUME NEW m \in sent["A"] PROVE m[1] < Now \/ (m[1] = Now /\ m[2] < sequence')
      <4>1. m[1] < Now \/ (m[1] = Now /\ m[2] < sequence) \/ (m[1] = Now /\ m[2] = sequence)
        BY <2>1 DEF Numbered
      <4>2. m[2] \in Nat
        BY <1>0 DEF Number
      <4> QED
        BY <1>0, <3>1, <4>1, <4>2
    <3>3. ASSUME NEW k \in 0..sequence', k < sequence' PROVE <<Now, k>> \in sent["A"]
      BY <1>0, <2>1, <3>1, <3>3 DEF Numbered, Committed
    <3> QED
      BY <2>1, <3>1, <3>2, <3>3 DEF Numbered, Committed
  <2> QED
    BY <1>2, <2>2, <2>3, <2>4, <2>5, <2>6, <2>7 DEF Sender
<1>3. CASE \/ BeginReset \/ ResetPort \/ ResetTracker \/ ResetUnit \/ Stop
           \/ (\E n \in Net : Lose(n)) \/ Worker \/ UNCHANGED flowVars
  <2>1. UNCHANGED <<tx, sequence, sent, repeated, raced, unit>>
    BY <1>3 DEF BeginReset, ResetPort, ResetTracker, ResetUnit, Stop,
       Lose, Worker, Take, TakeOther, Track, Flush, Leave, Final, rxFixed, envVars, txVars,
       flowVars
  <2>2. Now' = Now
    <3>1. CASE main' = main
      BY <2>1, <3>1 DEF Now, NumbersDone
    <3>2. CASE BeginReset \/ ResetPort \/ ResetTracker \/ ResetUnit
      <4>1. unit = "cmc" => Parts = 4
        BY DEF Parts
      <4> QED
        BY <2>1, <3>2, <4>1, PartIs DEF BeginReset, ResetPort, ResetTracker, ResetUnit, Now,
           NumbersDone
    <3> QED
      BY <1>3, <3>1, <3>2 DEF Stop, Lose, Worker, Take, TakeOther, Track, Flush, Leave, Final,
         rxFixed, flowVars
  <2> QED
    BY <2>1, <2>2 DEF Numbered, Committed
<1> QED
  BY <1>1, <1>2, <1>3 DEF FlowNext, Main

\* The numbering, said of the twins.
LEMMA NumberedIsAligned == TwinFollows /\ (~raced => Numbered) => TwinsAligned
  BY DEF TwinFollows, Numbered, TwinsAligned

-----------------------------------------------------------------------------
(* The order of the packets.                                               *)

\* A number that is sent is the last of its network.
LEMMA NewIsLast ==
    ASSUME TrafficTypes, TwinFollows, Numbered
    PROVE  /\ tx.pc = "send" => \A m \in sent["A"] : Before(m, <<tx.era, tx.seq>>)
           /\ tx.pc = "twin" => \A m \in sent["B"] : Before(m, <<tx.era, tx.seq>>)
<1>1. CASE tx.pc = "send"
  BY <1>1 DEF Numbered, Committed, Before
<1>2. CASE tx.pc = "twin"
  <2> SUFFICES ASSUME NEW m \in sent["B"] PROVE Before(m, <<tx.era, tx.seq>>)
    BY <1>2
  <2>1. m \in sent["A"] /\ m # <<tx.era, tx.seq>> /\ tx.seq = sequence /\ tx.era = Now
    BY <1>2 DEF TwinFollows, Numbered
  <2>2. m = <<m[1], m[2]>>
    BY <2>1 DEF TrafficTypes, Number, Net
  <2>3. m[1] < Now \/ (m[1] = Now /\ m[2] < sequence) \/ (m[1] = Now /\ m[2] = sequence)
    BY <2>1 DEF Numbered
  <2> QED
    BY <2>1, <2>2, <2>3 DEF Before
<1> QED
  BY <1>1, <1>2

\* What a step does to a network.
Unmoved(n) == wire'[n] = wire[n] /\ sent[n] \subseteq sent'[n]
Dropped(n) == wire[n] # <<>> /\ wire'[n] = Tail(wire[n]) /\ sent'[n] = sent[n]
Added(n) ==
    \E x \in Number :
        /\ wire'[n] = Append(wire[n], x) /\ x \in sent'[n] /\ sent[n] \subseteq sent'[n]
        /\ \A m \in sent[n] : Before(m, x)

\* A put adds the last number or nothing.
LEMMA PutMoves ==
    ASSUME TrafficTypes, NEW n \in Net, Put(n),
           \A m \in sent[n] : Before(m, <<tx.era, tx.seq>>)
    PROVE  \A k \in Net : Unmoved(k) \/ Added(k)
<1>1. <<tx.era, tx.seq>> \in Number
  BY DEF TrafficTypes, TxState, Number
<1>2. /\ sent'[n] = sent[n] \cup {<<tx.era, tx.seq>>}
      /\ \A k \in Net \ {n} : sent'[k] = sent[k]
  BY PutIs
<1>3. CASE wire' = [wire EXCEPT ![n] = Append(@, <<tx.era, tx.seq>>)]
  <2>1. /\ wire'[n] = Append(wire[n], <<tx.era, tx.seq>>)
        /\ \A k \in Net \ {n} : wire'[k] = wire[k]
    BY <1>3 DEF TrafficTypes
  <2> QED
    BY <1>1, <1>2, <2>1 DEF Unmoved, Added
<1>4. CASE wire' = wire
  BY <1>2, <1>4 DEF Unmoved
<1> QED
  BY <1>3, <1>4 DEF Put

\* Every step adds the last number, takes the first one, or leaves the wire alone.
LEMMA WireMoves ==
    ASSUME TrafficTypes, TwinFollows, Numbered, [FlowNext]_flowVars, NEW n \in Net
    PROVE  Unmoved(n) \/ Dropped(n) \/ Added(n)
<1>0. "A" \in Net /\ "B" \in Net
  BY DEF Net
<1>1. CASE SendA
  <2>1. \A m \in sent["A"] : Before(m, <<tx.era, tx.seq>>)
    BY <1>1, NewIsLast DEF SendA
  <2>2. Put("A")
    BY <1>1 DEF SendA
  <2> QED
    BY <1>0, <2>1, <2>2, PutMoves
<1>2. CASE SendB
  <2>1. \A m \in sent["B"] : Before(m, <<tx.era, tx.seq>>)
    BY <1>2, NewIsLast DEF SendB
  <2>2. CASE Put("B")
    BY <1>0, <2>1, <2>2, PutMoves
  <2> QED
    BY <1>2, <2>2 DEF SendB, Unmoved
<1>3. CASE Take \/ \E k \in Net : Lose(k)
  <2>1. PICK k \in Net : wire[k] # <<>> /\ wire' = [wire EXCEPT ![k] = Tail(@)]
    BY <1>3 DEF Take, Lose
  <2>2. sent' = sent
    BY <1>3 DEF Take, Lose, rxFixed, txVars
  <2>3. wire'[k] = Tail(wire[k]) /\ \A i \in Net \ {k} : wire'[i] = wire[i]
    BY <2>1, TailTypes
  <2> QED
    BY <2>1, <2>2, <2>3 DEF Unmoved, Dropped
<1>4. CASE \/ Main \/ Stop \/ Pick \/ Retry \/ CommitLoad \/ CommitStore
           \/ TakeOther \/ Track \/ Flush \/ Leave \/ Final \/ UNCHANGED flowVars
  <2>1. UNCHANGED <<wire, sent>>
    BY <1>4 DEF Main, BeginReset, ResetPort, ResetTracker, ResetNumbers, ResetUnit, Stop,
       Pick, Retry, CommitLoad, CommitStore, TakeOther, Track, Flush, Leave, Final, rxFixed,
       txVars, flowVars
  <2> QED
    BY <2>1 DEF Unmoved
<1> QED
  BY <1>1, <1>2, <1>3, <1>4 DEF FlowNext, Sender, Worker

\* A number that comes first still does.
LEMMA FirstStays ==
    ASSUME TrafficTypes, NEW n \in Net, Unmoved(n) \/ Dropped(n) \/ Added(n),
           NEW p, First(p, n)
    PROVE  p \in sent'[n] /\ \A i \in 1..Len(wire'[n]) : Before(p, wire'[n][i])
<1>1. CASE Unmoved(n)
  BY <1>1 DEF Unmoved, First
<1>2. CASE Dropped(n)
  <2>1. \A i \in 1..Len(Tail(wire[n])) :
           Tail(wire[n])[i] = wire[n][i + 1] /\ i + 1 \in 1..Len(wire[n])
    BY <1>2, FirstOf DEF Dropped
  <2>2. PICK t : t = Tail(wire[n])
    OBVIOUS
  <2>3. \A i \in 1..Len(t) : Before(p, t[i])
    BY <2>1, <2>2 DEF First
  <2> QED
    BY <1>2, <2>2, <2>3 DEF Dropped, First
<1>3. CASE Added(n)
  <2>1. PICK x \in Number :
        /\ wire'[n] = Append(wire[n], x) /\ x \in sent'[n] /\ sent[n] \subseteq sent'[n]
        /\ \A m \in sent[n] : Before(m, x)
    BY <1>3 DEF Added
  <2>2. wire[n] \in Seq(Number) /\ Len(wire[n]) \in Nat
    BY LenProperties DEF TrafficTypes
  <2>3. /\ Len(wire'[n]) = Len(wire[n]) + 1 /\ wire'[n][Len(wire[n]) + 1] = x
        /\ \A i \in 1..Len(wire[n]) : wire'[n][i] = wire[n][i]
    BY <2>1, <2>2, AppendProperties
  <2>4. \A i \in 1..Len(wire'[n]) : Before(p, wire'[n][i])
    <3> TAKE i \in 1..Len(wire'[n])
    <3>1. i \in 1..Len(wire[n]) \/ i = Len(wire[n]) + 1
      BY <2>2, <2>3
    <3>2. CASE i \in 1..Len(wire[n])
      BY <2>3, <3>2 DEF First
    <3>3. CASE i = Len(wire[n]) + 1
      BY <2>1, <2>3, <3>3 DEF First
    <3> QED
      BY <3>1, <3>2, <3>3
  <2> QED
    BY <2>1, <2>4 DEF First
<1> QED
  BY <1>1, <1>2, <1>3

\* The order holds at the start.
LEMMA OrderInit == FlowInit => InOrder /\ HandFirst /\ SeenFirst
<1> SUFFICES ASSUME FlowInit PROVE InOrder /\ HandFirst /\ SeenFirst
  OBVIOUS
<1>1. /\ wire = [n \in Net |-> <<>>] /\ seen = {} /\ rx_worker.pc = "poll"
  BY DEF FlowInit, IdleWorker
<1>2. \A n \in Net : Len(wire[n]) = 0
  BY <1>1
<1> QED
  BY <1>1, <1>2 DEF InOrder, HandFirst, SeenFirst, Held

\* Every network keeps its order.
LEMMA OrderKeeps ==
    TrafficTypes /\ TwinFollows /\ Numbered /\ InOrder /\ [FlowNext]_flowVars => InOrder'
<1> SUFFICES ASSUME TrafficTypes, TwinFollows, Numbered, InOrder, [FlowNext]_flowVars, NEW n \in Net,
                    NEW i \in 1..Len(wire'[n])
             PROVE  /\ wire'[n][i] \in sent'[n]
                    /\ \A j \in 1..Len(wire'[n]) : i < j => Before(wire'[n][i], wire'[n][j])
  BY DEF InOrder
<1>1. CASE Unmoved(n)
  BY <1>1 DEF Unmoved, InOrder
<1>2. CASE Dropped(n)
  <2>1. \A k \in 1..Len(Tail(wire[n])) :
           Tail(wire[n])[k] = wire[n][k + 1] /\ k + 1 \in 1..Len(wire[n])
    BY <1>2, FirstOf DEF Dropped
  <2>2. \A k \in 1..Len(wire'[n]) : wire'[n][k] = wire[n][k + 1] /\ k + 1 \in 1..Len(wire[n])
    BY <1>2, <2>1 DEF Dropped
  <2>3. wire'[n][i] = wire[n][i + 1] /\ i + 1 \in 1..Len(wire[n])
    BY <2>2
  <2>4. ASSUME NEW j \in 1..Len(wire'[n]), i < j PROVE Before(wire'[n][i], wire'[n][j])
    <3>1. wire'[n][j] = wire[n][j + 1] /\ j + 1 \in 1..Len(wire[n]) /\ i + 1 < j + 1
      BY <2>2, <2>4
    <3> QED
      BY <2>3, <3>1 DEF InOrder
  <2>5. wire[n][i + 1] \in sent[n]
    BY <2>3 DEF InOrder
  <2> QED
    BY <1>2, <2>3, <2>4, <2>5 DEF Dropped
<1>3. CASE Added(n)
  <2>1. PICK x \in Number :
        /\ wire'[n] = Append(wire[n], x) /\ x \in sent'[n] /\ sent[n] \subseteq sent'[n]
        /\ \A m \in sent[n] : Before(m, x)
    BY <1>3 DEF Added
  <2>2. wire[n] \in Seq(Number) /\ Len(wire[n]) \in Nat
    BY LenProperties DEF TrafficTypes
  <2>3. /\ Len(wire'[n]) = Len(wire[n]) + 1 /\ wire'[n][Len(wire[n]) + 1] = x
        /\ \A k \in 1..Len(wire[n]) : wire'[n][k] = wire[n][k]
    BY <2>1, <2>2, AppendProperties
  <2>4. \A k \in 1..Len(wire'[n]) : k \in 1..Len(wire[n]) \/ k = Len(wire[n]) + 1
    BY <2>2, <2>3
  <2>5. wire'[n][i] \in sent'[n]
    BY <2>1, <2>3, <2>4 DEF InOrder
  <2>6. ASSUME NEW j \in 1..Len(wire'[n]), i < j PROVE Before(wire'[n][i], wire'[n][j])
    <3>1. i \in 1..Len(wire[n]) /\ wire'[n][i] = wire[n][i]
      BY <2>2, <2>3, <2>4, <2>6
    <3>2. CASE j \in 1..Len(wire[n])
      BY <2>3, <2>6, <3>1, <3>2 DEF InOrder
    <3>3. CASE j = Len(wire[n]) + 1
      BY <2>1, <2>3, <3>1, <3>3 DEF InOrder
    <3> QED
      BY <2>4, <3>2, <3>3
  <2> QED
    BY <2>5, <2>6
<1> QED
  BY <1>1, <1>2, <1>3, WireMoves

\* The environment of a run is fixed.
LEMMA EnvStays == [FlowNext]_flowVars => UNCHANGED <<unit, own, pure, source>>
  BY DEF FlowNext, Main, BeginReset, ResetPort, ResetTracker, ResetNumbers, ResetUnit, Stop,
     Sender, Pick, Retry, SendA, SendB, CommitLoad, CommitStore, Lose, Worker, Take,
     TakeOther, Track, Flush, Leave, Final, rxFixed, txFixed, envVars, flowVars

\* A step that is not the worker's leaves its packet alone.
LEMMA WorkerRests ==
    ASSUME [FlowNext]_flowVars, ~Worker
    PROVE  UNCHANGED <<rx_worker, foul>> /\ (seen' = seen \/ (ResetTracker /\ seen' = {}))
  BY DEF FlowNext, Main, BeginReset, ResetPort, ResetTracker, ResetNumbers, ResetUnit, Stop,
     Sender, Pick, Retry, SendA, SendB, CommitLoad, CommitStore, Lose, txFixed, rxVars, flowVars

\* The packet that is taken was the first of its network.
LEMMA TakenIsFirst ==
    ASSUME TrafficTypes, InOrder, Take, Held'
    PROVE  /\ wire[own] # <<>> /\ Hand' = wire[own][1]
           /\ First(Hand, own)'
<1>1. PICK n \in Net, zone \in Zones \cup {"none"} :
        /\ wire[n] # <<>> /\ wire' = [wire EXCEPT ![n] = Tail(@)]
        /\ rx_worker' = [rx_worker EXCEPT
                  !.pkt = [seq |-> IF zone = "number" THEN Wild ELSE Head(wire[n])[2],
                           era |-> Head(wire[n])[1], alien |-> zone = "number" \/ n # own,
                           zone |-> zone],
                  !.rx = @ + 1, !.pc = "track"]
  BY DEF Take
<1>2. rx_worker'.pkt = [seq |-> IF zone = "number" THEN Wild ELSE Head(wire[n])[2],
                     era |-> Head(wire[n])[1], alien |-> zone = "number" \/ n # own,
                     zone |-> zone]
  BY <1>1 DEF TrafficTypes, WorkerState
<1>3. zone # "number" /\ n = own
  <2>1. rx_worker'.pkt.alien = (zone = "number" \/ n # own)
    BY <1>2
  <2>2. ~rx_worker'.pkt.alien
    BY DEF Held
  <2> QED
    BY <2>1, <2>2, Zenon
<1>4. Hand' = <<Head(wire[n])[1], Head(wire[n])[2]>>
  BY <1>2, <1>3 DEF Hand
<1>5. /\ Head(wire[n]) \in Number /\ Head(wire[n]) = wire[n][1] /\ 1 \in 1..Len(wire[n])
      /\ \A i \in 1..Len(Tail(wire[n])) :
            Tail(wire[n])[i] = wire[n][i + 1] /\ i + 1 \in 1..Len(wire[n])
      /\ Len(wire[n]) \in Nat \ {0}
  BY <1>1, FirstOf
<1>6. Hand' = wire[n][1]
  BY <1>4, <1>5 DEF Number
<1>7. wire[n][1] \in sent[n]
  BY <1>5 DEF InOrder
<1>8. ASSUME NEW i \in 1..Len(Tail(wire[n])) PROVE Before(wire[n][1], Tail(wire[n])[i])
  <2>1. Tail(wire[n])[i] = wire[n][i + 1] /\ i + 1 \in 1..Len(wire[n]) /\ 1 < i + 1
    BY <1>5
  <2> QED
    BY <1>5, <2>1 DEF InOrder
<1>9. wire'[n] = Tail(wire[n])
  BY <1>1, TailTypes
<1>10. sent' = sent /\ own' = own
  BY DEF Take, rxFixed, txVars, envVars
<1>11. \A i \in 1..Len(wire'[n]) : Before(wire[n][1], wire'[n][i])
  BY <1>8, <1>9
<1> QED
  BY <1>1, <1>3, <1>6, <1>7, <1>10, <1>11 DEF First

\* The packet in hand stays before those on their way.
LEMMA HandKeeps ==
    TrafficTypes /\ TwinFollows /\ Numbered /\ InOrder /\ HandFirst /\ [FlowNext]_flowVars
        => HandFirst'
<1> SUFFICES ASSUME TrafficTypes, TwinFollows, Numbered, InOrder, HandFirst, [FlowNext]_flowVars,
                    Held'
             PROVE  First(Hand, own)'
  BY DEF HandFirst
<1>1. CASE Take
  BY <1>1, TakenIsFirst
<1>2. CASE TakeOther \/ Track \/ Flush \/ Leave \/ Final
  <2>1. rx_worker'.pc # "track"
    BY <1>2 DEF TakeOther, Track, Flush, Leave, Final, AfterPacket, TrafficTypes, WorkerState
  <2> QED
    BY <2>1 DEF Held
<1>3. CASE ~Worker
  <2>1. rx_worker' = rx_worker /\ own' = own
    BY <1>3, WorkerRests, EnvStays
  <2>2. Held /\ Hand' = Hand /\ own \in Net
    BY <2>1 DEF Held, Hand, TrafficTypes
  <2>3. First(Hand, own) /\ (Unmoved(own) \/ Dropped(own) \/ Added(own))
    BY <2>2, WireMoves DEF HandFirst
  <2>4. Hand \in sent'[own] /\ \A i \in 1..Len(wire'[own]) : Before(Hand, wire'[own][i])
    BY <2>2, <2>3, FirstStays
  <2> QED
    BY <2>1, <2>2, <2>4 DEF First
<1> QED
  BY <1>1, <1>2, <1>3 DEF Worker

\* What is tracked and is not foul is of the era that is tracked.
LEMMA HandIsTracked ==
    ASSUME TrafficTypes, InPhase, Numbered, TwinFollows, HandFirst, Track, ~foul'
    PROVE  Held /\ First(<<TrackedEra, rx_worker.pkt.seq>>, own) /\ Hand = <<TrackedEra, rx_worker.pkt.seq>>
<1>1. Held /\ ~(rx_worker.pkt.era = 0 /\ Done("tracker"))
  BY DEF Track, Held
<1>2. Hand \in sent["A"] /\ rx_worker.pkt.era \in {0, 1}
  BY <1>1 DEF HandFirst, First, TwinFollows, TrafficTypes, Net, WorkerState, PacketState
<1>3. Hand[1] < Now \/ Hand[1] = Now
  BY <1>2 DEF Numbered
<1>4. rx_worker.pkt.era <= Now
  BY <1>2, <1>3 DEF Hand, Now
<1>5. rx_worker.pkt.era = TrackedEra
  <2>1. CASE TrackerDone
    BY <1>1, <1>2, <2>1, DoneIs DEF TrackedEra
  <2>2. CASE ~TrackerDone
    <3>1. Now = 0
      BY <2>2, DoneIs DEF TrackerDone, Now, NumbersDone
    <3> QED
      BY <1>2, <1>4, <2>2, <3>1 DEF TrackedEra
  <2> QED
    BY <2>1, <2>2
<1> QED
  BY <1>1, <1>5 DEF HandFirst, Hand

\* What was tracked stays before what is in hand and on its way.
LEMMA SeenKeeps ==
    /\ TrafficTypes /\ InPhase /\ TwinFollows /\ Numbered /\ InOrder /\ HandFirst
    /\ SeenFirst /\ [FlowNext]_flowVars /\ ~foul'
    => SeenFirst'
<1> SUFFICES ASSUME TrafficTypes, InPhase, TwinFollows, Numbered, InOrder, HandFirst,
                    SeenFirst, [FlowNext]_flowVars, ~foul', NEW q \in seen'
             PROVE  (First(<<TrackedEra, q>>, own))' /\
                    (Held' => Before(<<TrackedEra', q>>, Hand'))
  BY DEF SeenFirst
<1>0. own' = own /\ own \in Net /\ unit' = unit
  BY EnvStays DEF TrafficTypes
<1>1. CASE ResetTracker
  BY <1>1 DEF ResetTracker
<1>2. CASE ~ResetTracker
  <2>1. TrackedEra' = TrackedEra
    <3>1. CASE main' = main
      BY <3>1 DEF TrackedEra, TrackerDone
    <3>2. CASE BeginReset \/ ResetPort \/ ResetNumbers \/ ResetUnit
      <4>1. Parts \in {3, 4} /\ (unit = "cmc" => Parts = 4)
        BY DEF Parts
      <4> QED
        BY <3>2, <4>1, PartIs DEF BeginReset, ResetPort, ResetNumbers, ResetUnit, TrackedEra,
           TrackerDone
    <3> QED
      BY <1>2, <3>1, <3>2 DEF FlowNext, Main, Stop, Sender, Pick, Retry, SendA, SendB, CommitLoad,
         CommitStore, Lose, Worker, Take, TakeOther, Track, Flush, Leave, Final, rxFixed,
         txFixed, flowVars
  <2>2. CASE q \in seen
    <3> DEFINE p == <<TrackedEra, q>>
    <3>1. First(p, own) /\ (Held => Before(p, Hand))
      BY <2>2 DEF SeenFirst
    <3> HIDE DEF p
    <3>2. p \in sent'[own] /\ \A i \in 1..Len(wire'[own]) : Before(p, wire'[own][i])
      BY <1>0, <3>1, FirstStays, WireMoves
    <3>3. Held' => Before(p, Hand')
      <4>1. CASE Take
        <5>1. Held' => /\ wire[own] # <<>> /\ Hand' = wire[own][1]
          BY <4>1, TakenIsFirst
        <5>2. Held' => 1 \in 1..Len(wire[own])
          BY <1>0, <5>1, FirstOf
        <5> QED
          BY <3>1, <5>1, <5>2 DEF First
      <4>2. CASE TakeOther \/ Track \/ Flush \/ Leave \/ Final
        <5>1. rx_worker'.pc # "track"
          BY <4>2 DEF TakeOther, Track, Flush, Leave, Final, AfterPacket, TrafficTypes,
             WorkerState
        <5> QED
          BY <5>1 DEF Held
      <4>3. CASE ~Worker
        <5>1. Held' = Held /\ Hand' = Hand
          BY <4>3, WorkerRests DEF Held, Hand
        <5> QED
          BY <3>1, <5>1
      <4> QED
        BY <4>1, <4>2, <4>3 DEF Worker
    <3>4. p = <<TrackedEra', q>>
      BY <2>1 DEF p
    <3> QED
      BY <1>0, <3>2, <3>3, <3>4 DEF First
  <2>3. CASE q \notin seen
    <3>1. Track /\ q = rx_worker.pkt.seq
      <4>1. Worker
        BY <1>2, <2>3, WorkerRests
      <4> QED
        BY <2>3, <4>1 DEF Worker, Take, TakeOther, Track, Flush, Leave, Final
    <3>2. First(<<TrackedEra, q>>, own)
      BY <3>1, HandIsTracked
    <3>3. PICK p : p = <<TrackedEra, q>>
      OBVIOUS
    <3>4. p \in sent'[own] /\ \A i \in 1..Len(wire'[own]) : Before(p, wire'[own][i])
      BY <1>0, <3>2, <3>3, FirstStays, WireMoves
    <3>5. ~Held'
      BY <3>1 DEF Track, Held, AfterPacket, TrafficTypes, WorkerState
    <3> QED
      BY <1>0, <2>1, <3>3, <3>4, <3>5 DEF First
  <2> QED
    BY <2>2, <2>3
<1> QED
  BY <1>1, <1>2

-----------------------------------------------------------------------------
(* The tracker and what was seen.                                          *)

\* What is tracked is higher than all that was tracked.
LEMMA SeqIsHigher ==
    ASSUME TrafficTypes, InPhase, Numbered, TwinFollows, HandFirst, SeenFirst, Track, ~foul'
    PROVE  \A q \in seen : q < rx_worker.pkt.seq
<1>1. Held /\ Hand = <<TrackedEra, rx_worker.pkt.seq>>
  BY HandIsTracked
<1> TAKE q \in seen
<1>2. Before(<<TrackedEra, q>>, <<TrackedEra, rx_worker.pkt.seq>>)
  BY <1>1 DEF SeenFirst
<1>3. TrackedEra \in {0, 1}
  BY DEF TrackedEra
<1> QED
  BY <1>2, <1>3 DEF Before

\* The tracker after a number that is higher than all that was tracked.
LEMMA TrackedIs ==
    ASSUME TrafficTypes, TrackerCounts, Track, \A q \in seen : q < rx_worker.pkt.seq
    PROVE  /\ rx_worker.pkt.seq \in Nat /\ rx_worker.pkt.seq \notin seen
           /\ seen' = seen \cup {rx_worker.pkt.seq}
           /\ tracker' = [max_seq |-> rx_worker.pkt.seq, pkt_count |-> tracker.pkt_count + 1,
                          expected_seq |-> rx_worker.pkt.seq + 1, initialized |-> 1]
           /\ tracker.expected_seq + Gap(rx_worker.pkt.seq) <= rx_worker.pkt.seq
<1> DEFINE seq == rx_worker.pkt.seq
<1>1. seq \in Nat
  BY DEF TrafficTypes, WorkerState, PacketState
<1>2. tracker.max_seq \in Nat /\ tracker.expected_seq \in Nat
  BY DEF TrafficTypes, TrackerState
<1>3. tracker.max_seq <= seq
  BY <1>1, <1>2 DEF TrackerCounts, FreshTracker
<1>4. Max({tracker.max_seq, seq}) = seq
  <2>1. {tracker.max_seq, seq} \in SUBSET Nat
    BY <1>1, <1>2
  <2>2. seq \in {tracker.max_seq, seq} /\ \A k \in {tracker.max_seq, seq} : k <= seq
    BY <1>1, <1>3
  <2> QED
    BY <2>1, <2>2, MaxIs
<1>5. tracker.initialized = 0 \/ seq >= tracker.expected_seq
  BY <1>1, <1>2 DEF TrackerCounts, FreshTracker
<1>6. tracker.expected_seq + Gap(seq) <= seq
  <2>1. tracker.expected_seq <= seq
    BY <1>1, <1>2 DEF TrackerCounts, FreshTracker
  <2>2. CASE tracker.initialized = 1 /\ seq > tracker.expected_seq
    BY <1>1, <1>2, <2>2 DEF Gap
  <2>3. CASE ~(tracker.initialized = 1 /\ seq > tracker.expected_seq)
    BY <1>1, <1>2, <2>1, <2>3 DEF Gap
  <2> QED
    BY <2>2, <2>3
<1>7. tracker' = Tracked(seq) /\ seen' = seen \cup {seq}
  BY DEF Track
<1>8. Tracked(seq) = [max_seq |-> seq, pkt_count |-> tracker.pkt_count + 1,
                      expected_seq |-> seq + 1, initialized |-> 1]
  BY <1>4, <1>5 DEF Tracked
<1>9. seq \notin seen
  BY <1>1
<1> QED
  BY <1>1, <1>6, <1>7, <1>8, <1>9

\* The steps that touch the tracker.
LEMMA TrackerRests ==
    ASSUME [FlowNext]_flowVars, ~Track, ~ResetTracker
    PROVE  UNCHANGED <<tracker, seen>>
  BY DEF FlowNext, Main, BeginReset, ResetPort, ResetTracker, ResetNumbers, ResetUnit, Stop,
     Sender, Pick, Retry, SendA, SendB, CommitLoad, CommitStore, Lose, Worker, Take,
     TakeOther, Flush, Leave, Final, txFixed, rxVars, flowVars

\* At the start the tracker is fresh.
LEMMA CountsInit == FlowInit => TrackerCounts /\ RealTime
<1> SUFFICES ASSUME FlowInit PROVE TrackerCounts /\ RealTime
  OBVIOUS
<1>1. seen = {} /\ tracker = FreshTracker /\ rx_worker = IdleWorker /\ lost = 0
  BY DEF FlowInit
<1>2. IsFiniteSet({}) /\ Cardinality({}) = 0
  BY FS_EmptySet
<1> QED
  BY <1>1, <1>2 DEF TrackerCounts, RealTime, FreshTracker, IdleWorker

\* The tracker keeps saying what was seen.
LEMMA CountsKeep ==
    /\ TrafficTypes /\ InPhase /\ TwinFollows /\ Numbered /\ HandFirst /\ SeenFirst
    /\ TrackerCounts /\ [FlowNext]_flowVars /\ ~foul'
    => TrackerCounts'
<1> SUFFICES ASSUME TrafficTypes, InPhase, TwinFollows, Numbered, HandFirst, SeenFirst,
                    TrackerCounts, [FlowNext]_flowVars, ~foul'
             PROVE  TrackerCounts'
  OBVIOUS
<1>1. CASE Track
  <2> DEFINE seq == rx_worker.pkt.seq
  <2>1. /\ seq \in Nat /\ seq \notin seen /\ seen' = seen \cup {seq}
        /\ tracker' = [max_seq |-> seq, pkt_count |-> tracker.pkt_count + 1,
                       expected_seq |-> seq + 1, initialized |-> 1]
        /\ \A q \in seen : q < seq
    BY <1>1, SeqIsHigher, TrackedIs
  <2> HIDE DEF seq
  <2>2. IsFiniteSet(seen') /\ Cardinality(seen') = Cardinality(seen) + 1
    BY <2>1, FS_AddElement DEF TrackerCounts
  <2>3. \A q \in seen' : q <= seq
    BY <2>1 DEF TrafficTypes
  <2>4. tracker.pkt_count = Cardinality(seen)
    BY DEF TrackerCounts
  <2> QED
    BY <2>1, <2>2, <2>3, <2>4 DEF TrackerCounts
<1>2. CASE ResetTracker
  <2>1. IsFiniteSet({}) /\ Cardinality({}) = 0
    BY FS_EmptySet
  <2> QED
    BY <1>2, <2>1 DEF ResetTracker, TrackerCounts, FreshTracker
<1>3. CASE ~Track /\ ~ResetTracker
  BY <1>3, TrackerRests DEF TrackerCounts
<1> QED
  BY <1>1, <1>2, <1>3

\* What is counted in real time stays below the numbers that were not tracked.
LEMMA RealTimeKeeps ==
    /\ TrafficTypes /\ InPhase /\ TwinFollows /\ Numbered /\ HandFirst /\ SeenFirst
    /\ TrackerCounts /\ RealTime /\ [FlowNext]_flowVars /\ ~foul' /\ rx_worker'.pc # "exited"
    => RealTime'
<1> SUFFICES ASSUME TrafficTypes, InPhase, TwinFollows, Numbered, HandFirst, SeenFirst,
                    TrackerCounts, RealTime, [FlowNext]_flowVars, ~foul', rx_worker'.pc # "exited",
                    unit' = "vmc", main' = 0
             PROVE  lost' + rx_worker'.lost + tracker'.pkt_count <= tracker'.expected_seq
  BY DEF RealTime
<1>1. unit = "vmc" /\ rx_worker \in WorkerState /\ tracker \in TrackerState /\ lost \in Nat
  BY EnvStays DEF TrafficTypes
<1>2. main = 0 /\ ~Main
  <2>1. ~Main
    BY MainAdvances
  <2>2. main' = main
    BY <2>1 DEF FlowNext, Stop, Sender, Pick, Retry, SendA, SendB, CommitLoad, CommitStore, Lose,
       Worker, Take, TakeOther, Track, Flush, Leave, Final, rxFixed, txFixed, flowVars
  <2> QED
    BY <2>1, <2>2
<1>3. lost + rx_worker.lost + tracker.pkt_count <= tracker.expected_seq
  BY <1>1, <1>2 DEF RealTime
<1>4. rx_worker.lost \in Nat /\ tracker.pkt_count \in Nat /\ tracker.expected_seq \in Nat
  BY <1>1 DEF WorkerState, TrackerState
<1>5. CASE Track
  <2> DEFINE seq == rx_worker.pkt.seq
  <2>1. /\ seq \in Nat
        /\ tracker' = [max_seq |-> seq, pkt_count |-> tracker.pkt_count + 1,
                       expected_seq |-> seq + 1, initialized |-> 1]
        /\ tracker.expected_seq + Gap(seq) <= seq
    BY <1>5, SeqIsHigher, TrackedIs
  <2>2. rx_worker'.lost = rx_worker.lost + Gap(seq) /\ lost' = lost
    BY <1>1, <1>5 DEF Track, WorkerState
  <2>3. Gap(seq) \in Nat
    BY <1>4, <2>1 DEF Gap
  <2> HIDE DEF seq
  <2>4. tracker'.pkt_count = tracker.pkt_count + 1 /\ tracker'.expected_seq = seq + 1
    BY <2>1
  <2> QED
    BY <1>1, <1>3, <1>4, <2>1, <2>2, <2>3, <2>4
<1>6. CASE Flush
  <2>1. lost' = lost + rx_worker.lost /\ rx_worker'.lost = 0 /\ tracker' = tracker
    BY <1>1, <1>6 DEF Flush, WorkerState
  <2> QED
    BY <1>1, <1>3, <1>4, <2>1
<1>7. CASE Take \/ TakeOther \/ Leave
  <2>1. lost' = lost /\ rx_worker'.lost = rx_worker.lost /\ tracker' = tracker
    BY <1>1, <1>7 DEF Take, TakeOther, Leave, WorkerState
  <2> QED
    BY <1>3, <2>1
<1>8. CASE ~Worker
  <2>1. UNCHANGED <<lost, rx_worker, tracker>>
    BY <1>2, <1>8 DEF FlowNext, Stop, Sender, Pick, Retry, SendA, SendB, CommitLoad, CommitStore,
       Lose, txFixed, rxVars, flowVars
  <2> QED
    BY <1>3, <2>1
<1>9. ~Final
  BY <1>1 DEF Final, WorkerState
<1> QED
  BY <1>5, <1>6, <1>7, <1>8, <1>9 DEF Worker

-----------------------------------------------------------------------------
(* What is reported at the end.                                            *)

\* The packets that are missing, by the tracker.
LEMMA MissingIs ==
    ASSUME TrafficTypes, TrackerCounts
    PROVE  /\ Missing \in Nat /\ Watermark = Missing
           /\ tracker.expected_seq = tracker.pkt_count + Missing
<1>1. CASE seen = {}
  <2>1. tracker = FreshTracker
    BY <1>1 DEF TrackerCounts
  <2> QED
    BY <1>1, <2>1 DEF Missing, Watermark, FreshTracker
<1>2. CASE seen # {}
  <2> DEFINE m == tracker.max_seq
  <2>1. /\ tracker.initialized = 1 /\ m \in seen /\ \A q \in seen : q <= m
        /\ tracker.expected_seq = m + 1 /\ m \in Nat
        /\ tracker.pkt_count = Cardinality(seen) /\ IsFiniteSet(seen)
    BY <1>2 DEF TrackerCounts, TrafficTypes, TrackerState
  <2> HIDE DEF m
  <2>2. Max(seen) = m
    BY <2>1, MaxIs DEF TrafficTypes
  <2>3. seen \subseteq 0..m /\ seen = (0..m) \cap seen
    <3>1. seen \in SUBSET Nat
      BY DEF TrafficTypes
    <3>2. seen \subseteq 0..m
      BY <2>1, <3>1
    <3> QED
      BY <3>2
  <2> DEFINE B == 0..m
  <2>4. IsFiniteSet(B) /\ Cardinality(B) = m + 1
    BY <2>1, FS_Interval
  <2>5. seen \subseteq B /\ B \cap seen = seen
    BY <2>3
  <2> HIDE DEF B
  <2>6. Cardinality(B \ seen) = (m + 1) - Cardinality(seen)
    <3>1. Cardinality(B \ seen) = Cardinality(B) - Cardinality(B \cap seen)
      BY <2>4, FS_Difference
    <3>2. Cardinality(B \ seen) = Cardinality(B) - Cardinality(seen)
      BY <2>5, <3>1, Zenon
    <3> QED
      BY <2>4, <3>2, Zenon
  <2>7. Cardinality(seen) \in Nat /\ Cardinality(seen) <= m + 1
    BY <2>4, <2>5, FS_Subset, FS_CardinalityType
  <2>8. Missing = (m + 1) - tracker.pkt_count /\ tracker.pkt_count \in Nat
        /\ tracker.pkt_count <= m + 1
    <3>1. Missing = Cardinality(B \ seen)
      BY <1>2, <2>2 DEF Missing, B
    <3> QED
      BY <2>1, <2>6, <2>7, <3>1
  <2>9. Watermark = (m + 1) - tracker.pkt_count
    BY <2>1, <2>8 DEF Watermark, m
  <2> QED
    BY <2>1, <2>8, <2>9
<1> QED
  BY <1>1, <1>2

\* Only the last flush ends the worker.
LEMMA ExitIsFinal ==
    ASSUME TrafficTypes, [FlowNext]_flowVars, rx_worker'.pc = "exited", ~Final
    PROVE  ~Worker /\ rx_worker' = rx_worker /\ foul' = foul
<1>1. ~Worker
  BY DEF Worker, Take, TakeOther, Track, Flush, Leave, AfterPacket, TrafficTypes, WorkerState
<1> QED
  BY <1>1, WorkerRests

\* The report is right when it is made, and nothing touches it any more.
LEMMA FinalKeeps ==
    /\ TrafficTypes /\ InPhase /\ (~raced /\ ~foul => TrackerCounts)
    /\ (~raced /\ ~foul /\ rx_worker.pc # "exited" => RealTime)
    /\ FinalLossIsReal /\ [FlowNext]_flowVars
    => FinalLossIsReal'
<1> SUFFICES ASSUME TrafficTypes, InPhase, ~raced /\ ~foul => TrackerCounts,
                    ~raced /\ ~foul /\ rx_worker.pc # "exited" => RealTime,
                    FinalLossIsReal, [FlowNext]_flowVars,
                    rx_worker'.pc = "exited", ~raced', ~cut', ~foul'
             PROVE  IF unit' = "cmc" THEN lost' = Missing'
                    ELSE main' = 0 => lost' >= Missing' /\ lost' <= 2 * Missing'
  BY DEF FinalLossIsReal
<1>0. unit' = unit
  BY EnvStays
<1>1. CASE Final
  <2>1. /\ UNCHANGED <<raced, foul, main, seen>> /\ rx_worker.pc = "final"
    BY <1>1 DEF Final, rxFixed
  <2>2. TrackerCounts /\ RealTime
    BY <2>1
  <2>3. /\ Missing \in Nat /\ Watermark = Missing
        /\ tracker.expected_seq = tracker.pkt_count + Missing
    BY <2>2, MissingIs
  <2>4. Missing' = Missing
    BY <2>1 DEF Missing
  <2>5. CASE unit = "cmc"
    BY <1>0, <1>1, <2>3, <2>4, <2>5 DEF Final, CmcFinal
  <2>6. CASE unit # "cmc" /\ main' = 0
    <3>1. lost' = lost + Missing
      BY <1>1, <2>3, <2>6 DEF Final, VmcFinal
    <3>2. lost + rx_worker.lost + tracker.pkt_count <= tracker.expected_seq
      BY <2>1, <2>2, <2>6 DEF RealTime, TrafficTypes
    <3>3. rx_worker.lost \in Nat /\ tracker.pkt_count \in Nat /\ lost \in Nat
      BY DEF TrafficTypes, WorkerState, TrackerState
    <3>4. lost <= Missing
      BY <2>3, <3>2, <3>3
    <3> QED
      BY <1>0, <2>3, <2>4, <2>6, <3>1, <3>3, <3>4
  <2> QED
    BY <1>0, <2>5, <2>6
<1>2. CASE ~Final
  <2>1. ~Worker /\ rx_worker' = rx_worker /\ foul' = foul
    BY <1>2, ExitIsFinal
  <2>2. stop
    BY <2>1 DEF InPhase
  <2>3. ~cut
    BY <2>2 DEF FlowNext, Main, BeginReset, ResetPort, ResetTracker, ResetNumbers, ResetUnit, Stop,
       Sender, Pick, Retry, SendA, SendB, CommitLoad, CommitStore, Lose, Worker, Take,
       TakeOther, Track, Flush, Leave, Final, rxFixed, txFixed, flowVars
  <2>4. ~Main
    <3>1. main = 0 \/ main = Parts + 1
      BY <2>2, <2>3 DEF InPhase
    <3>2. Parts \in {3, 4}
      BY DEF Parts
    <3>3. ~BeginReset
      BY <2>2 DEF BeginReset
    <3> QED
      BY <3>1, <3>2, <3>3, PartIs DEF Main, ResetPort, ResetTracker, ResetNumbers, ResetUnit
  <2>5. UNCHANGED <<raced, lost, seen, main>>
    BY <2>1, <2>2, <2>4 DEF FlowNext, Stop, Sender, Pick, Retry, SendA, SendB, CommitLoad,
       CommitStore, Lose, txFixed, rxVars, flowVars
  <2>6. Missing' = Missing
    BY <2>5 DEF Missing
  <2> QED
    BY <1>0, <2>1, <2>3, <2>5, <2>6 DEF FinalLossIsReal
<1> QED
  BY <1>1, <1>2

-----------------------------------------------------------------------------
(* Damage.                                                                 *)

\* Every part but the last is looked at by some check, and only VMC in ATE mode looks
\* at the last.
LEMMA FailsIs ==
    ASSUME TrafficTypes, NEW zone \in Zones \cup {"none"}
    PROVE  /\ zone \notin {"none", "last"} => Fails(zone) # {}
           /\ zone = "none" => Fails(zone) = {}
           /\ zone = "last" => Fails(zone) = {} \/ (pure /\ unit = "vmc")
<1>1. zone \in {"number", "splitmix", "crc", "xor", "prbs", "last", "none"}
  BY DEF Zones
<1>2. unit = "cmc" => Fails(zone) = IF zone = "none" THEN {} ELSE CmcFails(zone)
  BY DEF Fails
<1>3. unit = "vmc" => Fails(zone) = IF zone = "none" THEN {} ELSE VmcFails(zone)
  BY DEF Fails
<1>4. zone \notin {"none", "last"} => CmcFails(zone) # {} /\ VmcFails(zone) # {}
  <2>1. CASE pure
    BY <1>1, <2>1 DEF CmcFails, VmcFails
  <2>2. CASE ~pure
    BY <1>1, <2>2 DEF CmcFails, VmcFails
  <2> QED
    BY <2>1, <2>2
<1>5. zone = "last" => CmcFails(zone) = {} /\ (pure \/ VmcFails(zone) = {})
  <2>1. CASE pure
    BY <2>1 DEF CmcFails
  <2>2. CASE ~pure
    BY <2>2 DEF CmcFails, VmcFails
  <2> QED
    BY <2>1, <2>2
<1>6. unit \in {"cmc", "vmc"}
  BY DEF TrafficTypes
<1> QED
  BY <1>1, <1>2, <1>3, <1>4, <1>5, <1>6

\* Nothing is damaged at the start.
LEMMA DamagedInit == FlowInit => Damaged
<1> SUFFICES ASSUME FlowInit PROVE Damaged
  OBVIOUS
<1>1. /\ rx_worker.pkt.zone = "none" /\ rx_worker.bad = 0
      /\ port = 0 /\ odd = 0 /\ spoiled.fresh = 0 /\ spoiled.all = 0
  BY DEF FlowInit, IdleWorker, NoPacket
<1>2. Pending = 0
  BY <1>1 DEF Pending, Fails
<1> QED
  BY <1>1, <1>2, TrafficAssumption DEF Damaged

\* A damaged packet is moved on, never dropped and never counted twice.
LEMMA DamagedKeeps == TrafficTypes /\ InPhase /\ Damaged /\ [FlowNext]_flowVars => Damaged'
<1> SUFFICES ASSUME TrafficTypes, InPhase, Damaged, [FlowNext]_flowVars PROVE Damaged'
  OBVIOUS
<1> DEFINE slack == IF pure /\ unit = "vmc" THEN odd ELSE 0
<1>1. unit' = unit /\ pure' = pure
  BY EnvStays
<1>2. /\ rx_worker \in WorkerState /\ rx_worker.bad \in Nat /\ rx_worker.pkt.zone \in Zones \cup {"none"}
      /\ port \in Nat /\ odd \in Nat /\ MaxOdd \in Nat
      /\ spoiled.fresh \in Nat /\ spoiled.all \in Nat /\ Pending \in {0, 1}
  BY TrafficAssumption DEF TrafficTypes, WorkerState, PacketState, SpoiledState, Pending
<1>3. \A zone : Fails(zone)' = Fails(zone)
  BY <1>1 DEF Fails, CmcFails, VmcFails
<1>4. CASE Take
  <2>1. PICK n \in Net, zone \in Zones \cup {"none"} :
          /\ zone # "none" => odd < MaxOdd
          /\ odd' = odd + (IF zone # "none" THEN 1 ELSE 0)
          /\ rx_worker' = [rx_worker EXCEPT
                    !.pkt = [seq |-> IF zone = "number" THEN Wild ELSE Head(wire[n])[2],
                             era |-> Head(wire[n])[1], alien |-> zone = "number" \/ n # own,
                             zone |-> zone],
                    !.rx = @ + 1, !.pc = "track"]
          /\ LET hit == IF zone \in {"none", "last"} THEN 0 ELSE 1
             IN  spoiled' = [fresh |-> spoiled.fresh + hit, all |-> spoiled.all + hit]
    BY <1>4 DEF Take
  <2>2. /\ rx_worker'.pc = "track" /\ rx_worker'.bad = rx_worker.bad /\ rx_worker'.pkt.zone = zone
        /\ port' = port /\ rx_worker.pc = "poll"
    BY <1>2, <1>4, <2>1 DEF Take, WorkerState
  <2>3. Pending = 0 /\ Pending' = IF Fails(zone) = {} THEN 0 ELSE 1
    BY <1>3, <2>2, FailsIs DEF Damaged, Pending
  <2>4. CASE zone \notin {"none", "last"}
    <3>1. /\ Pending' = 1 /\ odd' = odd + 1 /\ odd < MaxOdd
          /\ spoiled'.fresh = spoiled.fresh + 1 /\ spoiled'.all = spoiled.all + 1
      BY <2>1, <2>3, <2>4, FailsIs
    <3> QED
      BY <1>1, <1>2, <2>2, <2>3, <3>1 DEF Damaged
  <2>5. CASE zone = "none"
    <3>1. /\ Pending' = 0 /\ odd' = odd
          /\ spoiled'.fresh = spoiled.fresh /\ spoiled'.all = spoiled.all
      BY <1>2, <2>1, <2>3, <2>5, FailsIs
    <3> QED
      BY <1>1, <1>2, <2>2, <2>3, <3>1 DEF Damaged
  <2>6. CASE zone = "last"
    <3>1. /\ Pending' \in {0, 1} /\ odd' = odd + 1 /\ odd < MaxOdd
          /\ spoiled'.fresh = spoiled.fresh /\ spoiled'.all = spoiled.all
          /\ Pending' = 0 \/ (pure /\ unit = "vmc")
      BY <1>2, <2>1, <2>3, <2>6, FailsIs
    <3> QED
      BY <1>1, <1>2, <2>2, <2>3, <3>1 DEF Damaged
  <2> QED
    BY <2>4, <2>5, <2>6
<1>5. CASE Track
  <2>1. /\ rx_worker'.pkt.zone = "none" /\ rx_worker'.bad = rx_worker.bad + Pending
        /\ UNCHANGED <<port, spoiled, odd>>
    BY <1>2, <1>5 DEF Track, WorkerState, NoPacket, Pending
  <2>2. Pending' = 0
    BY <1>3, <2>1, FailsIs DEF Pending
  <2> QED
    BY <1>1, <1>2, <2>1, <2>2 DEF Damaged
<1>6. CASE Flush
  <2>1. /\ rx_worker'.pkt = rx_worker.pkt /\ rx_worker'.bad = 0 /\ rx_worker'.pc # "track"
        /\ port' = port + rx_worker.bad /\ UNCHANGED <<spoiled, odd>> /\ rx_worker.pc = "flush"
    BY <1>2, <1>6 DEF Flush, WorkerState
  <2>2. Pending' = Pending
    BY <1>3, <2>1 DEF Pending
  <2> QED
    BY <1>1, <1>2, <2>1, <2>2 DEF Damaged
<1>7. CASE TakeOther \/ Leave \/ Final
  <2>1. /\ rx_worker'.pkt = rx_worker.pkt /\ rx_worker'.bad = rx_worker.bad
        /\ rx_worker'.pc # "track" /\ rx_worker.pc # "track"
        /\ UNCHANGED <<port, spoiled>>
    BY <1>2, <1>7 DEF TakeOther, Leave, Final, AfterPacket, WorkerState
  <2>2. odd' \in {odd, odd + 1} /\ odd' <= MaxOdd
    BY <1>2, <1>7 DEF TakeOther, Leave, Final, Damaged
  <2>3. Pending' = Pending
    BY <1>3, <2>1 DEF Pending
  <2> QED
    BY <1>1, <1>2, <2>1, <2>2, <2>3 DEF Damaged
<1>8. CASE ~Worker
  <2>1. rx_worker' = rx_worker
    BY <1>8, WorkerRests
  <2>2. Pending' = Pending
    BY <1>3, <2>1 DEF Pending
  <2>3. odd' \in {odd, odd + 1} /\ odd' <= MaxOdd
    BY <1>2, <1>8 DEF Damaged, FlowNext, Main, BeginReset, ResetPort, ResetTracker, ResetNumbers,
       ResetUnit, Stop, Sender, Pick, Retry, SendA, SendB, CommitLoad, CommitStore, Lose,
       txFixed, flowVars
  <2>4. CASE ResetPort
    <3>1. port' = 0 /\ spoiled'.fresh = 0 /\ spoiled'.all = spoiled.all
      BY <2>4 DEF ResetPort, TrafficTypes, SpoiledState
    <3> QED
      BY <1>1, <1>2, <2>1, <2>2, <2>3, <3>1 DEF Damaged
  <2>5. CASE ~ResetPort
    <3>1. UNCHANGED <<port, spoiled>>
      BY <1>8, <2>5 DEF FlowNext, Main, BeginReset, ResetTracker, ResetNumbers, ResetUnit, Stop,
         Sender, Pick, Retry, SendA, SendB, CommitLoad, CommitStore, Lose, txFixed, rxVars,
         flowVars
    <3> QED
      BY <1>1, <1>2, <2>1, <2>2, <2>3, <3>1 DEF Damaged
  <2> QED
    BY <2>4, <2>5
<1> QED
  BY <1>4, <1>5, <1>6, <1>7, <1>8 DEF Worker

-----------------------------------------------------------------------------
(* The invariant.                                                          *)

\* The invariant holds at the start.
LEMMA TrafficInvInit == FlowInit => TrafficInv
<1> SUFFICES ASSUME FlowInit PROVE TrafficInv
  OBVIOUS
<1>1. FinalLossIsReal
  BY DEF FlowInit, IdleWorker, FinalLossIsReal
<1> QED
  BY <1>1, TrafficInit, NumberedInit, OrderInit, CountsInit, DamagedInit DEF TrafficInv

\* What spoiled the numbering or the tracker is not forgotten.
LEMMA SpoiltStays ==
    TrafficTypes /\ InPhase /\ [FlowNext]_flowVars => (raced => raced') /\ (foul => foul')
<1> SUFFICES ASSUME TrafficTypes, InPhase, [FlowNext]_flowVars
             PROVE  (raced => raced') /\ (foul => foul')
  OBVIOUS
<1>1. CASE ResetNumbers
  <2>1. main = 3 /\ foul' = foul
    BY <1>1, PartIs DEF ResetNumbers, rxVars
  <2> QED
    BY <2>1 DEF InPhase, NumbersDone
<1>2. CASE Track
  <2>1. raced' = raced /\ (foul => foul')
    BY <1>2 DEF Track, rxFixed
  <2> QED
    BY <2>1
<1>3. CASE ~ResetNumbers /\ ~Track
  <2>1. raced' = raced
    BY <1>3 DEF FlowNext, Main, BeginReset, ResetPort, ResetTracker, ResetUnit, Stop, Sender, Pick,
       Retry, SendA, SendB, CommitLoad, CommitStore, Lose, Worker, Take, TakeOther, Flush,
       Leave, Final, rxFixed, txFixed, flowVars
  <2>2. foul' = foul
    BY <1>3 DEF FlowNext, Main, BeginReset, ResetPort, ResetTracker, ResetUnit, Stop, Sender, Pick,
       Retry, SendA, SendB, CommitLoad, CommitStore, Lose, Worker, Take, TakeOther, Flush,
       Leave, Final, rxFixed, txFixed, rxVars, flowVars
  <2> QED
    BY <2>1, <2>2, Zenon
<1> QED
  BY <1>1, <1>2, <1>3

\* Every step keeps the invariant.
LEMMA TrafficInvStep == TrafficInv /\ [FlowNext]_flowVars => TrafficInv'
<1> SUFFICES ASSUME TrafficInv, [FlowNext]_flowVars PROVE TrafficInv'
  OBVIOUS
<1>1. /\ TrafficTypes /\ InPhase /\ TwinFollows /\ Damaged /\ FinalLossIsReal
      /\ ~raced => Numbered /\ InOrder /\ HandFirst
      /\ ~raced /\ ~foul => SeenFirst /\ TrackerCounts
      /\ ~raced /\ ~foul /\ rx_worker.pc # "exited" => RealTime
  BY DEF TrafficInv
<1>2. (raced => raced') /\ (foul => foul')
  BY <1>1, SpoiltStays
<1>3. TrafficTypes' /\ InPhase' /\ TwinFollows' /\ Damaged'
  BY <1>1, TypesKeep, PhaseKeeps, TwinKeeps, DamagedKeeps
<1>4. ASSUME ~raced' PROVE Numbered' /\ InOrder' /\ HandFirst'
  BY <1>1, <1>2, <1>4, NumberedKeeps, OrderKeeps, HandKeeps
<1>5. ASSUME ~raced', ~foul' PROVE SeenFirst' /\ TrackerCounts'
  BY <1>1, <1>2, <1>5, SeenKeeps, CountsKeep
<1>6. ASSUME ~raced', ~foul', rx_worker'.pc # "exited" PROVE RealTime'
  <2>1. rx_worker.pc # "exited"
    <3>1. rx_worker.pc = "exited" => rx_worker' = rx_worker
      BY <1>6, <1>1, WorkerRests DEF Worker, Take, TakeOther, Track, Flush, Leave, Final
    <3> QED
      BY <1>6, <3>1
  <2> QED
    BY <1>1, <1>2, <1>6, <2>1, RealTimeKeeps
<1>7. FinalLossIsReal'
  BY <1>1, FinalKeeps
<1> QED
  BY <1>3, <1>4, <1>5, <1>6, <1>7 DEF TrafficInv

\* The invariant always holds.
LEMMA TrafficInvHolds == FlowSpec => []TrafficInv
  BY TrafficInvInit, TrafficInvStep, PTL DEF FlowSpec

-----------------------------------------------------------------------------
(* The theorems.                                                           *)

\* Network B never carries a number that network A did not, and the sender neither skips
\* nor repeats one, unless the reset of the numbers raced with a commit (commit_tx_sequence,
\* send_packet_dual).
THEOREM TwinsStayAligned == FlowSpec => []TwinsAligned
<1>1. TrafficInv => TwinsAligned
  BY NumberedIsAligned DEF TrafficInv
<1> QED
  BY <1>1, TrafficInvHolds, PTL

\* The losses reported at exit are those of the tracked numbers, for every order of sends,
\* losses, flushes, resets and the stop (the final flush of rx_worker).
THEOREM FinalLossHolds == FlowSpec => []FinalLossIsReal
<1>1. TrafficInv => FinalLossIsReal
  BY DEF TrafficInv
<1> QED
  BY <1>1, TrafficInvHolds, PTL

\* A damaged packet is counted as bad, once, wherever the flush and the reset fall.
THEOREM DamageIsSeen == FlowSpec => []DamageIsReported
<1>1. TrafficInv => DamageIsReported
  <2> SUFFICES ASSUME TrafficInv PROVE DamageIsReported
    OBVIOUS
  <2>1. /\ rx_worker.bad \in Nat /\ port \in Nat /\ odd \in Nat /\ MaxOdd \in Nat
        /\ spoiled.fresh \in Nat /\ spoiled.all \in Nat
    BY TrafficAssumption DEF TrafficInv, TrafficTypes, WorkerState, SpoiledState
  <2>2. /\ odd <= MaxOdd /\ spoiled.fresh <= port + rx_worker.bad + Pending
        /\ port + rx_worker.bad + Pending
             <= spoiled.all + (IF pure /\ unit = "vmc" THEN odd ELSE 0)
    BY DEF TrafficInv, Damaged
  <2>3. Pending \in {0, 1}
    BY DEF Pending
  <2> QED
    BY <2>1, <2>2, <2>3 DEF DamageIsReported, Pending
<1> QED
  BY <1>1, TrafficInvHolds, PTL
=============================================================================

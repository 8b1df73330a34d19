-------------------------------- MODULE VmcPtp --------------------------------
(***************************************************************************)
(* The PTP slave of dpdk_vmc (src/ptp/ptp.c, "mechanism 2").  The unit     *)
(* sends one Sync per side on the leg that leads the group of that side;   *)
(* the engine answers with a Delay_Req on every leg of the group, and the  *)
(* unit answers each with a Delay_Resp.  Sequence numbers are not used: an *)
(* answer belongs to the leg that its VL-ID names, and to whatever was     *)
(* asked last there.                                                       *)
(*                                                                         *)
(* A time stamp is the number of the exchange that it was taken in.  One   *)
(* thread does everything; a pass of its loop takes microseconds, so time  *)
(* passes while it sleeps, and is counted in seconds.  The master's half   *)
(* ("mechanism 1") keeps nothing from one message to the next, and is left *)
(* out, as are the counters of damaged frames.                             *)
(***************************************************************************)
EXTENDS Integers, FiniteSets

CONSTANTS Legs,         \* bound: the rows of ptp_flows that take part
          MaxExchange,  \* bound: Syncs of the unit, over both sides
          MaxUnsent,    \* bound: requests that cannot be sent
          MaxNap        \* bound: seconds that one pass may come late

\* The rows of ptp_flows of role slave: port, VLAN of the Sync (0: not a leader),
\* VL-ID of the group's Sync, VLAN and VL-ID of the answer.
Row(port, sync_vlan, sync_vl_id, resp_vlan, resp_vl_id) ==
    [port |-> port, sync_vlan |-> sync_vlan, sync_vl_id |-> sync_vl_id,
     resp_vlan |-> resp_vlan, resp_vl_id |-> resp_vl_id]

ptp_flows ==
    [J7_4 |-> Row(1, 240, 1600, 240, 1607), J7_3 |-> Row(1, 0, 1600, 239, 1608),
     J7_2 |-> Row(1, 0, 1600, 238, 1609), J7_1 |-> Row(1, 0, 1600, 237, 1610),
     J6_2 |-> Row(0, 0, 1600, 236, 1611), J6_1 |-> Row(0, 0, 1600, 233, 1612),
     J5_4 |-> Row(3, 232, 1620, 232, 1627), J5_3 |-> Row(3, 0, 1620, 231, 1628),
     J5_2 |-> Row(3, 0, 1620, 230, 1629), J5_1 |-> Row(3, 0, 1620, 229, 1630),
     J6_4 |-> Row(0, 0, 1620, 234, 1631), J6_3 |-> Row(0, 0, 1620, 235, 1632)]

ASSUME VmcPtpAssumption ==
    Legs \subseteq DOMAIN ptp_flows /\ {MaxExchange, MaxUnsent, MaxNap} \subseteq Nat

Leader == {l \in Legs : ptp_flows[l].sync_vlan # 0}
\* The fixture swaps the VLAN tags of these two legs.
Wired(l) == CASE l = "J6_2" -> "J6_4" [] l = "J6_4" -> "J6_2" [] OTHER -> l

VARIABLES
    t12,        \* per leg, the exchange of last_t1_ns and last_t2_ns (0: none)
    t3, t4,     \* per leg, the exchange of last_t3_ns and of last_t4_ns
    req_outstanding,
    req_age,    \* per leg, seconds since last_req_tx_mono_ns
    sync_age,   \* per leg, seconds since last_sync_rx_mono_ns (Never: it is 0)
    sync_stale,
    req_tx, resp_rx, resp_timeout,
    frames,     \* what is on its way, or lost
    exchange,   \* Syncs that the unit has sent
    unsent,     \* requests that could not be sent
    \* history
    answered,   \* legs whose last request has been answered, and no older one since
    stray       \* per leg, answers that came when none was awaited

requestVars == <<t3, req_outstanding, req_age, req_tx, resp_timeout, unsent>>
syncVars == <<t12, sync_age, sync_stale>>
ptpVars == <<requestVars, syncVars, t4, resp_rx, frames, exchange, answered, stray>>

RESP_LIMIT == 1
STALE_LIMIT == 3
Never == 99
Oldest == STALE_LIMIT + 1

PerLeg(value) == [l \in Legs |-> value]

PtpInit ==
    /\ t12 = PerLeg(0) /\ t3 = PerLeg(0) /\ t4 = PerLeg(0)
    /\ req_outstanding = {} /\ req_age = PerLeg(0)
    /\ sync_age = PerLeg(Never) /\ sync_stale = {}
    /\ req_tx = PerLeg(0) /\ resp_rx = PerLeg(0) /\ resp_timeout = PerLeg(0)
    /\ frames = {} /\ exchange = 0 /\ unsent = 0
    /\ answered = {} /\ stray = PerLeg(0)

-----------------------------------------------------------------------------
(* The unit.                                                               *)

Frame(msg, l, n) ==
    [msg |-> msg, port |-> ptp_flows[l].port, n |-> n,
     vlan |-> IF msg = "Sync" THEN ptp_flows[l].sync_vlan ELSE ptp_flows[Wired(l)].resp_vlan,
     vl_id |-> IF msg = "Sync" THEN ptp_flows[l].sync_vl_id ELSE ptp_flows[l].resp_vl_id]

SendSync(l) ==
    /\ l \in Leader /\ exchange < MaxExchange
    /\ exchange' = exchange + 1
    /\ frames' = frames \cup {Frame("Sync", l, exchange')}
    /\ UNCHANGED <<requestVars, syncVars, t4, resp_rx, answered, stray>>

-----------------------------------------------------------------------------
(* The engine.                                                             *)

\* Mutant: the VLAN tells the legs apart, as it does for a Sync.
HasVlanOf(l, f) == ptp_flows[l].resp_vlan = f.vlan

IsAnswerOf(l, f) == ptp_flows[l].resp_vl_id = f.vl_id

\* The leg that a frame is for, if there is one.
lookup_flow(f) ==
    {l \in Legs : /\ ptp_flows[l].port = f.port
                  /\ IF f.msg = "Sync" THEN l \in Leader /\ ptp_flows[l].sync_vlan = f.vlan
                                       ELSE IsAnswerOf(l, f)}

\* The legs for which a Sync counts: all that share its VL-ID, on whatever port.
GroupOf(l) == {k \in Legs : ptp_flows[k].sync_vl_id = ptp_flows[l].sync_vl_id}

\* Mutant: an outstanding request is forgotten.
Forgotten(group) == group \cap {}

\* A request that is still outstanding when the next Sync comes counts as a time-out.
Unanswered(group) == group \cap req_outstanding

\* f with this value for the legs in S
On(f, S, value) == [k \in Legs |-> IF k \in S THEN value ELSE f[k]]
More(f, S) == [k \in Legs |-> IF k \in S THEN f[k] + 1 ELSE f[k]]

\* Each leg of the group asks anew.
handle_sync_rx(l, f) ==
    LET group == GroupOf(l)
    IN  \E failing \in SUBSET group :
          LET asked == group \ failing
          IN  /\ unsent + Cardinality(failing) <= MaxUnsent
              /\ unsent' = unsent + Cardinality(failing)
              /\ t12' = On(t12, group, f.n)
              /\ sync_age' = On(sync_age, group, 0)
              /\ sync_stale' = sync_stale \ group
              /\ resp_timeout' = More(resp_timeout, Unanswered(group))
              /\ t3' = On(t3, asked, f.n) /\ req_tx' = More(req_tx, asked)
              /\ req_age' = On(req_age, asked, 0)
              /\ req_outstanding' = (req_outstanding \ group) \cup asked
              /\ frames' = (frames \ {f}) \cup {Frame("Resp", k, f.n) : k \in asked}
              /\ answered' = answered \ group
    /\ UNCHANGED <<t4, resp_rx, stray>>

\* For the history: whether the frame answers the last request of the leg it is meant for.
NewestSent(f) == \A k \in Legs : ptp_flows[k].resp_vl_id = f.vl_id => t3[k] = f.n

handle_response_rx(l, f) ==
    /\ t4' = [t4 EXCEPT ![l] = f.n]
    /\ resp_rx' = [resp_rx EXCEPT ![l] = @ + 1]
    /\ req_outstanding' = req_outstanding \ {l}
    /\ frames' = frames \ {f}
    /\ stray' = IF l \in req_outstanding THEN stray ELSE [stray EXCEPT ![l] = @ + 1]
    /\ answered' = IF NewestSent(f) /\ t3[l] = t12[l] THEN answered \cup {l} ELSE answered \ {l}
    /\ UNCHANGED <<t3, req_age, req_tx, resp_timeout, unsent, syncVars>>

\* A frame that matches no leg is only counted.
rx_one_port(f) ==
    /\ \E l \in lookup_flow(f) :
          \/ f.msg = "Sync" /\ handle_sync_rx(l, f)
          \/ f.msg = "Resp" /\ handle_response_rx(l, f)
    /\ UNCHANGED exchange

IsStale(age) == age # Never /\ age > STALE_LIMIT

\* The loop sleeps, and its watchdogs look.
ptp_thread_fn(nap) ==
    LET Aged(age) == IF age = Never THEN Never
                     ELSE IF age + nap > Oldest THEN Oldest ELSE age + nap
        late == {l \in req_outstanding : Aged(req_age[l]) > RESP_LIMIT}
    IN  /\ req_age' = [l \in Legs |-> Aged(req_age[l])]
        /\ sync_age' = [l \in Legs |-> Aged(sync_age[l])]
        /\ resp_timeout' = More(resp_timeout, late)
        /\ req_outstanding' = req_outstanding \ late
        /\ sync_stale' = sync_stale \cup {l \in Legs : IsStale(sync_age'[l])}
        /\ UNCHANGED <<t12, t3, t4, req_tx, resp_rx, frames, exchange, unsent, answered, stray>>

PtpNext ==
    \/ \E l \in Leader : SendSync(l)
    \/ \E f \in frames : rx_one_port(f)
    \/ \E nap \in 1..MaxNap : ptp_thread_fn(nap)

-----------------------------------------------------------------------------
(* The dashboard, and what it shows.                                       *)

\* The exchanges that the offset of a leg is computed from; none, when one is missing.
OffsetOf(l) == IF 0 \in {t12[l], t3[l], t4[l]} THEN {} ELSE {t12[l], t3[l], t4[l]}

\* When the last request of a leg has been answered, and no older answer came after it,
\* the offset on the dashboard is of that exchange: answers of other legs, whose
\* VLAN tags the fixture swaps, the other side's Syncs, requests that were lost,
\* timed out or not sent before, and the ports that a group spans make no
\* difference.  And every request is accounted for, once: it is outstanding, answered or
\* timed out, but for answers that came when none was awaited.
OffsetIsOfOneExchange ==
    \A l \in Legs :
        /\ l \in answered => OffsetOf(l) = {t12[l]}
        /\ req_tx[l] + stray[l] =
             resp_rx[l] + resp_timeout[l] + (IF l \in req_outstanding THEN 1 ELSE 0)

\* A side is shown as stale only after it has sent a Sync, and none for three seconds; a leg
\* that leads no group, and gets no Sync itself, is no exception.
StaleIsSilence ==
    \A l \in sync_stale : \E k \in GroupOf(l) \cap Leader :
        sync_age[k] # Never /\ sync_age[k] > STALE_LIMIT

\* What the dashboard says of a leg is of that leg, and of the present.
PtpViewIsTrue == OffsetIsOfOneExchange /\ StaleIsSilence
=============================================================================

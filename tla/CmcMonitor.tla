----------------------------- MODULE CmcMonitor -----------------------------
(***************************************************************************)
(* The health monitor of dpdk_cmc (src/health_monitor): RX workers parse   *)
(* the reports of the unit and push them into a ring; once a second the    *)
(* main thread empties the ring, adds up the counters of the DPM boards,   *)
(* which come as the numbers of one second, and shows what is lost between *)
(* neighbours of their chain.  The report of the switch comes in two       *)
(* parts, on both networks, and is put together by whichever worker gets   *)
(* the second one, with no lock.                                           *)
(*                                                                         *)
(* One flow of each link of the chain stands for its 104.  The parts of a  *)
(* second all arrive, or are lost, before the next second; a counter       *)
(* report comes on one network.  The ring is the sequence between tail and *)
(* head.  Reports of other kinds only take their place in the ring.        *)
(***************************************************************************)
EXTENDS Naturals, Sequences, SequencesExt, FiniteSets

CONSTANTS Boards,       \* length of the chain of DPM boards
          RING,         \* HM_RING_CAPACITY
          MaxSecond,    \* bound: seconds
          MaxGone,      \* bound: reports or parts lost on the way
          MaxOther      \* bound: reports of other kinds

ASSUME CmcMonitorAssumption ==
    /\ Boards \in Nat \ {0, 1} /\ RING \in Nat \ {0, 1}
    /\ MaxSecond \in Nat /\ MaxGone \in Nat /\ MaxOther \in Nat

Network == {"A", "B"}
Dpm == 1..Boards
Link == 1..(Boards - 1)
NotYet == 0

VARIABLES
    second,     \* of the unit
    due,        \* boards whose report of this second is on its way
    report,     \* that report: what the board sent on and what it got
    part,       \* per network, the part of the switch report that comes next (3: none)
    held,       \* g_sw_reassembly: the second of each part, and part1_received
    worker,     \* per network, where its RX worker is in hm_handle_packet
    ring,       \* g_ring
    accum,      \* g_dpm_accum: tx_total, rx_total, valid
    gone,       \* how many reports and parts were lost on the way
    other,      \* how many reports of other kinds came
    \* history
    total,      \* per board, what it sent on and what it got since the start
    missed,     \* boards of which a report was lost or did not fit
    lostParts,  \* <<part, second>> lost on a network
    shownSw     \* the switch report on the dashboard: the second of each part

cmcVars == <<second, due, report, part, held, worker, ring, accum, gone, other,
             total, missed, lostParts, shownSw>>

Zero == [tx |-> 0, rx |-> 0]

CmcMonitorInit ==
    /\ second = 0 /\ due = {} /\ report = [d \in Dpm |-> Zero]
    /\ part = [n \in Network |-> 3]
    /\ held = [parts |-> <<NotYet, NotYet>>, first |-> FALSE]
    /\ worker = [n \in Network |-> "idle"]
    /\ ring = <<>> /\ accum = [d \in Dpm |-> [tx |-> 0, rx |-> 0, valid |-> FALSE]]
    /\ gone = 0 /\ other = 0
    /\ total = [d \in Dpm |-> Zero] /\ missed = {} /\ lostParts = {}
    /\ shownSw = <<NotYet, NotYet>>

-----------------------------------------------------------------------------
(* The unit and the networks.                                              *)

\* In a second the link after board d carries one packet, and got[d] arrive.
Reports(got) ==
    [d \in Dpm |-> [tx |-> IF d \in Link THEN 1 ELSE 0,
                    rx |-> IF d - 1 \in Link THEN got[d - 1] ELSE 0]]

NextSecond ==
    /\ second < MaxSecond /\ due = {}
    /\ \A n \in Network : part[n] = 3 /\ worker[n] = "idle"
    /\ second' = second + 1 /\ due' = Dpm /\ part' = [n \in Network |-> 1]
    /\ \E got \in [Link -> {0, 1}] : report' = Reports(got)
    /\ total' = [d \in Dpm |-> [tx |-> total[d].tx + report'[d].tx,
                                rx |-> total[d].rx + report'[d].rx]]
    /\ UNCHANGED <<held, worker, ring, accum, gone, other, missed, lostParts, shownSw>>

LoseReport(d) ==
    /\ d \in due /\ gone < MaxGone
    /\ due' = due \ {d} /\ gone' = gone + 1 /\ missed' = missed \cup {d}
    /\ UNCHANGED <<second, report, part, held, worker, ring, accum, other, total,
                   lostParts, shownSw>>

LosePart(n) ==
    /\ part[n] < 3 /\ worker[n] = "idle" /\ gone < MaxGone
    /\ part' = [part EXCEPT ![n] = @ + 1] /\ gone' = gone + 1
    /\ lostParts' = lostParts \cup {<<part[n], second>>}
    /\ UNCHANGED <<second, due, report, held, worker, ring, accum, other, total,
                   missed, shownSw>>

-----------------------------------------------------------------------------
(* RX workers.                                                             *)

\* One place of the ring stays empty; what does not fit is dropped.
Push(item) == ring' = IF Len(ring) + 1 < RING THEN Append(ring, item) ELSE ring

ReceiveReport(d) ==
    /\ d \in due /\ due' = due \ {d}
    /\ Push([kind |-> "dpm", of |-> d, data |-> report[d]])
    /\ missed' = IF ring' = ring THEN missed \cup {d} ELSE missed
    /\ UNCHANGED <<second, report, part, held, worker, accum, gone, other, total,
                   lostParts, shownSw>>

ReceiveOther ==
    /\ other < MaxOther /\ other' = other + 1
    /\ Push([kind |-> "other", of |-> 0, data |-> Zero])
    /\ UNCHANGED <<second, due, report, part, held, worker, accum, gone, total, missed,
                   lostParts, shownSw>>

\* The first part is copied, then part1_received is set.
CopyFirst(n) ==
    /\ part[n] = 1 /\ worker[n] = "idle"
    /\ held' = [held EXCEPT !.parts[1] = second]
    /\ worker' = [worker EXCEPT ![n] = "flag"] /\ part' = [part EXCEPT ![n] = 2]
    /\ UNCHANGED <<second, due, report, ring, accum, gone, other, total, missed,
                   lostParts, shownSw>>

FlagFirst(n) ==
    /\ worker[n] = "flag"
    /\ held' = [held EXCEPT !.first = TRUE]
    /\ worker' = [worker EXCEPT ![n] = "idle"]
    /\ UNCHANGED <<second, due, report, part, ring, accum, gone, other, total, missed,
                   lostParts, shownSw>>

\* The second part is an orphan when part1_received is not set.
CheckSecond(n) ==
    /\ part[n] = 2 /\ worker[n] = "idle"
    /\ part' = [part EXCEPT ![n] = 3]
    /\ worker' = [worker EXCEPT ![n] = IF held.first THEN "join" ELSE "idle"]
    /\ UNCHANGED <<second, due, report, held, ring, accum, gone, other, total, missed,
                   lostParts, shownSw>>

AfterJoin(h) == [h EXCEPT !.parts[2] = second, !.first = FALSE]

Join(n) ==
    /\ worker[n] = "join"
    /\ held' = AfterJoin(held)
    /\ Push([kind |-> "sw", of |-> 0, data |-> held'.parts])
    /\ worker' = [worker EXCEPT ![n] = "idle"]
    /\ UNCHANGED <<second, due, report, part, accum, gone, other, total, missed,
                   lostParts, shownSw>>

-----------------------------------------------------------------------------
(* The dashboard, in the main thread.                                      *)

\* The last item of a kind is the one that is shown.
LastOf(items, kind) == SelectLastInSeq(items, LAMBDA i : i.kind = kind)

\* Mutant: equal items are thrown together first.
AccumulateShown(items) ==
    [d \in Dpm |->
        LET i == SelectLastInSeq(items, LAMBDA x : x.kind = "dpm" /\ x.of = d)
        IN IF i = 0 THEN accum[d]
           ELSE [tx |-> accum[d].tx + items[i].data.tx,
                 rx |-> accum[d].rx + items[i].data.rx, valid |-> TRUE]]

\* dpm_vl_accumulate, for every item, before equal ones are thrown together.
Accumulate(items) ==
    FoldSeq(LAMBDA i, acc :
               IF i.kind # "dpm" THEN acc
               ELSE [acc EXCEPT ![i.of].tx = @ + i.data.tx,
                                ![i.of].rx = @ + i.data.rx, ![i.of].valid = TRUE],
            accum, items)

Dashboard ==
    /\ ring # <<>>
    /\ accum' = Accumulate(ring) /\ ring' = <<>>
    /\ shownSw' = LET i == LastOf(ring, "sw")
                  IN IF i = 0 THEN shownSw ELSE ring[i].data
    /\ UNCHANGED <<second, due, report, part, held, worker, gone, other, total, missed,
                   lostParts>>

\* The row of a link in the table of losses; none before both boards were heard.
HasRow(l) == accum[l].valid /\ accum[l + 1].valid
LossShown(l) ==
    IF accum[l].tx <= accum[l + 1].rx THEN 0 ELSE accum[l].tx - accum[l + 1].rx

CmcMonitorNext ==
    \/ NextSecond \/ ReceiveOther \/ Dashboard
    \/ \E d \in Dpm : LoseReport(d) \/ ReceiveReport(d)
    \/ \E n \in Network :
          LosePart(n) \/ CopyFirst(n) \/ FlagFirst(n) \/ CheckSecond(n) \/ Join(n)

-----------------------------------------------------------------------------
InRing(d) == \E i \in 1..Len(ring) : ring[i].kind = "dpm" /\ ring[i].of = d
Current(d) == d \notin due /\ d \notin missed /\ ~InRing(d)

\* Once all that the two boards of a link have reported was added up, the table has
\* the packets that the link lost, however many reports one look at the ring finds.
\* A report that was lost or did not fit spoils it for good: the numbers are those
\* of one second, and are not sent again.
LossTableTrue ==
    \A l \in Link : HasRow(l) /\ Current(l) /\ Current(l + 1) =>
        LossShown(l) = total[l].tx - total[l + 1].rx

\* The two parts of a switch report are of the same second, whatever the workers of
\* the two networks do to each other, unless a second part of the earlier second and
\* a first part of the later one were lost.
SwReportWhole ==
    \A r \in {shownSw} \cup {ring[i].data : i \in {j \in 1..Len(ring) : ring[j].kind = "sw"}} :
        r[1] # r[2] => <<2, r[1]>> \in lostParts /\ <<1, r[2]>> \in lostParts

CmcDashboardIsTrue == LossTableTrue /\ SwReportWhole
=============================================================================

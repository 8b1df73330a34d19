--------------------------- MODULE DelayExchange ---------------------------
(***************************************************************************)
(* What a PTP session promises: the delay request-response mechanism, one  *)
(* exchange at a time.  An exchange is opened by a Sync, asks with one     *)
(* Delay_Req and is completed by the answer to it; it may be abandoned at  *)
(* any point.  Only a completed exchange changes the published result, and *)
(* a result is the zero of an empty t4 or computed from that exchange.     *)
(***************************************************************************)
CONSTANT Session
VARIABLES phase,   \* of each session: "idle", "open", "asked", "done"
          result   \* what its published offset and delay were computed from:
                    \* "none", "zero", "exchange"


Init == /\ phase = [s \in Session |-> "idle"]
        /\ result = [s \in Session |-> "none"]

Move(s, to) == phase' = [phase EXCEPT ![s] = to]

\* a Sync starts a new exchange
Open(s) == /\ phase[s] \in {"idle", "done"}
           /\ Move(s, "open")
           /\ UNCHANGED result

\* the one Delay_Req of the exchange
Ask(s) == /\ phase[s] = "open"
          /\ Move(s, "asked")
          /\ UNCHANGED result

\* its answer
Complete(s) == /\ phase[s] = "asked"
               /\ Move(s, "done")
               /\ \E r \in {"zero", "exchange"} :
                     result' = [result EXCEPT ![s] = r]

\* a failed transmission, a timeout
Abandon(s) == /\ phase[s] # "idle"
              /\ Move(s, "idle")
              /\ UNCHANGED result

Next == \E s \in Session : Open(s) \/ Ask(s) \/ Complete(s) \/ Abandon(s)

Spec == Init /\ [][Next]_<<phase, result>>
=============================================================================

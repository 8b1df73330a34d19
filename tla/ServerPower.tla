---------------------------- MODULE ServerPower ----------------------------
(***************************************************************************)
(* Powering the test server on and off (MainSoftware/src/Server.cpp): what *)
(* onWithWait and offWithWait can make of the server and of what iDRAC and *)
(* the commands answer.  The clock is left out: a wait ends when what it   *)
(* waits for can be seen, and runs into its time limit when it never can.  *)
(*                                                                         *)
(* An outcome is a record of what a function returns, the server after it, *)
(* and the odd answers that are left: each failing command, each query     *)
(* that is not answered and each boot that hangs uses up one.              *)
(***************************************************************************)
EXTENDS Integers, FiniteSetsExt

CONSTANT BootOdds   \* bound: things that go wrong while the server is powered

ASSUME ServerAssumption == BootOdds \in Nat

\* off; starting; reachable; on, but the system does not come up
Power == {"off", "booting", "up", "hung"}

Outcome(ok, power, odds) == [ok |-> ok, power |-> power, odds |-> odds]

\* getPowerState looks for "on" in the answer, then for "off".  What ssh says when
\* it cannot connect contains "on" as well ("ssh: connect to host ..."), and a
\* command that prints nothing leaves the state unknown.
getPowerState(power, odds) ==
    {[seen |-> IF power = "off" THEN "Off" ELSE "On", odds |-> odds]} \cup
    [seen : {"On", "Unknown"}, odds : {odds - 1} \cap Nat]

\* on: nothing is sent to a server that seems to be on
on(power, odds) ==
    UNION {IF q.seen = "On" THEN {Outcome(TRUE, power, q.odds)}
           ELSE {Outcome(TRUE, IF power = "off" THEN "booting" ELSE power, q.odds)}
                \cup {Outcome(FALSE, power, k) : k \in {q.odds - 1} \cap Nat} :
             q \in getPowerState(power, odds)}

\* waitForPowerOn: the query is repeated until one of them reads On
waitForPowerOn(power, odds) ==
    {Outcome(power # "off", power, odds)} \cup
    {Outcome(TRUE, power, k) : k \in {odds - 1} \cap Nat}

\* waitForPing: a server that is starting comes up in time, or hangs
waitForPing(power, odds) ==
    IF power = "booting"
    THEN {Outcome(TRUE, "up", odds)} \cup
         {Outcome(FALSE, "hung", k) : k \in {odds - 1} \cap Nat}
    ELSE {Outcome(power = "up", power, odds)}

\* mutant of hardReset: racadm powercycle instead of hardreset, which waits for
\* the system to shut down
hardResetGraceful(power, odds) == {Outcome(TRUE, power, odds)}

\* hardReset: does nothing for a server that is off; its result is not looked at
hardReset(power, odds) ==
    {Outcome(TRUE, IF power = "off" THEN "off" ELSE "booting", odds)} \cup
    {Outcome(FALSE, power, k) : k \in {odds - 1} \cap Nat}

\* one round of the loop in onWithWait
Attempt(power, odds) ==
    LET started == on(power, odds)
        powered == UNION {waitForPowerOn(r.power, r.odds) :
                            r \in {s \in started : s.ok}}
        pinged  == UNION {waitForPing(r.power, r.odds) :
                            r \in {s \in powered : s.ok}}
        reset   == UNION {hardReset(r.power, r.odds) :
                            r \in {s \in powered \cup pinged : ~s.ok}}
    IN  {s \in pinged : s.ok} \cup
        {[s EXCEPT !.ok = FALSE] : s \in reset \cup {t \in started : ~t.ok}}

\* the rounds that are left
Attempts[n \in Nat] ==
    [s \in Power \X (0..BootOdds) |->
        IF n = 0 THEN {Outcome(FALSE, s[1], s[2])}
        ELSE LET round == Attempt(s[1], s[2])
             IN  {r \in round : r.ok} \cup
                 UNION {Attempts[n - 1][<<r.power, r.odds>>] :
                          r \in {t \in round : ~t.ok}}]

\* onWithWait: a server that seems on and answers a ping is left alone
onWithWait(max_retries, power) ==
    IF power = "up" THEN {Outcome(TRUE, power, BootOdds)}
    ELSE Attempts[max_retries][<<power, BootOdds>>]

\* off and offWithWait: the query that follows may read On for ever
offWithWait(power) ==
    UNION {IF q.seen = "Off" THEN {Outcome(TRUE, power, q.odds)}
           ELSE {Outcome(TRUE, "off", q.odds), Outcome(FALSE, "off", 0),
                 Outcome(FALSE, power, 0)} :
             q \in getPowerState(power, BootOdds)}

=============================================================================

------------------------------ MODULE SerialTime ------------------------------
(***************************************************************************)
(* The time forwarder of a DTN test (SerialTimeForwarder.cpp over          *)
(* SerialPort.cpp).  A time server sends a line each second: year, day of  *)
(* the year, local time and, mostly, the time zone.  The worker reads      *)
(* whatever has come up to a newline, or up to its time-out, makes a time  *)
(* stamp of it, subtracts the zone, and sends the unit two packets, the    *)
(* seconds of the day and the date.                                        *)
(*                                                                         *)
(* A line may be interrupted at a few places that make a difference; what  *)
(* the worker holds is a sequence of lines, heads of lines and rests.  A   *)
(* time stamp is a date and the seconds of that day.  The thread that      *)
(* verifies is not used (Dtn.cpp:401 gives no device).                     *)
(***************************************************************************)
EXTENDS Integers, Sequences, FiniteSets

CONSTANTS Eves,         \* of the boundaries below, those that the server may be found before
          Zones,        \* of the zones below, those that it may be in
          MaxLines,     \* bound: lines of the server
          MaxCuts,      \* bound: lines that are interrupted
          MaxUnwritten  \* bound: packets that the output port does not take

DAY == 86400
DEFAULT_TZ_OFFSET_SEC == 10800
NoZone == 999999        \* the line ends with the seconds
Offset == [istanbul |-> 10800, kolkata |-> 19800, lima |-> -18000, unsaid |-> NoZone]

-----------------------------------------------------------------------------
(* The calendar of the server.                                             *)

Long == {1, 3, 5, 7, 8, 10, 12}
LeapYears == {4 * n : n \in 492..525} \ {2100}
LengthOf(year, month) == CASE month \in Long -> 31
                           [] month = 2 -> IF year \in LeapYears THEN 29 ELSE 28
                           [] OTHER -> 30

DayAfter(d) ==
    IF d.day < LengthOf(d.year, d.month) THEN [d EXCEPT !.day = @ + 1]
    ELSE IF d.month < 12 THEN [d EXCEPT !.day = 1, !.month = @ + 1]
    ELSE [year |-> d.year + 1, month |-> 1, day |-> 1]

DayBefore(d) ==
    IF d.day > 1 THEN [d EXCEPT !.day = @ - 1]
    ELSE IF d.month > 1 THEN [d EXCEPT !.day = LengthOf(d.year, d.month - 1), !.month = @ - 1]
    ELSE [year |-> d.year - 1, month |-> 12, day |-> 31]

\* t, so many seconds later (less than a day)
Plus(t, seconds) ==
    LET s == t.sod + seconds
    IN  IF s < 0 THEN [date |-> DayBefore(t.date), sod |-> s + DAY]
        ELSE IF s >= DAY THEN [date |-> DayAfter(t.date), sod |-> s - DAY]
        ELSE [t EXCEPT !.sod = s]

DaysBefore(year, month) ==
    LET sum[m \in 1..12] == IF m = 1 THEN 0 ELSE sum[m - 1] + LengthOf(year, m - 1)
    IN  sum[month]

\* What the server prints for this instant.
LineOf(t, zone) ==
    LET local == Plus(t, IF zone = NoZone THEN DEFAULT_TZ_OFFSET_SEC ELSE zone)
    IN  [utc |-> t, year |-> local.date.year, tz |-> zone, sod |-> local.sod,
         doy |-> DaysBefore(local.date.year, local.date.month) + local.date.day]

\* Two seconds before a boundary, in UTC: of a leap year's February, of a year at zero and at
\* the places of the zones, of a century without a leap day, of the first and the last year.
Instant(year, month, day, sod) == [date |-> [year |-> year, month |-> month, day |-> day], sod |-> sod]
Boundary ==
    [leap_day |-> Instant(2024, 2, 28, DAY - 2), march |-> Instant(2024, 2, 29, DAY - 2),
     short |-> Instant(2025, 2, 28, DAY - 2), year |-> Instant(2024, 12, 31, DAY - 2),
     east |-> Instant(2024, 12, 31, DAY - 10802), west |-> Instant(2025, 1, 1, 17998),
     century |-> Instant(2100, 2, 28, DAY - 2), thousand |-> Instant(2000, 2, 29, DAY - 2),
     epoch |-> Instant(1969, 12, 31, DAY - 2), last |-> Instant(2100, 12, 31, DAY - 10802)]

ASSUME SerialTimeAssumption ==
    /\ Eves \subseteq DOMAIN Boundary /\ Zones \subseteq DOMAIN Offset
    /\ {MaxLines, MaxCuts, MaxUnwritten} \subseteq Nat

-----------------------------------------------------------------------------
VARIABLES
    utc, zone,  \* the server: the second to be printed next, and where it is
    sending,    \* the line it is in the middle of, as the piece still to come
    arrived,       \* pieces that arrived and were not read
    forwarding,    \* m_running
    response,   \* readResponse: the pieces read so far
    unit,       \* what the unit was told last
    lines, cuts, unwritten
timeVars == <<utc, zone, sending, arrived, forwarding, response, unit, lines, cuts, unwritten>>

\* Where a line may end too early: in front of the seconds, between their digits, in front
\* of the zone, behind its sign, between the digits of its hours.
Cut == {"time", "seconds", "zone", "sign", "hours"}

\* A piece of a line: all of it, its head, or its rest.
Piece(line, part, cut) == [line |-> line, part |-> part, cut |-> cut]
NoPiece == {}
EndsLine(p) == p.part # "head"

\* The two payloads, and for the history the text that each was made of.
Nothing == [time |-> 0, date |-> <<>>, of_time |-> <<>>, of_date |-> <<>>]

\* start: each port may fail to open, and the test goes on without the forwarder.
TimeInit ==
    /\ utc \in {Boundary[e] : e \in Eves} /\ zone \in {Offset[z] : z \in Zones} /\ forwarding \in BOOLEAN
    /\ sending = NoPiece /\ arrived = <<>> /\ response = <<>> /\ unit = Nothing
    /\ lines = 0 /\ cuts = 0 /\ unwritten = 0

-----------------------------------------------------------------------------
(* The server.                                                             *)

SendLine ==
    /\ lines < MaxLines /\ sending = NoPiece
    /\ lines' = lines + 1 /\ utc' = Plus(utc, 1)
    /\ LET line == LineOf(utc, zone)
       IN  \/ /\ arrived' = Append(arrived, Piece(line, "all", "none"))
              /\ UNCHANGED <<sending, cuts>>
           \/ \E cut \in Cut :
                /\ cuts < MaxCuts /\ cuts' = cuts + 1
                /\ zone = NoZone => cut \in {"time", "seconds"}
                /\ arrived' = Append(arrived, Piece(line, "head", cut))
                /\ sending' = {Piece(line, "rest", cut)}
    /\ UNCHANGED <<zone, forwarding, response, unit, unwritten>>

SendRest ==
    \E rest \in sending :
        /\ arrived' = Append(arrived, rest) /\ sending' = NoPiece
        /\ UNCHANGED <<utc, zone, forwarding, response, unit, lines, cuts, unwritten>>

-----------------------------------------------------------------------------
(* parseTimeString and parseTzOffset: the text is a sequence of pieces.    *)

\* Mutant: the rule of a hundred years is forgotten.
EveryFourthYear(year) == year % 4 = 0

isLeapYear(year) == (year % 4 = 0 /\ year % 100 # 0) \/ year % 400 = 0

days_in_month == <<31, 28, 31, 30, 31, 30, 31, 31, 30, 31, 30, 31>>

\* The month and day of a day of the year, and none when the year is not that long.
dayOfYearToDate(year, doy) ==
    LET days(m) == IF m = 2 /\ isLeapYear(year) THEN 29 ELSE days_in_month[m]
        sum[m \in 0..12] == IF m = 0 THEN 0 ELSE sum[m - 1] + days(m)
    IN  {[year |-> year, month |-> m, day |-> doy - sum[m - 1]] :
            m \in {k \in 1..12 : sum[k - 1] < doy /\ doy <= sum[k]}}

\* A text parses from its front: a line, or one whose head holds a digit of the seconds.  A
\* rest starts with too small a year, or with no digit.
Readable(text) == text[1].part = "all" \/ (text[1].part = "head" /\ text[1].cut # "time")
                                       \/ (Len(text) > 1 /\ text[1].part = "head")

\* The seconds of the day; of the seconds, the text may end after the first digit.
SodIn(text) ==
    LET sod == text[1].line.sod
        second == sod % 60
    IN  IF Len(text) = 1 /\ text[1].cut = "seconds" THEN sod - second + second \div 10 ELSE sod

parseTimeString(text) ==
    IF ~Readable(text) \/ text[1].line.year \notin 1970..2100 THEN {}
    ELSE {t \in {[date |-> d, sod |-> SodIn(text)] :
                    d \in dayOfYearToDate(text[1].line.year, text[1].line.doy)} :
            t # [date |-> [year |-> 1970, month |-> 1, day |-> 1], sod |-> 0]}

\* The zone is read behind the last sign in the text, in whatever line that is; a hour of
\* which only the first digit is there is that digit.
HasSign(p) == p.line.tz # NoZone /\ (p.part = "head" => p.cut \in {"sign", "hours"})
FirstDigit(tz) ==
    LET hours == (IF tz < 0 THEN -tz ELSE tz) \div 3600
    IN  (IF tz < 0 THEN -1 ELSE 1) * (hours \div 10) * 3600
SignsIn(text) == {i \in 1..Len(text) : HasSign(text[i])}
parseTzOffset(text) ==
    LET last == text[CHOOSE i \in SignsIn(text) : \A j \in SignsIn(text) : j <= i]
    IN  IF SignsIn(text) = {} \/ (last.part = "head" /\ last.cut = "sign") THEN DEFAULT_TZ_OFFSET_SEC
        ELSE IF last.part = "head" THEN FirstDigit(last.line.tz)
        ELSE last.line.tz

\* The subtraction is of unsigned numbers: before 1970 it is 2^32 seconds later.
Epoch == [year |-> 1970, month |-> 1, day |-> 1]
Wrapped(t) ==
    IF t.date.year >= 1970 THEN t
    ELSE Plus([date |-> [year |-> 2106, month |-> 2, day |-> 6], sod |-> t.sod], 23296)

send_ts(text, timestamp) == Wrapped(Plus(timestamp, -parseTzOffset(text)))

-----------------------------------------------------------------------------
(* The worker.                                                             *)

\* The payloads: a count of 2^-14 seconds, and three numbers of two bytes, the low one first.
Q14_SCALE == 16384
buildPacket(seconds_of_day) == seconds_of_day * Q14_SCALE
buildDatePacket(d) ==
    <<d.year % 256, d.year \div 256, d.month % 256, d.month \div 256, d.day % 256, d.day \div 256>>

\* sendRawData: all of a packet, or it gives up.  A packet that is not whole does not
\* pass the checksum at the unit.
Written(n) == unwritten + n <= MaxUnwritten /\ unwritten' = unwritten + n

\* The body of workerLoop: both packets are of one time stamp, and the second is sent
\* whether or not the first one was.
Forward(text) ==
    /\ response' = <<>>
    /\ IF parseTimeString(text) = {} THEN UNCHANGED <<unit, unwritten>>
       ELSE \E timestamp \in parseTimeString(text), time_sent, date_sent \in BOOLEAN :
              LET ts == send_ts(text, timestamp)
              IN  /\ Written(Cardinality({i \in {1, 2} : ~<<time_sent, date_sent>>[i]}))
                  /\ unit' = [time |-> IF time_sent THEN buildPacket(ts.sod) ELSE unit.time,
                              of_time |-> IF time_sent THEN text ELSE unit.of_time,
                              date |-> IF date_sent THEN buildDatePacket(ts.date) ELSE unit.date,
                              of_date |-> IF date_sent THEN text ELSE unit.of_date]

\* readResponse: all that is there, up to a newline and beyond.
readResponse ==
    /\ forwarding /\ arrived # <<>>
    /\ arrived' = <<>>
    /\ LET text == response \o arrived
       IN  IF \E i \in 1..Len(text) : EndsLine(text[i]) THEN Forward(text)
           ELSE response' = text /\ UNCHANGED <<unit, unwritten>>
    /\ UNCHANGED <<utc, zone, sending, forwarding, lines, cuts>>

\* The two seconds are over, or the read fails: what has come is taken for a line.
TimeIsUp ==
    /\ forwarding /\ response # <<>>
    /\ Forward(response)
    /\ UNCHANGED <<utc, zone, sending, arrived, forwarding, lines, cuts>>

\* stop, when the test ends: the worker is joined after its line, and the ports are closed.
StopForwarder ==
    /\ forwarding /\ response = <<>>
    /\ forwarding' = FALSE
    /\ UNCHANGED <<utc, zone, sending, arrived, response, unit, lines, cuts, unwritten>>

TimeNext == SendLine \/ SendRest \/ readResponse \/ TimeIsUp \/ StopForwarder

-----------------------------------------------------------------------------
\* What the unit was told is the second of the first line of the text, in UTC, over midnights, ends
\* of months, leap years and zones on both sides, and whether lines come singly, in pieces or
\* together: but for a text of which the seconds or the zone had not arrived, a
\* packet that was not written, and instants before 1970, which are told as of 2106.
Sound(text) ==
    LET last == text[Len(text)]
    IN  /\ last.part = "head" => Len(text) > 1 /\ last.cut \notin {"sign", "hours"}
        /\ text[1].line.utc.date.year >= 1970

ToldIsUtc ==
    LET Meant(text) == text[1].line.utc
        Shown(bytes) == [year |-> bytes[1] + 256 * bytes[2], month |-> bytes[3] + 256 * bytes[4],
                         day |-> bytes[5] + 256 * bytes[6]]
    IN  /\ unit.of_time # <<>> /\ Sound(unit.of_time) =>
             unit.time \div Q14_SCALE = Meant(unit.of_time).sod
        /\ unit.of_date # <<>> /\ Sound(unit.of_date) =>
             Shown(unit.date) = Meant(unit.of_date).date
===============================================================================

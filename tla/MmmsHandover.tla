---------------------------- MODULE MmmsHandover ----------------------------
(***************************************************************************)
(* The receiver of the MMMS hand-over (dpdk_cmc/src/MmmsHandler.c): what   *)
(* each of its functions does to the handler's state, as operators on a    *)
(* record.  TestApp interleaves them: the main thread sends the trigger    *)
(* and polls the time-out, an RX worker handles the packets, and nothing   *)
(* locks the state.                                                        *)
(*                                                                         *)
(* The device sends the files one after the other in one stream: "start"   *)
(* opens a file, "content" belongs to the last one opened, "finish" ends   *)
(* the stream.  Packet i carries the number Number(i), which wraps.        *)
(***************************************************************************)
EXTENDS Integers, Sequences, FiniteSets

CONSTANTS
    SeqMax,              \* largest number of a packet (255 in the code)
    FirstPacketTimeout   \* MMMS_FIRST_PACKET_TIMEOUT_S, in loops of main

ASSUME HandoverAssumption ==
    SeqMax \in Nat \ {0} /\ FirstPacketTimeout \in Nat \ {0}

Stream == <<"start", "content", "start", "content", "content", "finish">>
Packet == DOMAIN Stream
Number(i) == ((i - 1) % SeqMax) + 1

\* a file under reception, and what was written to it
NoFile == [start |-> 0, got |-> <<>>]

\* the handler after mmms_init; expected = 0: no number seen yet.  "first",
\* "rejected" and "forced" record what happened, the code has no such fields
Initialized ==
    [state |-> "IDLE", file |-> NoFile, closed |-> {}, expected |-> 0,
     corrupted |-> 0, armed_for |-> 0, first |-> 0, rejected |-> FALSE,
     forced |-> FALSE]

\* mmms_close_current_file
CloseCurrentFile(m) ==
    [m EXCEPT !.file = NoFile,
              !.closed = @ \cup ({m.file} \ {NoFile})]

mmms_next_seq(s) == IF s = SeqMax THEN 1 ELSE s + 1

\* mutant of HandleStart: the file under reception is not closed
StartKeepsFile(m, i, name) ==
    IF name = "rejected" THEN [m EXCEPT !.rejected = TRUE]
    ELSE IF name = "opened" /\ m.file = NoFile
         THEN [m EXCEPT !.file = [start |-> i, got |-> <<>>]] ELSE m

\* mmms_handle_start: a bad name is ignored before anything is closed, fopen
\* may fail after
HandleStart(m, i, name) ==
    IF name = "rejected" THEN [m EXCEPT !.rejected = TRUE]
    ELSE [CloseCurrentFile(m) EXCEPT !.file =
             IF name = "opened" THEN [start |-> i, got |-> <<>>] ELSE NoFile]

HandleFinish(m) == [CloseCurrentFile(m) EXCEPT !.state = "DONE_OK"]

HandleContent(m, i) ==
    IF m.file = NoFile THEN m ELSE [m EXCEPT !.file.got = Append(@, i)]

\* a number out of order is counted and the receiver follows it
TrackNumber(m, i) ==
    [m EXCEPT !.state = "RECEIVING",
              !.first = IF m.expected = 0 THEN i ELSE @,
              !.corrupted = IF m.expected \in {0, Number(i)} THEN @ ELSE @ + 1,
              !.expected = mmms_next_seq(Number(i))]

\* mmms_handle_packet
HandlePacket(m, i, name) ==
    LET tracked == TrackNumber(m, i)
    IN  IF m.state \notin {"ARMED", "RECEIVING"} THEN m
        ELSE CASE Stream[i] = "start"   -> HandleStart(tracked, i, name)
               [] Stream[i] = "content" -> HandleContent(tracked, i)
               [] Stream[i] = "finish"  -> HandleFinish(tracked)

\* the end of mmms_send_trigger, after rte_eth_tx_burst
Arm(m) == [m EXCEPT !.state = "ARMED", !.armed_for = 0]

\* mmms_check_timeout: the test, and the store it may lead to
TimeoutSeen(m) == m.state = "ARMED" /\ m.armed_for >= FirstPacketTimeout
StoreTimeout(m) == [m EXCEPT !.state = "DONE_TIMEOUT"]

mmms_is_done(m) == m.state \in {"DONE_OK", "DONE_TIMEOUT"}

\* mmms_finalize, once no worker runs
Finalize(m) ==
    LET closed == CloseCurrentFile(m)
    IN  IF m.state = "RECEIVING"
        THEN [closed EXCEPT !.state = "DONE_OK", !.forced = TRUE]
        ELSE closed

\* the content packets that belong to the file packet s starts
Contents(s) == {i \in Packet : /\ i > s
                               /\ \A j \in (s + 1)..i : Stream[j] = "content"}
Whole(f) == /\ {f.got[k] : k \in DOMAIN f.got} = Contents(f.start)
            /\ Len(f.got) = Cardinality(Contents(f.start))
=============================================================================

---------------------------- MODULE SwitchWiring ----------------------------
(***************************************************************************)
(* What the switch between the test server and the unit under test does    *)
(* with a VLAN, and what the test applications expect of it: the tables of *)
(* the four applications' Config.h, the interfaces files that are copied   *)
(* to the switch, and the "bridge vlan add ... untagged" commands that     *)
(* complete them (CumulusHelper.cpp, AteCumulusConfig.c).                  *)
(*                                                                         *)
(* A frame leaves a server port tagged with VLAN v, leaves the switch      *)
(* untagged at the device port of v, crosses the unit (or a loop-back      *)
(* plug), and comes back to the server tagged with the PVID of the device  *)
(* port at which it re-entered the switch.  All tables number their VLANs  *)
(* in blocks of four per server port; device port d has VLAN 97 + d and    *)
(* PVID 225 + d in every file.                                             *)
(***************************************************************************)
EXTENDS Integers, FiniteSets, Sequences

Unit == {"dtn", "vmc", "cmc"}           \* what is tested
File == Unit \cup {"ate"}               \* the interfaces files
Port == 0..7                            \* server ports
Bench == {"unit", "plugs", "nothing"}   \* what is cabled to the switch

Block(first) == first..(first + 3)
PvidOf(d) == 225 + d

\* Device ports of a file's bridge: swp25s0..swp32s3, or swp9s0..swp12s3
Iface(range, d) == [range |-> range, no |-> d]
MembersOf(file) ==
    CASE file \in {"dtn", "ate"} -> {Iface("swp25", d) : d \in 0..31}
      [] file = "vmc"            -> {Iface("swp9", d) : d \in 0..15}
      [] file = "cmc"            -> {Iface("swp9", d) : d \in 0..1}

-----------------------------------------------------------------------------
(* The applications' tables (PORT_VLAN_CONFIG_INIT, ATE_...).              *)

DtnTx == <<105, 109, 97, 101, 113, 117, 121, 125>>
DtnRx == <<253, 249, 245, 241, 229, 225, 237, 233>>
AteRx == <<237, 233, 229, 225, 245, 241, 253, 249>>
VmcTx == <<105, 109, 97, 101>>
VmcRx == <<233, 237, 225, 229>>

PortsOf(unit) ==
    CASE unit = "dtn" -> Port
      [] unit = "vmc" -> 0..3
      [] unit = "cmc" -> {2}

TxVlans(unit, p) ==
    CASE unit = "dtn" -> Block(DtnTx[p + 1])
      [] unit = "vmc" -> Block(VmcTx[p + 1])
      [] unit = "cmc" -> {97, 98}

\* mutant of RxVlans: port_vlans_load_config is forgotten
RxVlansNormal(unit, ate, p) ==
    CASE unit = "dtn" -> Block(DtnRx[p + 1])
      [] unit = "vmc" -> Block(VmcRx[p + 1])
      [] unit = "cmc" -> {225, 226}

\* the table port_vlans_load_config chose
RxVlans(unit, ate, p) ==
    CASE unit = "dtn" -> Block((IF ate THEN AteRx ELSE DtnRx)[p + 1])
      [] unit = "vmc" -> Block(VmcRx[p + 1])
      [] unit = "cmc" -> {225, 226}

\* start_txrx_workers: the port a port of the DTN application sends to
Paired(p) == IF p % 2 = 0 THEN p + 1 ELSE p - 1

\* ... and where the frames of a port are expected
Target(unit, p) == IF unit = "dtn" THEN Paired(p) ELSE p

-----------------------------------------------------------------------------
(* The interfaces files: the VLANs of a server port.                       *)

DtnFile == <<253, 249, 245, 241, 229, 225, 237, 233>>
AteFile == <<237, 233, 229, 225, 245, 241, 253, 249>>
VmcFile == <<233, 237, 225, 229, 241, 245, 249, 253>>

FileVids(file, p) ==
    IF file = "cmc" THEN IF p = 2 THEN {97, 98, 225, 226} ELSE {}
    ELSE LET rx == CASE file = "dtn" -> DtnFile
                     [] file = "ate" -> AteFile
                     [] file = "vmc" -> VmcFile
         IN  Block(DtnTx[p + 1]) \cup Block(rx[p + 1])

-----------------------------------------------------------------------------
(* The switch: [file: on its disk, loaded: the file in force, added: the   *)
(* device ports whose VLAN leaves untagged].                               *)

NewSwitch(file) == [file |-> file, loaded |-> file, added |-> {}]

\* ifreload -a, or a restart: the file on disk, and no added entry
Reloaded(sw) == NewSwitch(sw.file)

\* bridge vlan add dev ... vid ... untagged
egressUntagged(range, no, vlan) == [port |-> Iface(range, no), vlan |-> vlan]

\* The helpers of one port each, from when the ports were configured one by one: four
\* commands each, the first that fails is the last.  No sequence calls them any more.
FourOf(range, no, vlan) == [s \in 1..4 |-> egressUntagged(range, no + s - 1, vlan + s - 1)]
configureSwp1325 == FourOf("swp25", 0, 97)
configureSwp1426 == FourOf("swp25", 4, 101)
configureSwp1527 == FourOf("swp25", 8, 105)
configureSwp1628 == FourOf("swp25", 12, 109)
configureSwp1729 == FourOf("swp25", 16, 113)
configureSwp1830 == FourOf("swp25", 20, 117)
configureSwp1931 == FourOf("swp25", 24, 121)
configureSwp2032 == FourOf("swp25", 28, 125)
configureSwp1309 == FourOf("swp9", 0, 97)
configureSwp1410 == FourOf("swp9", 4, 101)
configureSwp1511 == FourOf("swp9", 8, 105)
configureSwp1612 == FourOf("swp9", 12, 109)
HelpersDtn == configureSwp1325 \o configureSwp1426 \o configureSwp1527 \o configureSwp1628
              \o configureSwp1729 \o configureSwp1830 \o configureSwp1931 \o configureSwp2032
HelpersVmc == configureSwp1309 \o configureSwp1410 \o configureSwp1511 \o configureSwp1612

\* expectedVlansDtn, expectedVlansVmc, expectedVlansCmc
ExpectedDtn == [d \in 1..32 |-> Iface("swp25", d - 1)]
ExpectedVmc == [d \in 1..16 |-> Iface("swp9", d - 1)]
ExpectedCmc == [d \in 1..2 |-> Iface("swp9", d - 1)]

\* "Matches the old configureSwp1325..2032 sequence", and the same of VMC: in the ports and
\* their order, and in the VLANs, which a port's number gives everywhere else.
ASSUME ExpectedMatchesHelpers ==
    /\ ExpectedDtn = [i \in 1..32 |-> HelpersDtn[i].port]
    /\ ExpectedVmc = [i \in 1..16 |-> HelpersVmc[i].port]
    /\ \A i \in 1..32 : HelpersDtn[i].vlan = 97 + ExpectedDtn[i].no
    /\ \A i \in 1..16 : HelpersVmc[i].vlan = 97 + ExpectedVmc[i].no

\* ate_configure_swp1325 ... ate_configure_swp2032
ExpectedAte == [d \in 1..32 |-> Iface("swp25", d - 1)]

Expected(unit) ==
    CASE unit = "dtn" -> ExpectedDtn
      [] unit = "vmc" -> ExpectedVmc
      [] unit = "cmc" -> ExpectedCmc

\* fetchBridgeVlanState, parseBridgeVlanJson: the untagged entries
Fetched(sw) == sw.added

\* hasAllExpectedVlans: entries beyond the expected ones are not looked at,
\* nor are PVIDs and the server's side
HasAllExpectedVlans(sw, unit) ==
    \A i \in DOMAIN Expected(unit) : Expected(unit)[i] \in Fetched(sw)

\* the first n commands of a batch are carried out
Prefix(sw, batch, n) ==
    [sw EXCEPT !.added = @ \cup {batch[i] : i \in 1..n}]

\* a command for a port that is not in the bridge fails
Accepts(sw, batch) == \A i \in DOMAIN batch : batch[i] \in MembersOf(sw.loaded)

-----------------------------------------------------------------------------
(* Where a frame comes home.                                               *)

\* the unit under test, or a plug on every port
Crossed(unit, bench, d) ==
    CASE bench = "plugs"                     -> d
      [] bench = "unit" /\ unit = "dtn"      -> (d + 16) % 32
      [] bench = "unit" /\ unit = "vmc"      -> CASE d = 9  -> 11
                                                  [] d = 11 -> 9
                                                  [] OTHER  -> d
      [] bench = "unit" /\ unit = "cmc"      -> d

\* the server ports at which a frame sent from port p with VLAN v comes
\* back, each with the VLAN it then has
Home(sw, unit, bench, p, v) ==
    LET d == v - 97
        w == PvidOf(Crossed(unit, bench, d))
        out == {Iface("swp25", d), Iface("swp9", d)} \cap sw.added
                   \cap MembersOf(sw.loaded)
    IN  IF bench = "nothing" \/ out = {} \/ v \notin FileVids(sw.loaded, p) THEN {}
        ELSE {<<q, w>> : q \in {q \in Port : w \in FileVids(sw.loaded, q)}}

\* every VLAN the application sends comes home once, where its workers and
\* its tables expect it
Routed(sw, unit, ate, bench) ==
    \A p \in PortsOf(unit) : \A v \in TxVlans(unit, p) :
        LET q == Target(unit, p) IN
        \E w \in RxVlans(unit, ate, q) : Home(sw, unit, bench, p, v) = {<<q, w>>}

=============================================================================

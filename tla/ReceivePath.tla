---------------------------- MODULE ReceivePath ----------------------------
(***************************************************************************)
(* What wch_decode_transfer keeps per radio from record to record: the     *)
(* clock (DeviceClock), the connection followed, and the SN/NESN state     *)
(* that classify_data_packet infers directions from.                       *)
(*                                                                         *)
(* The radio runs beside a central and a peripheral that exchange numbered *)
(* packets by the Link Layer's one-bit acknowledgement.  Packets are lost  *)
(* between the peers and, independently, missed by the radio.  The peers   *)
(* keep true packet numbers; only their parities are on air.  Framing is   *)
(* FrameStream's subject, decryption EncryptedLink's.                      *)
(***************************************************************************)
EXTENDS DeviceClock

CONSTANTS
    Connections,    \* identities of connections
    MaxPackets      \* bound on the packets of one direction of a connection

ASSUME LinkAssumption ==
    /\ MaxPackets \in Nat
    /\ 0 \notin Connections

NoPhase == 255      \* UINT8_MAX: no event seen in this connection
NoConn == 0

VARIABLES
    (* wch_device_t *)
    connection_active,
    connection,             \* whose parameters are kept
    previous_event_phase,
    direction_state,
    previous_nesn,
    previous_sn,

    (* wch_pkt_hdr_t of the last record *)
    hdr,

    (* The link that the firmware follows. *)
    followed,       \* its connection, NoConn while on an advertising channel
    used,           \* connections that have been
    phase,          \* bit 7 of the channel byte: toggles with every event
    turn,           \* who sends next in this event, "none" when it is over
    sC, rC,         \* central: packet it sends, packets it has received
    sP, rP,         \* peripheral: the same

    (* What the properties remember. *)
    tracked,        \* the CONNECT_IND of the followed connection was accepted
    lastPhase,      \* phase of the data packet captured last since a
                    \* CONNECT_IND was accepted, else NoPhase
    anchored,       \* a central's packet was the first one captured of the
                    \* event, after the peers had exchanged something
    heard,          \* sender of the packet before, if it was captured
    truth           \* of the last record: who sent it, and what it meant

tracking == <<connection_active, connection>>
classifier == <<previous_event_phase, direction_state, previous_nesn,
                previous_sn>>
peers == <<turn, sC, rC, sP, rP>>
ghosts == <<tracked, lastPhase, anchored, heard, truth>>
pathVars == <<tracking, classifier, hdr, followed, used, phase, peers, ghosts>>
vars == <<clockVars, pathVars>>

Bit(n) == n % 2

Other(x) == IF x = "central" THEN "peripheral" ELSE "central"

NoHeader == [link |-> "none", conn |-> NoConn, direction |-> "unknown", class |-> 0]

NoTruth == [sender |-> "none", adjacent |-> FALSE, acks |-> FALSE]

Init ==
    /\ ClockInit
    /\ connection_active = FALSE
    /\ connection = NoConn
    /\ previous_event_phase = NoPhase
    /\ direction_state = 0
    /\ previous_nesn = 0
    /\ previous_sn = 1
    /\ hdr = NoHeader
    /\ followed = NoConn
    /\ used = {}
    /\ phase = 0
    /\ turn = "none"
    /\ sC = 0 /\ rC = 0 /\ sP = 0 /\ rP = 0
    /\ tracked = FALSE
    /\ lastPhase = NoPhase
    /\ anchored = FALSE
    /\ heard = "none"
    /\ truth = NoTruth

---------------------------------------------------------------------------
(* classify_data_packet. *)

\* Fault: SN is compared with SN.
ClassBySn(sn, nesn) ==
    IF previous_sn # sn THEN (IF previous_nesn # nesn THEN 1 ELSE 0)
    ELSE IF previous_nesn = nesn THEN 2 ELSE 3

SequenceClass(sn, nesn) ==
    CASE previous_sn # nesn -> IF previous_nesn # sn THEN 1 ELSE 0
      [] previous_sn = nesn /\ previous_nesn = nesn ->
            IF previous_sn = sn THEN 2 ELSE 3
      [] OTHER -> 3

Differ(a, b) == IF a # b THEN 1 ELSE 0

NewEvent == phase # previous_event_phase

\* Fault: the state accumulates.
StateAccumulates(sn, nesn) ==
    IF NewEvent THEN direction_state + Differ(nesn, sn) ELSE direction_state

DirectionState(sn, nesn) == IF NewEvent THEN Differ(nesn, sn) ELSE direction_state

Reverse(sn, nesn) ==
    IF NewEvent THEN 0 ELSE Differ(direction_state, Differ(nesn, sn))

Classify(sn, nesn) ==
    /\ previous_event_phase' = phase
    /\ direction_state' = DirectionState(sn, nesn)
    /\ previous_nesn' = nesn
    /\ previous_sn' = sn

---------------------------------------------------------------------------
(* One record through wch_decode_transfer. *)

\* A data-channel record: classified while a connection is active, else
\* taken for an advertising PDU.  (A payload that then happens to be a valid
\* CONNECT_IND is left out: ten fields would have to be in range.)
DecodeData(sn, nesn) ==
    /\ Stamp
    /\ IF connection_active
       THEN /\ Classify(sn, nesn)
            /\ hdr' = [link |-> "data", conn |-> connection,
                       direction |-> IF Reverse(sn, nesn) # 0
                                     THEN "advertiser_to_initiator"
                                     ELSE "initiator_to_advertiser",
                       class |-> SequenceClass(sn, nesn)]
       ELSE /\ hdr' = [NoHeader EXCEPT !.link = "advertising"]
            /\ UNCHANGED classifier

DecodeAdvertising ==
    /\ Stamp
    /\ hdr' = [NoHeader EXCEPT !.link = "advertising"]

\* Fault: a connection that is still active is kept.
AcceptWhenIdle(c) ==
    /\ connection_active' = TRUE
    /\ connection' = IF connection_active THEN connection ELSE c
    /\ previous_event_phase' = NoPhase
    /\ direction_state' = 0
    /\ previous_nesn' = 0
    /\ previous_sn' = 1

\* Fault: the phase of the connection before stays.
AcceptKeepingPhase(c) ==
    /\ connection_active' = TRUE
    /\ connection' = c
    /\ previous_event_phase' = previous_event_phase
    /\ direction_state' = 0
    /\ previous_nesn' = 0
    /\ previous_sn' = 1

\* A CONNECT_IND that ble_conn_parse_connect_ind accepts.
\* connection_generation is left out: nothing reads it.
Accept(c) ==
    /\ connection_active' = TRUE
    /\ connection' = c
    /\ previous_event_phase' = NoPhase
    /\ direction_state' = 0
    /\ previous_nesn' = 0
    /\ previous_sn' = 1

---------------------------------------------------------------------------
(* The advertising channel. *)

\* Any advertising record but a CONNECT_IND that starts a connection.
Advertise ==
    /\ followed = NoConn
    /\ DecodeAdvertising
    /\ truth' = NoTruth
    /\ UNCHANGED <<tracking, classifier, followed, used, phase, peers, tracked,
                   lastPhase, anchored, heard>>

\* The firmware follows connection c from its CONNECT_IND on.  The record of
\* it may be lost on USB, and its parameters may be refused.
Connect(c) ==
    /\ followed = NoConn /\ c \notin used
    /\ followed' = c
    /\ used' = used \cup {c}
    /\ turn' = "central"
    /\ sC' = 0 /\ rC' = 0 /\ sP' = 0 /\ rP' = 0
    /\ phase' \in {0, 1}
    /\ anchored' = FALSE
    /\ heard' = "none"
    /\ truth' = NoTruth
    /\ \/ /\ DecodeAdvertising
          /\ Accept(c)
          /\ tracked' = TRUE
          /\ lastPhase' = NoPhase
       \/ /\ DecodeAdvertising
          /\ tracked' = FALSE
          /\ UNCHANGED <<tracking, classifier, lastPhase>>
       \/ /\ tracked' = FALSE
          /\ UNCHANGED <<clockVars, hdr, tracking, classifier, lastPhase>>

\* The connection ends; nothing tells the host.
Disconnect ==
    /\ followed # NoConn
    /\ followed' = NoConn
    /\ turn' = "none"
    /\ UNCHANGED <<clockVars, tracking, classifier, hdr, used, phase, sC, rC,
                   sP, rP, ghosts>>

---------------------------------------------------------------------------
(* The followed connection. *)

NextEvent ==
    /\ followed # NoConn
    /\ phase' = 1 - phase
    /\ turn' = "central"
    /\ heard' = "none"
    /\ UNCHANGED <<clockVars, tracking, classifier, hdr, followed, used, sC, rC,
                   sP, rP, tracked, lastPhase, anchored, truth>>

\* The radio misses a packet.
Miss ==
    /\ heard' = "none"
    /\ UNCHANGED <<clockVars, tracking, classifier, hdr, tracked, lastPhase,
                   anchored, truth>>

\* Some packet of this connection has arrived.
Synced(c, p) == c > 0 \/ p > 0

\* The radio captures a packet of x; acks: x has received the packet before.
Capture(x, sn, nesn, acks) ==
    /\ DecodeData(sn, nesn)
    /\ truth' = [sender |-> x, adjacent |-> heard = Other(x), acks |-> acks]
    /\ heard' = x
    /\ lastPhase' = IF connection_active THEN phase ELSE lastPhase
    /\ anchored' = IF connection_active /\ phase # lastPhase
                   THEN x = "central" /\ Synced(rC', rP')
                   ELSE anchored
    /\ UNCHANGED <<tracking, tracked>>

\* A packet arrives intact, with a bad CRC (answered all the same), or not
\* at all.  Intact, it is new if its SN is the one expected, and its NESN
\* may acknowledge what the receiver sends.
Fates == {"intact", "corrupt", "unheard"}

CentralSends ==
    /\ followed # NoConn /\ turn = "central"
    /\ sC < MaxPackets /\ sP < MaxPackets
    /\ \E fate \in Fates :
          /\ rP' = IF fate = "intact" /\ Bit(sC) = Bit(rP) THEN rP + 1 ELSE rP
          /\ sP' = IF fate = "intact" /\ Bit(rC) # Bit(sP) THEN sP + 1 ELSE sP
          /\ turn' = IF fate = "unheard" THEN "none" ELSE "peripheral"
    /\ UNCHANGED <<followed, used, phase, sC, rC>>
    /\ Capture("central", Bit(sC), Bit(rC), rC > sP) \/ Miss

PeripheralSends ==
    /\ followed # NoConn /\ turn = "peripheral"
    /\ sC < MaxPackets /\ sP < MaxPackets
    /\ \E fate \in Fates :
          /\ rC' = IF fate = "intact" /\ Bit(sP) = Bit(rC) THEN rC + 1 ELSE rC
          /\ sC' = IF fate = "intact" /\ Bit(rP) # Bit(sC) THEN sC + 1 ELSE sC
          /\ turn' = IF fate = "unheard" THEN "none" ELSE "central"
    /\ UNCHANGED <<followed, used, phase, sP, rP>>
    /\ Capture("peripheral", Bit(sP), Bit(rP), rP > sC) \/ Miss

Next ==
    \/ Elapse /\ UNCHANGED pathVars
    \/ Advertise
    \/ \E c \in Connections : Connect(c)
    \/ Disconnect
    \/ NextEvent
    \/ CentralSends
    \/ PeripheralSends

Spec == Init /\ [][Next]_vars

---------------------------------------------------------------------------
(* Properties. *)

Peers == {"central", "peripheral"}

TypeOK ==
    /\ ClockTypeOK
    /\ connection_active \in BOOLEAN
    /\ connection \in Connections \cup {NoConn}
    /\ previous_event_phase \in {0, 1, NoPhase}
    /\ direction_state \in {0, 1}
    /\ previous_nesn \in {0, 1}
    /\ previous_sn \in {0, 1}
    /\ hdr \in [link : {"none", "advertising", "data"},
                conn : Connections \cup {NoConn},
                direction : {"unknown", "initiator_to_advertiser",
                             "advertiser_to_initiator"},
                class : 0..3]
    /\ followed \in Connections \cup {NoConn}
    /\ used \subseteq Connections
    /\ phase \in {0, 1}
    /\ turn \in Peers \cup {"none"}
    /\ sC \in Nat /\ rC \in Nat /\ sP \in Nat /\ rP \in Nat
    /\ tracked \in BOOLEAN
    /\ lastPhase \in {0, 1, NoPhase}
    /\ anchored \in BOOLEAN
    /\ heard \in Peers \cup {"none"}
    /\ truth \in [sender : Peers \cup {"none"}, adjacent : BOOLEAN, acks : BOOLEAN]

\* The direction reported for a data packet is the true one whenever the
\* first one captured of an event was a central's and the peers had exchanged
\* something by then: whatever they lose, whatever the radio misses afterwards,
\* whole events included, and whatever the connections before have left in the
\* classifier.  (Events are told apart by one bit: a packet opens one if its
\* phase differs from that of the packet captured before it in the connection.)
DirectionFaithful ==
    (hdr.link = "data" /\ anchored) =>
        hdr.direction = IF truth.sender = "central" THEN "initiator_to_advertiser"
                        ELSE "advertiser_to_initiator"

\* For a packet captured right after the one it answers, the sequence class
\* tells whether the sender acknowledges that one: one bit each way is enough.
ClassTellsDelivery ==
    (hdr.link = "data" /\ truth.adjacent) => (hdr.class \in {0, 1} <=> truth.acks)

\* A data packet is reported with the parameters of the connection it belongs
\* to, if that connection's CONNECT_IND was accepted: nothing of an earlier
\* connection, which never ends for the host, stays behind.
DataAttributed ==
    (tracked /\ truth.sender # "none") =>
        /\ hdr.link = "data"
        /\ followed # NoConn => hdr.conn = followed
============================================================================

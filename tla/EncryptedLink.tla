--------------------------- MODULE EncryptedLink ---------------------------
(***************************************************************************)
(* The sniffer beside an encrypted connection: BleCrypto driven by the     *)
(* data-channel half of wch_decode_transfer (ble-driver/wch_ble_analyzer.c)*)
(* while a central and a peripheral connect, encrypt, pause, encrypt again *)
(* and part, and the radio captures or misses every transmission.          *)
(*                                                                         *)
(* The peers are the environment: the Link Layer's encryption procedures,  *)
(* one PDU in flight per direction, repeated until the other side has it.  *)
(***************************************************************************)
EXTENDS BleCrypto, FiniteSets

CONSTANTS
    Ltks,             \* what the user may have given with -k
    MaxConnections,   \* bound: connections made by the peers
    MaxSessions,      \* bound: encryption sessions started
    MaxCounter,       \* bound: highest counter used in a session
    Retransmissions   \* may a PDU be sent again?

LinkLtk == "the link's LTK"

ASSUME LinkAssumption ==
    /\ Ltks # {}
    /\ MaxConnections \in Nat
    /\ MaxSessions \in Nat
    /\ MaxCounter \in 0..(CounterLimit - 1)
    /\ Retransmissions \in BOOLEAN

VARIABLES
    (* The peers. *)
    phase,      \* how far the encryption procedures have got
    connections,\* connections made so far
    session,    \* number of the last session begun
    counter,    \* next packet counter of each direction
    last,       \* last new PDU sent in each direction
    since,      \* new PDUs the other side has sent since that one
    owed,       \* directions whose last PDU must be repeated first

    (* The sniffer. *)
    connectionActive, \* dev->connection_active
    crypto,           \* dev->crypto
    report,           \* the packet just given to the callback

    (* What the properties remember. *)
    intact,     \* nothing that switches keys or modes was missed so far
    requested,  \* session of the last LL_ENC_REQ captured
    heard,      \* last encrypted PDU captured in each direction
    accepted    \* last PDU reported decrypted in each direction

peers == <<phase, connections, session, counter, last, since, owed>>
sniffer == <<connectionActive, crypto, report>>
history == <<intact, requested, heard, accepted>>
vars == <<peers, sniffer, history>>

NoPdu == [op |-> "NONE", dir |-> PeripheralToCentral, half |-> NoHalf,
          key |-> Plain, counter |-> 0]
NoPdus == [d \in Direction |-> NoPdu]
NoReport == [pdu |-> NoPdu, decrypted |-> FALSE, retransmission |-> FALSE]

Other(d) == 1 - d

Init ==
    /\ phase = "off"
    /\ connections = 0
    /\ session = 0
    /\ counter = Zero
    /\ last = NoPdus
    /\ since = Zero
    /\ owed = {}
    /\ connectionActive = FALSE
    /\ crypto \in {CryptoState(ltk) : ltk \in Ltks}
    /\ report = NoReport
    /\ intact = FALSE
    /\ requested = NoHalf
    /\ heard = NoPdus
    /\ accepted = NoPdus

---------------------------------------------------------------------------
(* The receive path for one captured data-channel PDU. *)

\* The PDUs whose loss leaves the sniffer without a key or in the wrong mode.
SetUp == {"ENC_REQ", "ENC_RSP", "START_ENC_REQ", "PAUSE_ENC_RSP"}

Encrypted(pdu) == pdu.key # Plain

\* Without an accepted CONNECT_IND the PDU is taken for advertising.
CaptureUnfollowed(pdu) ==
    /\ ~connectionActive
    /\ report' = [NoReport EXCEPT !.pdu = pdu]
    /\ UNCHANGED crypto

\* Encryption is not active: the PDU is observed as it is.
CapturePlain(pdu) ==
    /\ connectionActive /\ ~crypto.encryptionActive
    /\ ~Encrypted(pdu)
    /\ crypto' = ObserveControl(crypto, pdu)
    /\ report' = [NoReport EXCEPT !.pdu = pdu]

\* ... and so is ciphertext, whose first byte can be any opcode.  The header
\* is not encrypted, so only control PDUs can be misread.  Those that the
\* modelled peers send are too short for LL_ENC_RSP (13 bytes) and LL_ENC_REQ
\* (23); a longer one could be taken for either and would replace a key half,
\* when the capture has already missed an LL_START_ENC_REQ.  The other
\* opcodes change nothing here.
CaptureCiphertext(pdu) ==
    /\ connectionActive /\ ~crypto.encryptionActive
    /\ Encrypted(pdu)
    /\ \/ UNCHANGED crypto
       \/ /\ pdu.op # "DATA"
          /\ crypto' = ObserveControl(crypto, [op |-> "START_ENC_REQ"])
    /\ report' = [NoReport EXCEPT !.pdu = pdu]

CaptureNext(pdu) ==
    /\ connectionActive
    /\ IsNext(crypto, pdu)
    /\ crypto' = ObserveControl(Finish(crypto, pdu), pdu)
    /\ report' = [pdu |-> pdu, decrypted |-> TRUE, retransmission |-> FALSE]

CaptureRetransmission(pdu) ==
    /\ connectionActive
    /\ IsRetransmission(crypto, pdu)
    /\ crypto' = ObserveControl(crypto, pdu)
    /\ report' = [pdu |-> pdu, decrypted |-> TRUE, retransmission |-> TRUE]

\* Encryption is active and the PDU does not decrypt: no key, a bad MIC, or
\* no MIC at all.  Its contents are not looked at.
CaptureOpaque(pdu) ==
    /\ connectionActive /\ crypto.encryptionActive
    /\ ~IsNext(crypto, pdu) /\ ~IsRetransmission(crypto, pdu)
    /\ report' = [NoReport EXCEPT !.pdu = pdu]
    /\ UNCHANGED crypto

\* What breaks the properties' premise: a run of CounterWindow misses, and
\* ciphertext taken for LL_START_ENC_REQ.
WithinWindow(pdu) ==
    \/ pdu.counter < CounterWindow
    \/ /\ heard[pdu.dir].key = pdu.key
       /\ pdu.counter <= heard[pdu.dir].counter + CounterWindow

Misread(pdu) ==
    Encrypted(pdu) /\ ~crypto.encryptionActive /\ crypto'.encryptionActive

Capture(pdu) ==
    /\ \/ CaptureUnfollowed(pdu) \/ CapturePlain(pdu) \/ CaptureCiphertext(pdu)
       \/ CaptureNext(pdu) \/ CaptureRetransmission(pdu) \/ CaptureOpaque(pdu)
    /\ requested' = IF pdu.op = "ENC_REQ" THEN pdu.half ELSE requested
    /\ heard' = IF Encrypted(pdu) THEN [heard EXCEPT ![pdu.dir] = pdu] ELSE heard
    /\ accepted' = IF report'.decrypted
                   THEN [accepted EXCEPT ![pdu.dir] = pdu] ELSE accepted
    /\ intact' = /\ intact
                 /\ Encrypted(pdu) => WithinWindow(pdu)
                 /\ ~Misread(pdu)
    /\ UNCHANGED connectionActive

\* A miss, or a PDU dropped for its CRC marker.
Miss(pdu) ==
    /\ intact' = (intact /\ pdu.op \notin SetUp)
    /\ report' = NoReport
    /\ UNCHANGED <<connectionActive, crypto, requested, heard, accepted>>

---------------------------------------------------------------------------
(* The peers. *)

\* CONNECT_IND.  If captured, wch_decode_transfer starts over with this
\* connection; the parser's rejections are misses here.
Connect ==
    /\ phase = "off"
    /\ connections < MaxConnections
    /\ connections' = connections + 1
    /\ phase' = "plain"
    /\ last' = NoPdus
    /\ since' = Zero
    /\ owed' = {}
    /\ \E caught \in BOOLEAN :
          /\ intact' = caught
          /\ connectionActive' = (connectionActive \/ caught)
          /\ crypto' = IF caught THEN ResetConnection(crypto) ELSE crypto
    /\ report' = NoReport
    /\ heard' = NoPdus
    /\ accepted' = NoPdus
    /\ UNCHANGED <<session, counter, requested>>

\* A new PDU in direction d, in the clear or under the session's key.
Transmit(d, op, encrypted) ==
    LET pdu == [op |-> op, dir |-> d, half |-> session',
                key |-> IF encrypted THEN <<LinkLtk, session, session>> ELSE Plain,
                counter |-> IF encrypted THEN counter[d] ELSE 0]
    IN  /\ owed = {}
        /\ encrypted => counter[d] <= MaxCounter
        /\ counter' = IF op = "ENC_REQ" THEN Zero
                      ELSE IF encrypted THEN [counter EXCEPT ![d] = @ + 1]
                      ELSE counter
        /\ last' = [last EXCEPT ![d] = pdu]
        /\ since' = [e \in Direction |-> IF e = d THEN 0
                                         ELSE IF since[e] < 2 THEN since[e] + 1
                                         ELSE 2]
        /\ UNCHANGED <<connections, owed>>
        /\ Capture(pdu) \/ Miss(pdu)

\* A PDU is sent again while its acknowledgement is outstanding.  If the other
\* side has sent a new PDU since, that one was not received either and is
\* repeated before anything new.
Retransmit(d) ==
    /\ Retransmissions
    /\ phase # "off"
    /\ last[d] # NoPdu
    /\ since[d] < 2
    /\ owed \subseteq {d}
    /\ owed' = IF since[d] = 1 THEN {Other(d)} ELSE {}
    /\ UNCHANGED <<phase, connections, session, counter, last, since>>
    /\ Capture(last[d]) \/ Miss(last[d])

\* One step of the procedures: op is sent in direction d in phase from.
Step(from, d, op, encrypted, to) ==
    /\ phase = from
    /\ phase' = to
    /\ session' = session
    /\ Transmit(d, op, encrypted)

Data ==
    \E d \in Direction : \/ Step("plain", d, "DATA", FALSE, "plain")
                         \/ Step("encrypted", d, "DATA", TRUE, "encrypted")

\* LL_ENC_REQ opens a session: SKDm and IVm are drawn, the counters reset.
EncReq ==
    /\ phase \in {"plain", "paused"}
    /\ session < MaxSessions
    /\ session' = session + 1
    /\ phase' = "requested"
    /\ Transmit(CentralToPeripheral, "ENC_REQ", FALSE)

EncRsp == Step("requested", PeripheralToCentral, "ENC_RSP", FALSE, "answered")

StartEncReq ==
    Step("answered", PeripheralToCentral, "START_ENC_REQ", FALSE, "starting")

StartEncRspC ==
    Step("starting", CentralToPeripheral, "START_ENC_RSP", TRUE, "started")

StartEncRspP ==
    Step("started", PeripheralToCentral, "START_ENC_RSP", TRUE, "encrypted")

PauseEncReq ==
    Step("encrypted", CentralToPeripheral, "PAUSE_ENC_REQ", TRUE, "pausing")

\* The peripheral's response is still protected, the central's is not.
PauseEncRspP ==
    Step("pausing", PeripheralToCentral, "PAUSE_ENC_RSP", TRUE, "clearing")

PauseEncRspC ==
    Step("clearing", CentralToPeripheral, "PAUSE_ENC_RSP", FALSE, "paused")

Terminate ==
    \E d \in Direction :
        \/ Step("plain", d, "TERMINATE_IND", FALSE, "off")
        \/ Step("encrypted", d, "TERMINATE_IND", TRUE, "off")

\* The supervision timeout ends the connection without a PDU.
Vanish ==
    /\ phase # "off"
    /\ phase' = "off"
    /\ report' = NoReport
    /\ UNCHANGED <<connections, session, counter, last, since, owed,
                   connectionActive, crypto, history>>

Next == \/ Connect \/ Data
        \/ EncReq \/ EncRsp \/ StartEncReq \/ StartEncRspC \/ StartEncRspP
        \/ PauseEncReq \/ PauseEncRspP \/ PauseEncRspC
        \/ Terminate \/ Vanish
        \/ \E d \in Direction : Retransmit(d)

Spec == Init /\ [][Next]_vars

---------------------------------------------------------------------------
(* Properties. *)

Pdu == [op : {"NONE", "DATA", "ENC_REQ", "ENC_RSP", "START_ENC_REQ",
              "START_ENC_RSP", "PAUSE_ENC_REQ", "PAUSE_ENC_RSP", "TERMINATE_IND"},
        dir : Direction,
        half : 0..MaxSessions,
        key : {Plain} \cup ({LinkLtk} \X (1..MaxSessions) \X (1..MaxSessions)),
        counter : 0..MaxCounter]

TypeOK ==
    /\ phase \in {"off", "plain", "requested", "answered", "starting", "started",
                  "encrypted", "pausing", "clearing", "paused"}
    /\ connections \in 0..MaxConnections
    /\ session \in 0..MaxSessions
    /\ counter \in [Direction -> 0..(MaxCounter + 1)]
    /\ since \in [Direction -> 0..2]
    /\ owed \subseteq Direction
    /\ connectionActive \in BOOLEAN
    /\ crypto.ltk \in Ltks
    /\ crypto.skdm \in 0..MaxSessions
    /\ crypto.skds \in 0..MaxSessions
    /\ crypto.sessionKeyReady => crypto.skdm # NoHalf /\ crypto.skds # NoHalf
    /\ crypto.nextCounter \in [Direction -> 0..(MaxCounter + 1)]
    /\ intact \in BOOLEAN
    /\ requested \in 0..MaxSessions
    /\ \A d \in Direction : {last[d], heard[d], accepted[d]} \subseteq Pdu
    /\ report.pdu \in Pdu

\* Given the link's LTK, and as long as nothing that switches keys or modes
\* and no run of CounterWindow packets was missed since a captured CONNECT_IND,
\* every captured encrypted PDU is decrypted: loss of other packets,
\* repetitions of any packet, a second session on the connection, and whatever
\* went wrong on earlier connections make no difference (ble_crypto.c:344,
\* "Search forward first so packet loss does not desynchronise the stream").
\* What is repeated after the LL_PAUSE_ENC_RSP that ended its session is the
\* exception: it is still ciphertext, and the sniffer expects none.
Ended(pdu) ==
    \E d \in Direction : /\ accepted[d].op = "PAUSE_ENC_RSP"
                        /\ accepted[d].key = pdu.key

IntactCaptureDecrypts ==
    [][ /\ report'.pdu # NoPdu
        /\ intact' /\ crypto.ltk = LinkLtk
        /\ Encrypted(report'.pdu) /\ ~Ended(report'.pdu)
        => report'.decrypted ]_vars

\* Within a session, packets not marked as retransmissions have increasing
\* counters in each direction: no packet is accepted twice as new, and none
\* is accepted under the counter of an earlier session.
NewCountersIncrease ==
    [][report'.decrypted /\ ~report'.retransmission =>
         LET new == report'.pdu
             old == accepted[new.dir]
         IN  old.key = new.key => old.counter < new.counter]_vars

\* A packet is marked as a retransmission exactly when it is the packet last
\* reported in its direction: one whose first transmission was missed is not,
\* nor is the first packet of a session after a reset of the counters.
RetransmissionMeansSeen ==
    [][report'.decrypted =>
         (report'.retransmission <=>
              accepted[report'.pdu.dir] = report'.pdu)]_vars

\* CONNECTION_FOLLOWING.md:61-62: "A known LTK plus captured
\* LL_ENC_REQ/LL_ENC_RSP yields the session key, IV and AES-CCM state" on a
\* followed connection.
CapturedExchangeYieldsKey ==
    [][ /\ report'.pdu.op = "ENC_RSP" /\ report'.pdu.half = requested
        /\ connectionActive /\ crypto.ltk = LinkLtk
        => SessionKey(crypto') = <<LinkLtk, requested, requested>> ]_vars
===========================================================================

------------------------- MODULE EncryptedLinkProofs -------------------------
(***************************************************************************)
(* For any LTKs, connections, sessions, counters and counter window: types,*)
(* retransmissions told from new packets, and every packet of a session    *)
(* that was followed from its start decrypted.                             *)
(***************************************************************************)
EXTENDS EncryptedLink, TLAPS

---------------------------------------------------------------------------
(* The invariant. *)

CryptoStates ==
    [ltk : Ltks, skdm : 0..MaxSessions, skds : 0..MaxSessions,
     sessionKeyReady : BOOLEAN, encryptionActive : BOOLEAN,
     nextCounter : [Direction -> 0..(MaxCounter + 1)]]

Phases == {"off", "plain", "requested", "answered", "starting", "started",
           "encrypted", "pausing", "clearing", "paused"}

Typed ==
    /\ phase \in Phases
    /\ connections \in 0..MaxConnections
    /\ session \in 0..MaxSessions
    /\ phase \notin {"off", "plain"} => session >= 1
    /\ counter \in [Direction -> 0..(MaxCounter + 1)]
    /\ last \in [Direction -> Pdu]
    /\ since \in [Direction -> 0..2]
    /\ owed \subseteq Direction
    /\ connectionActive \in BOOLEAN
    /\ crypto \in CryptoStates
    /\ report \in [pdu : Pdu, decrypted : BOOLEAN, retransmission : BOOLEAN]
    /\ intact \in BOOLEAN
    /\ requested \in 0..MaxSessions
    /\ heard \in [Direction -> Pdu]
    /\ accepted \in [Direction -> Pdu]

LinkKey(s) == <<LinkLtk, s, s>>

\* A protected PDU belongs to a session and is numbered below the next one.
SentIn(x, d, s0, next) ==
    Encrypted(x) =>
        /\ x.op \in {"DATA", "START_ENC_RSP", "PAUSE_ENC_REQ", "PAUSE_ENC_RSP",
                     "TERMINATE_IND"}
        /\ x.dir = d
        /\ \E s \in 1..s0 : /\ x.key = LinkKey(s)
                            /\ s = s0 => x.counter < next[d]

Sent(x, d) == SentIn(x, d, session, counter)

Numbered ==
    \A d \in Direction : Sent(last[d], d) /\ Sent(heard[d], d) /\ Sent(accepted[d], d)

\* Which PDUs of the procedures may be repeated in a phase.
Procedure ==
    /\ phase \in {"requested", "answered"} =>
          /\ \A d \in Direction : counter[d] = 0
          /\ last[CentralToPeripheral].op = "ENC_REQ"
          /\ since[CentralToPeripheral] = IF phase = "answered" THEN 1 ELSE 0
    /\ phase = "answered" =>
          /\ last[PeripheralToCentral].op = "ENC_RSP"
          /\ since[PeripheralToCentral] = 0
    /\ phase = "plain" => \A d \in Direction : ~Encrypted(last[d])
    /\ \A d \in Direction :
          /\ last[d] # NoPdu => last[d].dir = d
          /\ phase # "off" /\ last[d].op = "ENC_REQ" =>
                /\ d = CentralToPeripheral /\ last[d].half = session
                /\ phase \in {"requested", "answered", "starting"}
          /\ phase # "off" /\ last[d].op = "ENC_RSP" =>
                /\ d = PeripheralToCentral /\ last[d].half = session
                /\ phase = "answered"
          /\ phase # "off" /\ last[d].op = "START_ENC_REQ" =>
                d = PeripheralToCentral /\ phase \in {"starting", "started"}

Keyed ==
    /\ crypto.sessionKeyReady => /\ crypto.ltk # NoLtk
                                 /\ crypto.skdm # NoHalf /\ crypto.skds # NoHalf
    /\ crypto.skdm <= session /\ crypto.skds <= session

\* What was accepted under the key is behind the next counter,
Fresh ==
    \A d \in Direction :
        crypto.sessionKeyReady /\ accepted[d].key = SessionKey(crypto) =>
            accepted[d].counter < crypto.nextCounter[d]

\* directly behind it if the key is of this connection,
Seen ==
    \A d \in Direction :
        /\ phase \notin {"off", "plain"}
        /\ crypto.sessionKeyReady /\ crypto.nextCounter[d] > 0
        /\ SessionKey(crypto) \in {LinkKey(session), last[d].key}
        => /\ accepted[d].key = SessionKey(crypto)
           /\ accepted[d].counter + 1 = crypto.nextCounter[d]

\* and is the PDU last sent if it has its number.
SameSent ==
    \A d \in Direction :
        /\ Encrypted(last[d])
        /\ accepted[d].key = last[d].key
        /\ accepted[d].counter = last[d].counter
        => accepted[d] = last[d]

Protected == {"starting", "started", "encrypted", "pausing"}

\* Both halves of the session have been captured.
Exchanged == phase \in Protected \/ (phase = "answered" /\ owed = {})

\* What the sniffer knows if it missed nothing that counts.
Insight ==
    /\ connectionActive
    /\ crypto.encryptionActive <=> phase \in Protected
    /\ phase \in {"requested", "answered"} \cup Protected => crypto.skdm = session
    /\ Exchanged =>
          /\ crypto.skds = session /\ crypto.sessionKeyReady
          /\ \A d \in Direction :
                /\ crypto.nextCounter[d] <= counter[d]
                /\ heard[d].key = LinkKey(session) =>
                      heard[d].counter + 1 = crypto.nextCounter[d]
    /\ \A d \in Direction :
          Encrypted(last[d]) =>
              IF phase \in Protected
              THEN /\ last[d].key = LinkKey(session)
                   /\ last[d].counter + 1 = counter[d]
                   /\ last[d].op \notin {"PAUSE_ENC_RSP", "TERMINATE_IND"}
              ELSE Ended(last[d])

Followed == intact /\ crypto.ltk = LinkLtk /\ phase # "off" => Insight

LinkInv ==
    /\ Typed /\ Numbered /\ Procedure /\ Keyed
    /\ Fresh /\ Seen /\ SameSent /\ Followed

---------------------------------------------------------------------------
(* The functions of BleCrypto. *)

LEMMA Keys ==
    /\ \A s : LinkKey(s) # Plain
    /\ \A s, t : LinkKey(s) = LinkKey(t) => s = t
    /\ \A c, s : SessionKey(c) = LinkKey(s) <=>
                    c.ltk = LinkLtk /\ c.skdm = s /\ c.skds = s
    /\ \A c : SessionKey(c) = Plain => c.ltk = NoLtk
BY DEF LinkKey, Plain, SessionKey, LinkLtk, NoLtk

\* ble_crypto_observe_control, field by field.
LEMMA ControlOther ==
    ASSUME NEW c \in CryptoStates, NEW p, p.op \notin {"ENC_REQ", "ENC_RSP"}
    PROVE  /\ ObserveControl(c, p) \in CryptoStates
           /\ ObserveControl(c, p).ltk = c.ltk
           /\ ObserveControl(c, p).skdm = c.skdm
           /\ ObserveControl(c, p).skds = c.skds
           /\ ObserveControl(c, p).sessionKeyReady = c.sessionKeyReady
           /\ ObserveControl(c, p).nextCounter = c.nextCounter
           /\ p.op = "START_ENC_REQ" => ObserveControl(c, p).encryptionActive
           /\ p.op \in {"PAUSE_ENC_RSP", "TERMINATE_IND"} =>
                 ~ObserveControl(c, p).encryptionActive
           /\ p.op \notin {"START_ENC_REQ", "PAUSE_ENC_RSP", "TERMINATE_IND"} =>
                 ObserveControl(c, p) = c
<1>1. CASE p.op = "START_ENC_REQ"
  <2>1. ObserveControl(c, p) = [c EXCEPT !.encryptionActive = TRUE]
    BY <1>1 DEF ObserveControl
  <2> QED BY <1>1, <2>1 DEF CryptoStates
<1>2. CASE p.op \in {"PAUSE_ENC_RSP", "TERMINATE_IND"}
  <2>1. ObserveControl(c, p) = [c EXCEPT !.encryptionActive = FALSE]
    BY <1>2 DEF ObserveControl
  <2> QED BY <1>2, <2>1 DEF CryptoStates
<1>3. CASE p.op \notin {"START_ENC_REQ", "PAUSE_ENC_RSP", "TERMINATE_IND"}
  <2>1. ObserveControl(c, p) = c
    BY <1>3 DEF ObserveControl
  <2> QED BY <1>3, <2>1
<1> QED BY <1>1, <1>2, <1>3

LEMMA ResetFields ==
    ASSUME NEW c \in CryptoStates
    PROVE  /\ ResetConnection(c) \in CryptoStates
           /\ ResetConnection(c).ltk = c.ltk
           /\ ResetConnection(c).skdm = 0 /\ ResetConnection(c).skds = 0
           /\ ~ResetConnection(c).sessionKeyReady
           /\ ~ResetConnection(c).encryptionActive
           /\ ResetConnection(c).nextCounter = Zero
BY LinkAssumption DEF ResetConnection, CryptoState, CryptoStates, NoHalf, Zero

LEMMA ControlRequest ==
    ASSUME NEW c \in CryptoStates, NEW p \in Pdu, p.op = "ENC_REQ"
    PROVE  /\ ObserveControl(c, p) \in CryptoStates
           /\ ObserveControl(c, p).ltk = c.ltk
           /\ ObserveControl(c, p).skdm = p.half
           /\ ObserveControl(c, p).skds = 0
           /\ ~ObserveControl(c, p).sessionKeyReady
           /\ ~ObserveControl(c, p).encryptionActive
<1>1. ObserveControl(c, p) = [ResetConnection(c) EXCEPT !.skdm = p.half]
  BY DEF ObserveControl, ObserveRequest
<1>2. p.half \in 0..MaxSessions
  BY DEF Pdu
<1> QED BY <1>1, <1>2, ResetFields DEF CryptoStates

LEMMA ControlResponse ==
    ASSUME NEW c \in CryptoStates, NEW p \in Pdu, p.op = "ENC_RSP", p.half # 0
    PROVE  /\ ObserveControl(c, p) \in CryptoStates
           /\ ObserveControl(c, p).ltk = c.ltk
           /\ ObserveControl(c, p).skdm = c.skdm
           /\ ObserveControl(c, p).skds = p.half
           /\ ObserveControl(c, p).encryptionActive = c.encryptionActive
           /\ IF c.ltk # NoLtk /\ c.skdm # 0
              THEN /\ ObserveControl(c, p).sessionKeyReady
                   /\ ObserveControl(c, p).nextCounter = Zero
              ELSE ObserveControl(c, p).sessionKeyReady = c.sessionKeyReady
<1> DEFINE e == [c EXCEPT !.skds = p.half]
<1>1. ObserveControl(c, p) = DeriveIfReady(e)
  BY DEF ObserveControl
<1>2. p.half \in 0..MaxSessions
  BY DEF Pdu
<1>3. /\ e \in CryptoStates /\ e.ltk = c.ltk /\ e.skdm = c.skdm /\ e.skds = p.half
      /\ e.sessionKeyReady = c.sessionKeyReady
      /\ e.encryptionActive = c.encryptionActive
  BY <1>2 DEF CryptoStates
<1> HIDE DEF e
<1>4. CASE c.ltk # NoLtk /\ c.skdm # 0
  <2>1. ObserveControl(c, p) = [e EXCEPT !.sessionKeyReady = TRUE, !.nextCounter = Zero]
    BY <1>1, <1>3, <1>4 DEF DeriveIfReady, NoHalf
  <2>2. Zero \in [Direction -> 0..(MaxCounter + 1)]
    BY LinkAssumption DEF Zero
  <2> QED BY <1>3, <1>4, <2>1, <2>2 DEF CryptoStates
<1>5. CASE ~(c.ltk # NoLtk /\ c.skdm # 0)
  <2>1. ObserveControl(c, p) = e
    BY <1>1, <1>3, <1>5 DEF DeriveIfReady, NoHalf
  <2> QED BY <1>3, <1>5, <2>1
<1> QED BY <1>4, <1>5

\* finish_decrypt of a packet that is new.
LEMMA FinishFields ==
    ASSUME NEW c \in CryptoStates, NEW p \in Pdu
    PROVE  /\ Finish(c, p) \in CryptoStates
           /\ Finish(c, p).ltk = c.ltk
           /\ Finish(c, p).skdm = c.skdm /\ Finish(c, p).skds = c.skds
           /\ Finish(c, p).sessionKeyReady = c.sessionKeyReady
           /\ Finish(c, p).encryptionActive = c.encryptionActive
           /\ Finish(c, p).nextCounter =
                 [c.nextCounter EXCEPT ![p.dir] = p.counter + 1]
<1>1. p.dir \in Direction /\ p.counter + 1 \in 0..(MaxCounter + 1)
  BY LinkAssumption DEF Pdu
<1>2. [c.nextCounter EXCEPT ![p.dir] = p.counter + 1] \in
          [Direction -> 0..(MaxCounter + 1)]
  BY <1>1 DEF CryptoStates
<1>3. Finish(c, p) =
         [c EXCEPT !.nextCounter = [c.nextCounter EXCEPT ![p.dir] = p.counter + 1]]
  BY DEF Finish
<1> QED BY <1>2, <1>3 DEF CryptoStates

\* The search of ble_crypto_decrypt_pdu.
LEMMA Search ==
    ASSUME NEW c \in CryptoStates, NEW p \in Pdu
    PROVE  /\ IsNext(c, p) <=>
                 /\ CanDecrypt(c) /\ p.key = SessionKey(c)
                 /\ c.nextCounter[p.dir] <= p.counter
                 /\ p.counter < c.nextCounter[p.dir] + CounterWindow
           /\ IsRetransmission(c, p) <=>
                 /\ CanDecrypt(c) /\ p.key = SessionKey(c)
                 /\ p.counter + 1 = c.nextCounter[p.dir]
<1>1. /\ p.dir \in Direction /\ p.counter \in 0..MaxCounter
      /\ \A d \in Direction : c.nextCounter[d] \in Nat
      /\ CounterWindow \in Nat \ {0} /\ CounterLimit \in Nat
      /\ MaxCounter \in Nat /\ MaxCounter < CounterLimit
  BY LinkAssumption, CounterAssumption DEF Pdu, CryptoStates
<1>2. <<p.dir, p.counter>> \in Forward(c) <=>
         /\ c.nextCounter[p.dir] <= p.counter
         /\ p.counter < c.nextCounter[p.dir] + CounterWindow
  <2>1. ASSUME <<p.dir, p.counter>> \in Forward(c)
        PROVE  /\ c.nextCounter[p.dir] <= p.counter
               /\ p.counter < c.nextCounter[p.dir] + CounterWindow
    <3>1. PICK d \in Direction, k \in 0..(CounterWindow - 1) :
             <<p.dir, p.counter>> = <<d, c.nextCounter[d] + k>>
      BY <2>1 DEF Forward
    <3> QED BY <1>1, <3>1
  <2>2. ASSUME c.nextCounter[p.dir] <= p.counter,
               p.counter < c.nextCounter[p.dir] + CounterWindow
        PROVE  <<p.dir, p.counter>> \in Forward(c)
    <3> DEFINE k == p.counter - c.nextCounter[p.dir]
    <3>1. k \in 0..(CounterWindow - 1) /\ p.counter = c.nextCounter[p.dir] + k
      BY <1>1, <2>2
    <3>2. p.counter \in 0..(CounterLimit - 1)
      BY <1>1
    <3> HIDE DEF k
    <3> QED BY <1>1, <3>1, <3>2 DEF Forward
  <2> QED BY <2>1, <2>2
<1>3. <<p.dir, p.counter>> \in Repeated(c) <=> p.counter + 1 = c.nextCounter[p.dir]
  BY <1>1 DEF Repeated
<1>4. /\ Authentic(c, p) \cap Forward(c) # {} <=>
            p.key = SessionKey(c) /\ <<p.dir, p.counter>> \in Forward(c)
      /\ Authentic(c, p) \cap Repeated(c) # {} <=>
            p.key = SessionKey(c) /\ <<p.dir, p.counter>> \in Repeated(c)
  BY Zenon DEF Authentic
<1>5. IsNext(c, p) <=> /\ CanDecrypt(c) /\ p.key = SessionKey(c)
                       /\ c.nextCounter[p.dir] <= p.counter
                       /\ p.counter < c.nextCounter[p.dir] + CounterWindow
  BY <1>2, <1>4, Zenon DEF IsNext
<1>6. p.counter + 1 = c.nextCounter[p.dir] => ~(c.nextCounter[p.dir] <= p.counter)
  BY <1>1
<1>7. IsRetransmission(c, p) <=> /\ CanDecrypt(c) /\ p.key = SessionKey(c)
                                 /\ p.counter + 1 = c.nextCounter[p.dir]
  BY <1>3, <1>4, <1>5, <1>6, Zenon DEF IsRetransmission
<1> QED BY <1>5, <1>7

---------------------------------------------------------------------------
(* What one transmission, captured or missed, does to the sniffer. *)

Fit(p) ==
    /\ p \in Pdu
    /\ Encrypted(p) => p.op \in {"DATA", "START_ENC_RSP", "PAUSE_ENC_REQ",
                                 "PAUSE_ENC_RSP", "TERMINATE_IND"}
    /\ p.op = "ENC_RSP" => p.half # 0

SameKey ==
    /\ crypto'.skdm = crypto.skdm /\ crypto'.skds = crypto.skds
    /\ crypto'.sessionKeyReady = crypto.sessionKeyReady

Passes ==
    /\ SameKey /\ crypto'.nextCounter = crypto.nextCounter
    /\ accepted' = accepted /\ ~report'.decrypted

TakesRequest(p) ==
    /\ p.op = "ENC_REQ"
    /\ crypto'.skdm = p.half /\ crypto'.skds = 0 /\ ~crypto'.sessionKeyReady
    /\ accepted' = accepted /\ ~report'.decrypted

TakesResponse(p) ==
    /\ p.op = "ENC_RSP"
    /\ crypto'.skdm = crypto.skdm /\ crypto'.skds = p.half
    /\ crypto'.sessionKeyReady => /\ crypto.ltk # NoLtk /\ crypto.skdm # 0
                                  /\ crypto'.nextCounter = Zero
    /\ accepted' = accepted /\ ~report'.decrypted

TakesNew(p) ==
    /\ crypto.sessionKeyReady /\ p.key = SessionKey(crypto)
    /\ crypto.nextCounter[p.dir] <= p.counter
    /\ SameKey
    /\ crypto'.nextCounter = [crypto.nextCounter EXCEPT ![p.dir] = p.counter + 1]
    /\ accepted' = [accepted EXCEPT ![p.dir] = p]
    /\ report'.decrypted /\ ~report'.retransmission /\ report'.pdu = p

TakesAgain(p) ==
    /\ crypto.sessionKeyReady /\ p.key = SessionKey(crypto)
    /\ p.counter + 1 = crypto.nextCounter[p.dir]
    /\ SameKey /\ crypto'.nextCounter = crypto.nextCounter
    /\ accepted' = [accepted EXCEPT ![p.dir] = p]
    /\ report'.decrypted /\ report'.retransmission /\ report'.pdu = p

SnifferTyped ==
    /\ connectionActive' = connectionActive
    /\ crypto' \in CryptoStates /\ crypto'.ltk = crypto.ltk
    /\ report' \in [pdu : Pdu, decrypted : BOOLEAN, retransmission : BOOLEAN]
    /\ intact' \in BOOLEAN /\ requested' \in 0..MaxSessions
    /\ heard' \in [Direction -> Pdu]

Reports == [pdu : Pdu, decrypted : BOOLEAN, retransmission : BOOLEAN]

LEMMA NoPduTyped ==
    /\ NoPdu \in Pdu /\ NoPdu.key = Plain /\ NoPdu.op = "NONE"
    /\ NoReport \in Reports /\ ~NoReport.decrypted /\ NoReport.pdu = NoPdu
    /\ \A p \in Pdu : /\ [NoReport EXCEPT !.pdu = p] \in Reports
                      /\ ~[NoReport EXCEPT !.pdu = p].decrypted
                      /\ [NoReport EXCEPT !.pdu = p].pdu = p
<1>1. NoPdu \in Pdu /\ NoPdu.key = Plain /\ NoPdu.op = "NONE"
  BY LinkAssumption DEF NoPdu, Pdu, NoHalf, Direction
<1>2. NoReport = [pdu |-> NoPdu, decrypted |-> FALSE, retransmission |-> FALSE]
  BY DEF NoReport
<1> QED BY <1>1, <1>2 DEF Reports

LEMMA Outcomes ==
    ASSUME Typed, Keyed, NEW p, Fit(p), Capture(p) \/ Miss(p)
    PROVE  /\ SnifferTyped
           /\ \/ Passes \/ TakesRequest(p) \/ TakesResponse(p)
              \/ TakesNew(p) \/ TakesAgain(p)
<1> DEFINE Five == \/ Passes \/ TakesRequest(p) \/ TakesResponse(p)
                   \/ TakesNew(p) \/ TakesAgain(p)
<1>1. p \in Pdu /\ p.dir \in Direction /\ p.half \in 0..MaxSessions
  BY DEF Fit, Pdu
<1>2. crypto \in CryptoStates
  BY DEF Typed
<1>3. CASE Miss(p)
  <2>1. /\ report' = NoReport /\ connectionActive' = connectionActive
        /\ crypto' = crypto /\ requested' = requested /\ heard' = heard
        /\ accepted' = accepted
    BY <1>3 DEF Miss
  <2>2. intact' \in BOOLEAN
    BY <1>3 DEF Miss, Typed
  <2>3. SnifferTyped
    BY <2>1, <2>2, NoPduTyped DEF SnifferTyped, Typed, Reports
  <2>4. Passes
    BY <2>1, NoPduTyped DEF Passes, SameKey
  <2> QED BY <2>3, <2>4
<1>4. CASE Capture(p)
  <2>1. /\ connectionActive' = connectionActive
        /\ intact' \in BOOLEAN
        /\ requested' \in 0..MaxSessions
        /\ heard' \in [Direction -> Pdu]
    BY <1>1, <1>4 DEF Capture, Typed
  <2>2. accepted' = IF report'.decrypted
                    THEN [accepted EXCEPT ![p.dir] = p] ELSE accepted
    BY <1>4 DEF Capture
  <2>3. ASSUME crypto' = crypto, report' = [NoReport EXCEPT !.pdu = p]
        PROVE  crypto' \in CryptoStates /\ crypto'.ltk = crypto.ltk /\ Passes
    BY <1>1, <1>2, <2>2, <2>3, NoPduTyped DEF Passes, SameKey
  <2>4. ASSUME crypto' = ObserveControl(crypto, p), report' = [NoReport EXCEPT !.pdu = p]
        PROVE  crypto' \in CryptoStates /\ crypto'.ltk = crypto.ltk /\ Five
    <3>1. accepted' = accepted /\ ~report'.decrypted
      BY <1>1, <2>2, <2>4, NoPduTyped
    <3>2. CASE p.op = "ENC_REQ"
      BY <1>1, <1>2, <2>4, <3>1, <3>2, ControlRequest DEF TakesRequest
    <3>3. CASE p.op = "ENC_RSP"
      <4>1. p.half # 0
        BY <3>3 DEF Fit
      <4>2. crypto.sessionKeyReady => crypto.ltk # NoLtk /\ crypto.skdm # 0
        BY DEF Keyed, NoHalf
      <4>3. /\ crypto' \in CryptoStates /\ crypto'.ltk = crypto.ltk
            /\ crypto'.skdm = crypto.skdm /\ crypto'.skds = p.half
            /\ IF crypto.ltk # NoLtk /\ crypto.skdm # 0
               THEN crypto'.sessionKeyReady /\ crypto'.nextCounter = Zero
               ELSE crypto'.sessionKeyReady = crypto.sessionKeyReady
        BY <1>1, <1>2, <2>4, <3>3, <4>1, ControlResponse
      <4>4. CASE crypto.ltk # NoLtk /\ crypto.skdm # 0
        BY <3>1, <3>3, <4>3, <4>4 DEF TakesResponse
      <4>5. CASE ~(crypto.ltk # NoLtk /\ crypto.skdm # 0)
        <5>1. ~crypto'.sessionKeyReady
          BY <4>2, <4>3, <4>5
        <5> QED BY <3>1, <3>3, <4>3, <5>1 DEF TakesResponse
      <4> QED BY <4>4, <4>5
    <3>4. CASE p.op \notin {"ENC_REQ", "ENC_RSP"}
      <4>1. Passes /\ crypto' \in CryptoStates /\ crypto'.ltk = crypto.ltk
        BY <1>2, <2>4, <3>1, <3>4, ControlOther DEF Passes, SameKey
      <4> QED BY <4>1
    <3> QED BY <3>2, <3>3, <3>4
  <2>5. ASSUME crypto.sessionKeyReady, p.key = SessionKey(crypto)
        PROVE  p.op \notin {"ENC_REQ", "ENC_RSP"}
    <3>1. Encrypted(p)
      BY <2>5, Keys DEF Keyed, Encrypted
    <3> QED BY <3>1 DEF Fit
  <2>6. CASE CaptureUnfollowed(p) \/ CaptureOpaque(p)
    <3>1. crypto' = crypto /\ report' = [NoReport EXCEPT !.pdu = p]
      BY <2>6 DEF CaptureUnfollowed, CaptureOpaque
    <3>2. report' \in Reports
      BY <1>1, <3>1, NoPduTyped
    <3> QED BY <2>1, <2>3, <3>1, <3>2 DEF SnifferTyped, Reports
  <2>7. CASE CapturePlain(p)
    <3>1. crypto' = ObserveControl(crypto, p) /\ report' = [NoReport EXCEPT !.pdu = p]
      BY <2>7 DEF CapturePlain
    <3>2. report' \in Reports
      BY <1>1, <3>1, NoPduTyped
    <3> QED BY <2>1, <2>4, <3>1, <3>2 DEF SnifferTyped, Reports
  <2>8. CASE CaptureCiphertext(p)
    <3>1. report' = [NoReport EXCEPT !.pdu = p]
      BY <2>8 DEF CaptureCiphertext
    <3>2. report' \in Reports /\ accepted' = accepted /\ ~report'.decrypted
      BY <1>1, <2>2, <3>1, NoPduTyped
    <3>3. CASE crypto' = crypto
      BY <2>1, <2>3, <3>1, <3>2, <3>3 DEF SnifferTyped, Reports
    <3>4. CASE crypto' = ObserveControl(crypto, [op |-> "START_ENC_REQ"])
      <4>1. [op |-> "START_ENC_REQ"].op \notin {"ENC_REQ", "ENC_RSP"}
        OBVIOUS
      <4>2. Passes /\ crypto' \in CryptoStates /\ crypto'.ltk = crypto.ltk
        BY <1>2, <3>2, <3>4, <4>1, ControlOther DEF Passes, SameKey
      <4> QED BY <2>1, <3>2, <4>2 DEF SnifferTyped, Reports
    <3> QED BY <2>8, <3>3, <3>4 DEF CaptureCiphertext
  <2>9. CASE CaptureNext(p)
    <3> DEFINE f == Finish(crypto, p)
    <3>1. /\ crypto' = ObserveControl(f, p)
          /\ report' = [pdu |-> p, decrypted |-> TRUE, retransmission |-> FALSE]
          /\ IsNext(crypto, p)
      BY <2>9 DEF CaptureNext
    <3>2. /\ crypto.sessionKeyReady /\ p.key = SessionKey(crypto)
          /\ crypto.nextCounter[p.dir] <= p.counter
      BY <1>1, <1>2, <3>1, Search DEF CanDecrypt
    <3>3. /\ report' \in Reports /\ report'.decrypted /\ ~report'.retransmission
          /\ report'.pdu = p
      BY <1>1, <3>1 DEF Reports
    <3>4. accepted' = [accepted EXCEPT ![p.dir] = p]
      BY <2>2, <3>3
    <3>5. /\ f \in CryptoStates /\ f.ltk = crypto.ltk /\ f.skdm = crypto.skdm
          /\ f.skds = crypto.skds /\ f.sessionKeyReady = crypto.sessionKeyReady
          /\ f.nextCounter = [crypto.nextCounter EXCEPT ![p.dir] = p.counter + 1]
      BY <1>1, <1>2, FinishFields
    <3> HIDE DEF f
    <3>6. p.op \notin {"ENC_REQ", "ENC_RSP"}
      BY <2>5, <3>2
    <3>7. /\ crypto' \in CryptoStates /\ crypto'.ltk = crypto.ltk /\ SameKey
          /\ crypto'.nextCounter = [crypto.nextCounter EXCEPT ![p.dir] = p.counter + 1]
      BY <3>1, <3>5, <3>6, ControlOther DEF SameKey
    <3>8. TakesNew(p)
      BY <3>2, <3>3, <3>4, <3>7 DEF TakesNew
    <3> QED BY <2>1, <3>3, <3>7, <3>8 DEF SnifferTyped, Reports
  <2>10. CASE CaptureRetransmission(p)
    <3>1. /\ crypto' = ObserveControl(crypto, p)
          /\ report' = [pdu |-> p, decrypted |-> TRUE, retransmission |-> TRUE]
          /\ IsRetransmission(crypto, p)
      BY <2>10 DEF CaptureRetransmission
    <3>2. /\ crypto.sessionKeyReady /\ p.key = SessionKey(crypto)
          /\ p.counter + 1 = crypto.nextCounter[p.dir]
      BY <1>1, <1>2, <3>1, Search DEF CanDecrypt
    <3>3. /\ report' \in Reports /\ report'.decrypted /\ report'.retransmission
          /\ report'.pdu = p
      BY <1>1, <3>1 DEF Reports
    <3>4. accepted' = [accepted EXCEPT ![p.dir] = p]
      BY <2>2, <3>3
    <3>6. p.op \notin {"ENC_REQ", "ENC_RSP"}
      BY <2>5, <3>2
    <3>7. /\ crypto' \in CryptoStates /\ crypto'.ltk = crypto.ltk /\ SameKey
          /\ crypto'.nextCounter = crypto.nextCounter
      BY <1>2, <3>1, <3>6, ControlOther DEF SameKey
    <3>8. TakesAgain(p)
      BY <3>2, <3>3, <3>4, <3>7 DEF TakesAgain
    <3> QED BY <2>1, <3>3, <3>7, <3>8 DEF SnifferTyped, Reports
  <2> QED BY <1>4, <2>6, <2>7, <2>8, <2>9, <2>10 DEF Capture
<1> QED BY <1>3, <1>4

---------------------------------------------------------------------------
(* A transmission: p is new, or the PDU last sent in its direction. *)

Offers(p) ==
    /\ Fit(p)
    /\ \A d \in Direction : last'[d] = IF d = p.dir THEN p ELSE last[d]
    /\ session' \in {session, session + 1}
    /\ Encrypted(p) =>
          /\ phase \notin {"off", "plain"}
          /\ \/ p = last[p.dir]
             \/ /\ p.key = LinkKey(session) /\ session' = session
                /\ p.counter = counter[p.dir]
    /\ phase' \notin {"off", "plain"} =>
          \/ phase \notin {"off", "plain"}
          \/ phase = "plain" /\ session' = session + 1
    /\ p.op \in {"ENC_REQ", "ENC_RSP"} => p.half <= session'
    /\ p.op = "ENC_RSP" => \A d \in Direction : accepted[d].key # LinkKey(p.half)

Basic == Typed /\ Numbered /\ Procedure /\ Keyed /\ Fresh /\ Seen /\ SameSent

\* What was accepted is in the clear or under the key of a session.
LEMMA AcceptedKeys ==
    ASSUME Typed, Numbered, NEW d \in Direction
    PROVE  \/ accepted[d].key = Plain
           \/ \E s \in 1..session : accepted[d].key = LinkKey(s)
BY DEF Numbered, Sent, SentIn, Encrypted

LEMMA KeyStep ==
    ASSUME Basic, NEW p, Offers(p), Capture(p) \/ Miss(p)
    PROVE  Keyed' /\ Fresh'
<1>1. /\ SnifferTyped
      /\ \/ Passes \/ TakesRequest(p) \/ TakesResponse(p)
         \/ TakesNew(p) \/ TakesAgain(p)
  BY Outcomes DEF Basic, Offers
<1>2. /\ p.dir \in Direction /\ p.counter \in Nat /\ p.half \in Nat
      /\ session \in Nat /\ session' \in Nat /\ session <= session'
      /\ p.op \in {"ENC_REQ", "ENC_RSP"} => p.half <= session'
      /\ p.op = "ENC_RSP" => p.half # 0
      /\ crypto.skdm \in Nat /\ crypto.skds \in Nat
      /\ \A d \in Direction : accepted[d].counter \in Nat /\ crypto.nextCounter[d] \in Nat
  BY LinkAssumption DEF Basic, Offers, Fit, Typed, Pdu, CryptoStates
<1>3. crypto'.ltk = crypto.ltk /\ accepted \in [Direction -> Pdu]
      /\ crypto.nextCounter \in [Direction -> Nat]
  BY <1>1, LinkAssumption DEF SnifferTyped, Basic, Typed, CryptoStates
<1>4. CASE Passes
  <2>1. SessionKey(crypto') = SessionKey(crypto)
    BY <1>3, <1>4 DEF Passes, SameKey, SessionKey
  <2>2. Keyed'
    BY <1>2, <1>3, <1>4 DEF Passes, SameKey, Keyed, Basic
  <2>3. Fresh'
    BY <1>4, <2>1 DEF Passes, SameKey, Fresh, Basic
  <2> QED BY <2>2, <2>3
<1>5. CASE TakesRequest(p)
  <2>1. Keyed'
    BY <1>2, <1>5 DEF TakesRequest, Keyed
  <2>2. Fresh'
    BY <1>5 DEF TakesRequest, Fresh
  <2> QED BY <2>1, <2>2
<1>6. CASE TakesResponse(p)
  <2>1. Keyed'
    BY <1>2, <1>3, <1>6 DEF TakesResponse, Keyed, Basic, NoHalf
  <2>2. Fresh'
    <3> SUFFICES ASSUME NEW d \in Direction, crypto'.sessionKeyReady,
                        accepted'[d].key = SessionKey(crypto')
                 PROVE  FALSE
      BY DEF Fresh
    <3>1. accepted[d].key = SessionKey(crypto') /\ crypto'.ltk # NoLtk
      BY <1>3, <1>6 DEF TakesResponse
    <3>2. PICK s \in 1..session : accepted[d].key = LinkKey(s)
      BY <3>1, AcceptedKeys, Keys DEF Basic
    <3>3. crypto'.skds = p.half /\ p.op = "ENC_RSP"
      BY <1>6 DEF TakesResponse
    <3>4. SessionKey(crypto') = LinkKey(s)
      BY <3>1, <3>2
    <3>5. crypto'.skds = s
      BY <3>1, <3>4, Keys
    <3>6. s \in 1..session /\ s = p.half
      BY <3>2, <3>3, <3>5
    <3>7. accepted[d].key = LinkKey(p.half)
      BY <3>2, <3>6
    <3> QED BY <3>3, <3>7 DEF Offers
  <2> QED BY <2>1, <2>2
<1>7. CASE TakesNew(p) \/ TakesAgain(p)
  <2>1. SameKey /\ accepted' = [accepted EXCEPT ![p.dir] = p]
    BY <1>7 DEF TakesNew, TakesAgain
  <2>2. SessionKey(crypto') = SessionKey(crypto)
    BY <1>3, <2>1 DEF SameKey, SessionKey
  <2>3. Keyed'
    BY <1>2, <1>3, <2>1 DEF SameKey, Keyed, Basic
  <2>4. /\ crypto'.nextCounter[p.dir] = p.counter + 1
        /\ \A d \in Direction \ {p.dir} : crypto'.nextCounter[d] = crypto.nextCounter[d]
    <3>1. CASE TakesNew(p)
      BY <1>2, <1>3, <3>1 DEF TakesNew
    <3>2. CASE TakesAgain(p)
      BY <1>2, <1>3, <3>2 DEF TakesAgain
    <3> QED BY <1>7, <3>1, <3>2
  <2>5. /\ accepted'[p.dir] = p
        /\ \A d \in Direction \ {p.dir} : accepted'[d] = accepted[d]
    BY <1>2, <1>3, <2>1
  <2>6. Fresh'
    <3> SUFFICES ASSUME NEW d \in Direction, crypto'.sessionKeyReady,
                        accepted'[d].key = SessionKey(crypto')
                 PROVE  accepted'[d].counter < crypto'.nextCounter[d]
      BY DEF Fresh
    <3>1. CASE d = p.dir
      BY <1>2, <2>4, <2>5, <3>1
    <3>2. CASE d # p.dir
      <4>1. accepted[d].key = SessionKey(crypto) /\ crypto.sessionKeyReady
        BY <2>1, <2>2, <2>5, <3>2 DEF SameKey
      <4> QED BY <2>4, <2>5, <3>2, <4>1 DEF Basic, Fresh
    <3> QED BY <3>1, <3>2
  <2> QED BY <2>3, <2>6
<1> QED BY <1>1, <1>4, <1>5, <1>6, <1>7

\* What is taken for new is numbered above what was accepted under its key;
\* what is taken for a repetition is what was accepted last.
LEMMA Told ==
    ASSUME Basic, NEW p, Offers(p), Capture(p) \/ Miss(p), report'.decrypted
    PROVE  /\ report'.pdu = p
           /\ ~report'.retransmission =>
                 (accepted[p.dir].key = p.key => accepted[p.dir].counter < p.counter)
           /\ report'.retransmission => accepted[p.dir] = p
<1>1. TakesNew(p) \/ TakesAgain(p)
  BY Outcomes DEF Basic, Offers, Passes, TakesRequest, TakesResponse
<1>2. /\ p.dir \in Direction /\ p.counter \in Nat
      /\ \A d \in Direction : accepted[d].counter \in Nat /\ crypto.nextCounter[d] \in Nat
  BY LinkAssumption DEF Basic, Offers, Fit, Typed, Pdu, CryptoStates
<1>3. CASE TakesNew(p)
  <2>1. /\ report'.pdu = p /\ ~report'.retransmission
        /\ crypto.sessionKeyReady /\ p.key = SessionKey(crypto)
        /\ crypto.nextCounter[p.dir] <= p.counter
    BY <1>3 DEF TakesNew
  <2>2. ASSUME accepted[p.dir].key = p.key PROVE accepted[p.dir].counter < p.counter
    <3>1. accepted[p.dir].counter < crypto.nextCounter[p.dir]
      BY <1>2, <2>1, <2>2 DEF Basic, Fresh
    <3> QED BY <1>2, <2>1, <3>1
  <2> QED BY <2>1, <2>2
<1>4. CASE TakesAgain(p)
  <2>1. /\ report'.pdu = p /\ report'.retransmission
        /\ crypto.sessionKeyReady /\ p.key = SessionKey(crypto)
        /\ p.counter + 1 = crypto.nextCounter[p.dir]
    BY <1>4 DEF TakesAgain
  <2>2. Encrypted(p)
    BY <2>1, Keys DEF Basic, Keyed, Encrypted
  <2>3. /\ phase \notin {"off", "plain"}
        /\ \/ p = last[p.dir]
           \/ p.key = LinkKey(session) /\ p.counter = counter[p.dir]
    BY <2>2 DEF Offers
  <2>4. /\ accepted[p.dir].key = p.key /\ accepted[p.dir].counter = p.counter
    <3>1. SessionKey(crypto) \in {LinkKey(session), last[p.dir].key}
      BY <2>1, <2>3
    <3>2. crypto.nextCounter[p.dir] > 0
      BY <1>2, <2>1
    <3>3. /\ accepted[p.dir].key = SessionKey(crypto)
          /\ accepted[p.dir].counter + 1 = crypto.nextCounter[p.dir]
      BY <1>2, <2>1, <2>3, <3>1, <3>2 DEF Basic, Seen
    <3> QED BY <1>2, <2>1, <3>3
  <2>5. CASE p = last[p.dir]
    BY <1>2, <2>1, <2>2, <2>4, <2>5 DEF Basic, SameSent
  <2>6. CASE p.key = LinkKey(session) /\ p.counter = counter[p.dir]
    <3>1. Encrypted(accepted[p.dir])
      BY <2>2, <2>4 DEF Encrypted
    <3>2. PICK s \in 1..session : /\ accepted[p.dir].key = LinkKey(s)
                                  /\ s = session => accepted[p.dir].counter < counter[p.dir]
      BY <1>2, <3>1 DEF Basic, Numbered, Sent, SentIn
    <3>3. s = session
      BY <2>4, <2>6, <3>2, Keys
    <3> QED BY <1>2, <2>4, <2>6, <3>2, <3>3
  <2> QED BY <2>1, <2>3, <2>5, <2>6
<1> QED BY <1>1, <1>3, <1>4

LEMMA SeenStep ==
    ASSUME Basic, NEW p, Offers(p), Capture(p) \/ Miss(p)
    PROVE  Seen' /\ SameSent'
<1>1. /\ SnifferTyped
      /\ \/ Passes \/ TakesRequest(p) \/ TakesResponse(p)
         \/ TakesNew(p) \/ TakesAgain(p)
  BY Outcomes DEF Basic, Offers
<1>2. /\ p.dir \in Direction /\ p.counter \in Nat /\ session \in Nat
      /\ crypto.nextCounter \in [Direction -> Nat]
      /\ accepted \in [Direction -> Pdu] /\ crypto'.ltk = crypto.ltk
      /\ \A d \in Direction : accepted[d].counter \in Nat /\ counter[d] \in Nat
  BY <1>1, LinkAssumption DEF Basic, Offers, Fit, Typed, Pdu, CryptoStates, SnifferTyped
<1>3. \/ accepted' = accepted
      \/ accepted'[p.dir] = p /\ \A d \in Direction \ {p.dir} : accepted'[d] = accepted[d]
  BY <1>1, <1>2 DEF Passes, TakesRequest, TakesResponse, TakesNew, TakesAgain
<1>4. Seen'
  <2> SUFFICES ASSUME NEW d \in Direction, phase' \notin {"off", "plain"},
                      crypto'.sessionKeyReady, crypto'.nextCounter[d] > 0,
                      SessionKey(crypto') \in {LinkKey(session'), last'[d].key}
               PROVE  /\ accepted'[d].key = SessionKey(crypto')
                      /\ accepted'[d].counter + 1 = crypto'.nextCounter[d]
    BY DEF Seen
  <2>1. ~TakesRequest(p) /\ ~TakesResponse(p)
    BY DEF TakesRequest, TakesResponse, Zero
  <2>2. SameKey
    BY <1>1, <2>1 DEF Passes, TakesNew, TakesAgain
  <2>3. SessionKey(crypto') = SessionKey(crypto) /\ crypto.sessionKeyReady
    BY <1>2, <2>2 DEF SameKey, SessionKey
  <2>4. CASE d = p.dir /\ (TakesNew(p) \/ TakesAgain(p))
    <3>1. accepted'[d] = p /\ p.key = SessionKey(crypto)
      BY <1>2, <2>4 DEF TakesNew, TakesAgain
    <3>2. crypto'.nextCounter[d] = p.counter + 1
      BY <1>2, <2>4 DEF TakesNew, TakesAgain
    <3> QED BY <2>3, <3>1, <3>2
  <2>5. CASE ~(d = p.dir /\ (TakesNew(p) \/ TakesAgain(p)))
    <3>1. accepted'[d] = accepted[d] /\ crypto'.nextCounter[d] = crypto.nextCounter[d]
      BY <1>1, <1>2, <2>1, <2>5 DEF Passes, TakesNew, TakesAgain
    <3>2. SessionKey(crypto) # Plain
      BY <2>3, Keys DEF Basic, Keyed
    <3>3. SessionKey(crypto) # LinkKey(session + 1)
      BY <1>2, Keys DEF Basic, Keyed, Typed, CryptoStates
    <3>4. SessionKey(crypto) \in {LinkKey(session), last[d].key}
      BY <2>3, <3>2, <3>3 DEF Offers, Encrypted
    <3>5. phase \notin {"off", "plain"}
      <4> SUFFICES ASSUME phase = "plain", session' = session + 1 PROVE FALSE
        BY DEF Offers
      <4>1. SessionKey(crypto) = last'[d].key
        BY <2>3, <3>3
      <4>2. last'[d].key = Plain
        BY DEF Offers, Encrypted, Basic, Procedure
      <4> QED BY <3>2, <4>1, <4>2
    <3> QED BY <2>3, <3>1, <3>4, <3>5 DEF Basic, Seen
  <2> QED BY <2>4, <2>5
<1>5. SameSent'
  <2> SUFFICES ASSUME NEW d \in Direction, Encrypted(last'[d]),
                      accepted'[d].key = last'[d].key,
                      accepted'[d].counter = last'[d].counter
               PROVE  accepted'[d] = last'[d]
    BY DEF SameSent, Encrypted
  <2>1. CASE d # p.dir
    BY <1>3, <2>1 DEF Offers, Basic, SameSent
  <2>2. CASE d = p.dir /\ accepted' = accepted
    <3>1. last'[d] = p
      BY <2>2 DEF Offers
    <3>2. CASE p = last[p.dir]
      BY <2>2, <3>1, <3>2 DEF Basic, SameSent
    <3>3. CASE p.key = LinkKey(session) /\ p.counter = counter[p.dir]
      <4>1. Encrypted(accepted[d])
        BY <2>2 DEF Encrypted
      <4>2. PICK s \in 1..session : /\ accepted[d].key = LinkKey(s)
                                    /\ s = session => accepted[d].counter < counter[d]
        BY <4>1 DEF Basic, Numbered, Sent, SentIn
      <4>3. s = session
        BY <2>2, <3>1, <3>3, <4>2, Keys
      <4> QED BY <1>2, <2>2, <3>1, <3>3, <4>2, <4>3
    <3> QED BY <3>1, <3>2, <3>3 DEF Offers
  <2>3. CASE d = p.dir /\ accepted' # accepted
    BY <1>3, <2>3 DEF Offers
  <2> QED BY <2>1, <2>2, <2>3
<1> QED BY <1>4, <1>5

---------------------------------------------------------------------------
(* The peers: what is sent in which phase. *)

NewPdu(d, op, encrypted) ==
    [op |-> op, dir |-> d, half |-> session',
     key |-> IF encrypted THEN <<LinkLtk, session, session>> ELSE Plain,
     counter |-> IF encrypted THEN counter[d] ELSE 0]

InClear(d, op) ==
    \/ phase = "plain" /\ op = "DATA" /\ phase' = "plain"
    \/ phase = "plain" /\ op = "TERMINATE_IND" /\ phase' = "off"
    \/ /\ phase = "requested" /\ phase' = "answered"
       /\ d = PeripheralToCentral /\ op = "ENC_RSP"
    \/ /\ phase = "answered" /\ phase' = "starting"
       /\ d = PeripheralToCentral /\ op = "START_ENC_REQ"
    \/ /\ phase = "clearing" /\ phase' = "paused"
       /\ d = CentralToPeripheral /\ op = "PAUSE_ENC_RSP"

UnderKey(d, op) ==
    \/ phase = "encrypted" /\ op = "DATA" /\ phase' = "encrypted"
    \/ phase = "encrypted" /\ op = "TERMINATE_IND" /\ phase' = "off"
    \/ /\ phase = "starting" /\ phase' = "started"
       /\ d = CentralToPeripheral /\ op = "START_ENC_RSP"
    \/ /\ phase = "started" /\ phase' = "encrypted"
       /\ d = PeripheralToCentral /\ op = "START_ENC_RSP"
    \/ /\ phase = "encrypted" /\ phase' = "pausing"
       /\ d = CentralToPeripheral /\ op = "PAUSE_ENC_REQ"
    \/ /\ phase = "pausing" /\ phase' = "clearing"
       /\ d = PeripheralToCentral /\ op = "PAUSE_ENC_RSP"

Opens(d, op) ==
    /\ phase \in {"plain", "paused"} /\ phase' = "requested"
    /\ session < MaxSessions /\ session' = session + 1
    /\ d = CentralToPeripheral /\ op = "ENC_REQ"

Legal(d, op, encrypted) ==
    \/ ~encrypted /\ Opens(d, op)
    \/ ~encrypted /\ session' = session /\ InClear(d, op)
    \/ encrypted /\ session' = session /\ UnderKey(d, op)

LEMMA Legality ==
    ASSUME Data \/ EncReq \/ EncRsp \/ StartEncReq \/ StartEncRspC \/ StartEncRspP
           \/ PauseEncReq \/ PauseEncRspP \/ PauseEncRspC \/ Terminate
    PROVE  \E d \in Direction, encrypted \in BOOLEAN :
           \E op \in {"DATA", "ENC_REQ", "ENC_RSP", "START_ENC_REQ", "START_ENC_RSP",
                      "PAUSE_ENC_REQ", "PAUSE_ENC_RSP", "TERMINATE_IND"} :
               Legal(d, op, encrypted) /\ Transmit(d, op, encrypted)
<1> DEFINE G(d, op, e) == Legal(d, op, e) /\ Transmit(d, op, e)
<1>1. PeripheralToCentral \in Direction /\ CentralToPeripheral \in Direction
  BY DEF Direction
<1>2. ASSUME Data
      PROVE  \E d \in Direction, e \in BOOLEAN : G(d, "DATA", e)
  BY <1>2 DEF Data, Step, Legal, InClear, UnderKey
<1>3. ASSUME Terminate
      PROVE  \E d \in Direction, e \in BOOLEAN : G(d, "TERMINATE_IND", e)
  BY <1>3 DEF Terminate, Step, Legal, InClear, UnderKey
<1>4. EncReq => G(CentralToPeripheral, "ENC_REQ", FALSE)
  BY DEF EncReq, Legal, Opens
<1>5. EncRsp => G(PeripheralToCentral, "ENC_RSP", FALSE)
  BY DEF EncRsp, Step, Legal, InClear
<1>6. StartEncReq => G(PeripheralToCentral, "START_ENC_REQ", FALSE)
  BY DEF StartEncReq, Step, Legal, InClear
<1>7. StartEncRspC => G(CentralToPeripheral, "START_ENC_RSP", TRUE)
  BY DEF StartEncRspC, Step, Legal, UnderKey
<1>8. StartEncRspP => G(PeripheralToCentral, "START_ENC_RSP", TRUE)
  BY DEF StartEncRspP, Step, Legal, UnderKey
<1>9. PauseEncReq => G(CentralToPeripheral, "PAUSE_ENC_REQ", TRUE)
  BY DEF PauseEncReq, Step, Legal, UnderKey
<1>10. PauseEncRspP => G(PeripheralToCentral, "PAUSE_ENC_RSP", TRUE)
  BY DEF PauseEncRspP, Step, Legal, UnderKey
<1>11. PauseEncRspC => G(CentralToPeripheral, "PAUSE_ENC_RSP", FALSE)
  BY DEF PauseEncRspC, Step, Legal, InClear
<1> HIDE DEF G
<1>12. \E d \in Direction, e \in BOOLEAN :
       \E op \in {"DATA", "ENC_REQ", "ENC_RSP", "START_ENC_REQ", "START_ENC_RSP",
                  "PAUSE_ENC_REQ", "PAUSE_ENC_RSP", "TERMINATE_IND"} : G(d, op, e)
  BY <1>1, <1>2, <1>3, <1>4, <1>5, <1>6, <1>7, <1>8, <1>9, <1>10, <1>11
<1> QED BY <1>12 DEF G

\* What a new PDU does to the peers.
LEMMA Sending ==
    ASSUME Basic, NEW d \in Direction, NEW encrypted \in BOOLEAN,
           NEW op \in {"DATA", "ENC_REQ", "ENC_RSP", "START_ENC_REQ", "START_ENC_RSP",
                       "PAUSE_ENC_REQ", "PAUSE_ENC_RSP", "TERMINATE_IND"},
           Legal(d, op, encrypted), Transmit(d, op, encrypted)
    PROVE  LET p == NewPdu(d, op, encrypted)
           IN  /\ Capture(p) \/ Miss(p)
               /\ p \in Pdu /\ p.op = op /\ p.dir = d /\ p.half = session'
               /\ Encrypted(p) <=> encrypted
               /\ encrypted => p.key = LinkKey(session) /\ p.counter = counter[d]
               /\ last' = [last EXCEPT ![d] = p]
               /\ session' \in 1..MaxSessions \/ phase' \in {"off", "plain"}
               /\ session' \in {session, session + 1}
<1> DEFINE p == NewPdu(d, op, encrypted)
<1>1. (Capture(p) \/ Miss(p)) /\ last' = [last EXCEPT ![d] = p]
  BY DEF Transmit, NewPdu
<1>2. p.op = op /\ p.dir = d /\ p.half = session'
  BY DEF NewPdu
<1>3. /\ session' \in 1..MaxSessions \/ phase' \in {"off", "plain"}
      /\ session' \in {session, session + 1} /\ session' \in 0..MaxSessions
      /\ encrypted => session \in 1..MaxSessions
  BY LinkAssumption DEF Basic, Typed, Legal, Opens, InClear, UnderKey
<1>4. CASE encrypted
  <2>1. p.key = LinkKey(session) /\ p.counter = counter[d]
    BY <1>4 DEF NewPdu, LinkKey
  <2>2. counter[d] \in 0..MaxCounter
    BY <1>4, LinkAssumption DEF Transmit, Basic, Typed
  <2>3. p.key \in {LinkLtk} \X (1..MaxSessions) \X (1..MaxSessions)
    <3>1. session \in 1..MaxSessions
      BY <1>3, <1>4
    <3>2. <<LinkLtk, session, session>> \in
             {LinkLtk} \X (1..MaxSessions) \X (1..MaxSessions)
      BY <3>1
    <3>3. p.key = <<LinkLtk, session, session>>
      BY <2>1 DEF LinkKey
    <3> HIDE DEF p
    <3> QED BY <3>2, <3>3, Zenon
  <2>4. p \in Pdu
    <3>1. p = [op |-> op, dir |-> d, half |-> session', key |-> p.key, counter |-> p.counter]
      BY DEF NewPdu
    <3> QED BY <1>3, <2>1, <2>2, <2>3, <3>1 DEF Pdu
  <2>5. Encrypted(p)
    BY <2>1, Keys DEF Encrypted
  <2> QED BY <1>1, <1>2, <1>3, <1>4, <2>1, <2>4, <2>5
<1>5. CASE ~encrypted
  <2>1. p.key = Plain /\ p.counter = 0
    BY <1>5 DEF NewPdu
  <2>2. p \in Pdu
    <3>1. p = [op |-> op, dir |-> d, half |-> session', key |-> p.key, counter |-> p.counter]
      BY DEF NewPdu
    <3> QED BY <1>3, <2>1, <3>1, LinkAssumption DEF Pdu
  <2>3. ~Encrypted(p)
    BY <2>1 DEF Encrypted
  <2> QED BY <1>1, <1>2, <1>3, <1>5, <2>2, <2>3
<1> QED BY <1>4, <1>5

\* The PDUs remembered stay within what was sent.
LEMMA SentStays ==
    ASSUME Typed, NEW x \in Pdu, NEW d \in Direction, Sent(x, d),
           \/ session' = session /\ counter'[d] \in Nat /\ counter[d] <= counter'[d]
           \/ session' = session + 1
    PROVE  SentIn(x, d, session', counter')
<1>1. CASE ~Encrypted(x)
  BY <1>1 DEF SentIn
<1>2. CASE Encrypted(x)
  <2>1. PICK s \in 1..session : /\ x.key = LinkKey(s)
                                /\ s = session => x.counter < counter[d]
    BY <1>2 DEF Sent, SentIn
  <2>2. session \in Nat /\ counter[d] \in Nat /\ x.counter \in Nat
    BY LinkAssumption DEF Typed, Pdu
  <2>3. s \in 1..session' /\ (s = session' => x.counter < counter'[d])
    BY <2>1, <2>2
  <2>4. x.op \in {"DATA", "START_ENC_RSP", "PAUSE_ENC_REQ",
                  "PAUSE_ENC_RSP", "TERMINATE_IND"} /\ x.dir = d
    BY <1>2 DEF Sent, SentIn
  <2> QED BY <2>1, <2>3, <2>4 DEF SentIn
<1> QED BY <1>1, <1>2

\* Capturing p remembers p or nothing.
LEMMA Remembers ==
    ASSUME Typed, NEW p \in Pdu, Capture(p) \/ Miss(p)
    PROVE  /\ heard' \in [Direction -> Pdu] /\ accepted' \in [Direction -> Pdu]
           /\ \A d \in Direction :
                 /\ heard'[d] \in {heard[d], p} /\ accepted'[d] \in {accepted[d], p}
                 /\ d # p.dir => heard'[d] = heard[d] /\ accepted'[d] = accepted[d]
<1>1. p.dir \in Direction
  BY DEF Pdu
<1>2. /\ heard' = heard \/ heard' = [heard EXCEPT ![p.dir] = p]
      /\ accepted' = accepted \/ accepted' = [accepted EXCEPT ![p.dir] = p]
  BY DEF Capture, Miss
<1>3. heard \in [Direction -> Pdu] /\ accepted \in [Direction -> Pdu]
  BY DEF Typed
<1>6. \A d \in Direction :
         /\ heard'[d] \in {heard[d], p} /\ accepted'[d] \in {accepted[d], p}
         /\ d # p.dir => heard'[d] = heard[d] /\ accepted'[d] = accepted[d]
  <2> SUFFICES ASSUME NEW d \in Direction
               PROVE  /\ heard'[d] \in {heard[d], p}
                      /\ accepted'[d] \in {accepted[d], p}
                      /\ d # p.dir => heard'[d] = heard[d] /\ accepted'[d] = accepted[d]
    OBVIOUS
  <2>1. heard'[d] \in {heard[d], p} /\ (d # p.dir => heard'[d] = heard[d])
    BY <1>1, <1>2, <1>3
  <2>2. accepted'[d] \in {accepted[d], p} /\ (d # p.dir => accepted'[d] = accepted[d])
    BY <1>1, <1>2, <1>3
  <2> QED BY <2>1, <2>2
<1>7. heard' \in [Direction -> Pdu] /\ accepted' \in [Direction -> Pdu]
  BY <1>1, <1>2, <1>3
<1> QED BY <1>6, <1>7

\* Before LL_START_ENC_REQ nothing has been protected under the session's key.
LEMMA NothingYet ==
    ASSUME Basic, phase \in {"requested", "answered"}, NEW e \in Direction
    PROVE  heard[e].key # LinkKey(session) /\ accepted[e].key # LinkKey(session)
<1>1. ASSUME NEW x \in Pdu, Sent(x, e), x.key = LinkKey(session) PROVE FALSE
  <2>1. counter[e] = 0 /\ x.counter \in Nat
    BY LinkAssumption DEF Basic, Procedure, Pdu
  <2>2. Encrypted(x)
    BY <1>1, Keys DEF Encrypted
  <2>3. PICK s \in 1..session : /\ x.key = LinkKey(s)
                                /\ s = session => x.counter < counter[e]
    BY <1>1, <2>2 DEF Sent, SentIn
  <2>4. s = session
    BY <1>1, <2>3, Keys
  <2> QED BY <2>1, <2>3, <2>4
<1>2. heard[e] \in Pdu /\ accepted[e] \in Pdu
  BY DEF Basic, Typed
<1> QED BY <1>1, <1>2 DEF Basic, Numbered

LEMMA SendOffers ==
    ASSUME Basic, NEW d \in Direction, NEW encrypted \in BOOLEAN,
           NEW op \in {"DATA", "ENC_REQ", "ENC_RSP", "START_ENC_REQ", "START_ENC_RSP",
                       "PAUSE_ENC_REQ", "PAUSE_ENC_RSP", "TERMINATE_IND"},
           Legal(d, op, encrypted), Transmit(d, op, encrypted)
    PROVE  Offers(NewPdu(d, op, encrypted))
<1> DEFINE p == NewPdu(d, op, encrypted)
<1>1. /\ p \in Pdu /\ p.op = op /\ p.dir = d /\ p.half = session'
      /\ Encrypted(p) <=> encrypted
      /\ encrypted => p.key = LinkKey(session) /\ p.counter = counter[d]
      /\ last' = [last EXCEPT ![d] = p]
      /\ session' \in {session, session + 1}
  BY Sending
<1> HIDE DEF p
<1>2. Fit(p)
  <2>1. encrypted => op \in {"DATA", "START_ENC_RSP", "PAUSE_ENC_REQ",
                             "PAUSE_ENC_RSP", "TERMINATE_IND"}
    BY DEF Legal, UnderKey
  <2>2. op = "ENC_RSP" => session' # 0
    BY DEF Legal, UnderKey, InClear, Opens, Basic, Typed
  <2> QED BY <1>1, <2>1, <2>2 DEF Fit
<1>3. \A e \in Direction : last'[e] = IF e = d THEN p ELSE last[e]
  BY <1>1 DEF Basic, Typed
<1>4. encrypted => phase \notin {"off", "plain"} /\ session' = session
  BY DEF Legal, UnderKey
<1>5. phase' \notin {"off", "plain"} =>
         \/ phase \notin {"off", "plain"}
         \/ phase = "plain" /\ session' = session + 1
  BY DEF Legal, UnderKey, InClear, Opens
<1>6. ASSUME op = "ENC_RSP", NEW e \in Direction PROVE accepted[e].key # LinkKey(session')
  <2>1. phase = "requested" /\ session' = session
    BY <1>6 DEF Legal, UnderKey, InClear, Opens
  <2> QED BY <2>1, NothingYet
<1>7. session' <= session'
  BY <1>1 DEF Basic, Typed
<1>8. Offers(p)
  BY <1>1, <1>2, <1>3, <1>4, <1>5, <1>6, <1>7 DEF Offers
<1> QED BY <1>8 DEF p

LEMMA SendBasic ==
    ASSUME Basic, NEW d \in Direction, NEW encrypted \in BOOLEAN,
           NEW op \in {"DATA", "ENC_REQ", "ENC_RSP", "START_ENC_REQ", "START_ENC_RSP",
                       "PAUSE_ENC_REQ", "PAUSE_ENC_RSP", "TERMINATE_IND"},
           Legal(d, op, encrypted), Transmit(d, op, encrypted)
    PROVE  Basic'
<1> DEFINE p == NewPdu(d, op, encrypted)
<1>1. /\ Capture(p) \/ Miss(p)
      /\ p \in Pdu /\ p.op = op /\ p.dir = d /\ p.half = session'
      /\ Encrypted(p) <=> encrypted
      /\ encrypted => p.key = LinkKey(session) /\ p.counter = counter[d]
      /\ last' = [last EXCEPT ![d] = p]
      /\ session' \in 1..MaxSessions \/ phase' \in {"off", "plain"}
      /\ session' \in {session, session + 1}
  BY Sending
<1>2. Offers(p)
  BY SendOffers
<1> HIDE DEF p
<1>3. Keyed' /\ Fresh' /\ Seen' /\ SameSent'
  BY <1>1, <1>2, KeyStep, SeenStep
<1>4. SnifferTyped
  BY <1>1, <1>2, Outcomes DEF Basic, Offers
<1>5. /\ heard' \in [Direction -> Pdu] /\ accepted' \in [Direction -> Pdu]
      /\ \A e \in Direction :
            /\ heard'[e] \in {heard[e], p} /\ accepted'[e] \in {accepted[e], p}
            /\ e # p.dir => heard'[e] = heard[e] /\ accepted'[e] = accepted[e]
  BY <1>1, Remembers DEF Basic
<1>6. /\ counter' \in [Direction -> 0..(MaxCounter + 1)]
      /\ encrypted => counter' = [counter EXCEPT ![d] = counter[d] + 1]
      /\ ~encrypted /\ op # "ENC_REQ" => counter' = counter
      /\ op = "ENC_REQ" => counter' = Zero
  <2>1. CASE op = "ENC_REQ"
    <3>1. counter' = Zero /\ ~encrypted
      BY <2>1 DEF Transmit, Legal, UnderKey
    <3> QED BY <2>1, <3>1, LinkAssumption DEF Zero
  <2>2. CASE op # "ENC_REQ" /\ encrypted
    <3>1. counter' = [counter EXCEPT ![d] = counter[d] + 1] /\ counter[d] <= MaxCounter
      BY <2>2 DEF Transmit
    <3> QED BY <2>2, <3>1, LinkAssumption DEF Basic, Typed
  <2>3. CASE op # "ENC_REQ" /\ ~encrypted
    BY <2>3 DEF Transmit, Basic, Typed
  <2> QED BY <2>1, <2>2, <2>3
<1>7. Typed'
  <2>1. phase' \in Phases /\ (phase' \notin {"off", "plain"} => session' >= 1)
        /\ session' \in 0..MaxSessions
    BY <1>1, LinkAssumption DEF Legal, Opens, InClear, UnderKey, Phases, Basic, Typed
  <2>2. last' \in [Direction -> Pdu]
    BY <1>1 DEF Basic, Typed
  <2>3. since' \in [Direction -> 0..2]
    BY DEF Transmit, Basic, Typed
  <2>4. connections' \in 0..MaxConnections /\ owed' \subseteq Direction
    BY DEF Transmit, Basic, Typed
  <2>5. connectionActive' \in BOOLEAN
    BY <1>4 DEF SnifferTyped, Basic, Typed
  <2> QED BY <1>4, <1>5, <1>6, <2>1, <2>2, <2>3, <2>4, <2>5 DEF SnifferTyped, Typed
<1>8. \A e \in Direction : \/ session' = session /\ counter'[e] \in Nat /\ counter[e] <= counter'[e]
                          \/ session' = session + 1
  <2> SUFFICES ASSUME NEW e \in Direction, session' = session
               PROVE  counter'[e] \in Nat /\ counter[e] <= counter'[e]
    BY <1>1
  <2>1. op # "ENC_REQ"
    BY DEF Legal, Opens, InClear, UnderKey, Basic, Typed
  <2>2. counter[e] \in Nat /\ counter'[e] \in {counter[e], counter[e] + 1}
    BY <1>6, <2>1, LinkAssumption DEF Basic, Typed
  <2> QED BY <2>2
<1>9. SentIn(p, d, session', counter')
  <2>1. CASE ~encrypted
    BY <1>1, <2>1 DEF SentIn
  <2>2. CASE encrypted
    <3>1. session' = session /\ session \in 1..MaxSessions
      BY <2>2, LinkAssumption DEF Legal, UnderKey, Basic, Typed
    <3>2. p.counter < counter'[d]
      BY <1>1, <1>6, <2>2, LinkAssumption DEF Basic, Typed
    <3>3. op \in {"DATA", "START_ENC_RSP", "PAUSE_ENC_REQ", "PAUSE_ENC_RSP", "TERMINATE_IND"}
      BY <2>2 DEF Legal, UnderKey
    <3>4. session' \in 1..session' /\ p.key = LinkKey(session')
      BY <1>1, <2>2, <3>1
    <3> QED BY <1>1, <3>2, <3>3, <3>4 DEF SentIn
  <2> QED BY <2>1, <2>2
<1>10. Numbered'
  <2> SUFFICES ASSUME NEW e \in Direction
               PROVE  /\ SentIn(last'[e], e, session', counter')
                      /\ SentIn(heard'[e], e, session', counter')
                      /\ SentIn(accepted'[e], e, session', counter')
    BY Zenon DEF Numbered, Sent
  <2>1. last[e] \in Pdu /\ heard[e] \in Pdu /\ accepted[e] \in Pdu
    BY DEF Basic, Typed
  <2>2. /\ SentIn(last[e], e, session', counter')
        /\ SentIn(heard[e], e, session', counter')
        /\ SentIn(accepted[e], e, session', counter')
    BY <1>8, <2>1, SentStays DEF Basic, Numbered
  <2>3. /\ e = d => /\ last'[e] = p
                    /\ heard'[e] = p \/ heard'[e] = heard[e]
                    /\ accepted'[e] = p \/ accepted'[e] = accepted[e]
        /\ e # d => /\ last'[e] = last[e] /\ heard'[e] = heard[e]
                    /\ accepted'[e] = accepted[e]
    BY <1>1, <1>5 DEF Basic, Typed
  <2> QED BY <1>9, <2>2, <2>3, Zenon
<1>11. Procedure'
  <2>1. /\ since'[d] = 0
        /\ \A e \in Direction : e # d => since'[e] = IF since[e] < 2 THEN since[e] + 1 ELSE 2
    BY DEF Transmit
  <2>2. /\ last'[d] = p
        /\ \A e \in Direction : e # d => last'[e] = last[e]
    BY <1>1 DEF Basic, Typed
  <2>3. /\ PeripheralToCentral \in Direction /\ CentralToPeripheral \in Direction
        /\ PeripheralToCentral # CentralToPeripheral
        /\ Direction = {PeripheralToCentral, CentralToPeripheral}
    BY DEF Direction, PeripheralToCentral, CentralToPeripheral
  <2>4. phase' \in {"requested", "answered"} =>
           /\ \A e \in Direction : counter'[e] = 0
           /\ last'[CentralToPeripheral].op = "ENC_REQ"
           /\ since'[CentralToPeripheral] = IF phase' = "answered" THEN 1 ELSE 0
    <3>1. CASE phase' = "requested"
      <4>1. d = CentralToPeripheral /\ op = "ENC_REQ"
        BY <3>1 DEF Legal, Opens, InClear, UnderKey
      <4> QED BY <1>1, <1>6, <2>1, <2>2, <3>1, <4>1 DEF Zero
    <3>2. CASE phase' = "answered"
      <4>1. d = PeripheralToCentral /\ op = "ENC_RSP" /\ phase = "requested" /\ ~encrypted
        BY <3>2 DEF Legal, Opens, InClear, UnderKey
      <4> QED BY <1>1, <1>6, <2>1, <2>2, <2>3, <3>2, <4>1 DEF Basic, Procedure
    <3> QED BY <3>1, <3>2
  <2>5. phase' = "answered" =>
           last'[PeripheralToCentral].op = "ENC_RSP" /\ since'[PeripheralToCentral] = 0
    <3> SUFFICES ASSUME phase' = "answered"
                 PROVE  last'[PeripheralToCentral].op = "ENC_RSP"
                        /\ since'[PeripheralToCentral] = 0
      OBVIOUS
    <3>1. d = PeripheralToCentral /\ op = "ENC_RSP"
      BY DEF Legal, Opens, InClear, UnderKey
    <3> QED BY <1>1, <2>1, <2>2, <3>1
  <2>6. phase' = "plain" => \A e \in Direction : ~Encrypted(last'[e])
    <3> SUFFICES ASSUME phase' = "plain", NEW e \in Direction
                 PROVE  ~Encrypted(last'[e])
      OBVIOUS
    <3>1. phase = "plain" /\ ~encrypted
      BY DEF Legal, Opens, InClear, UnderKey
    <3> QED BY <1>1, <2>2, <3>1 DEF Basic, Procedure
  <2>7. \A e \in Direction : last'[e] # NoPdu => last'[e].dir = e
    BY <1>1, <2>2 DEF Basic, Procedure
  <2>8. \A e \in Direction :
          /\ phase' # "off" /\ last'[e].op = "ENC_REQ" =>
                /\ e = CentralToPeripheral /\ last'[e].half = session'
                /\ phase' \in {"requested", "answered", "starting"}
          /\ phase' # "off" /\ last'[e].op = "ENC_RSP" =>
                /\ e = PeripheralToCentral /\ last'[e].half = session'
                /\ phase' = "answered"
          /\ phase' # "off" /\ last'[e].op = "START_ENC_REQ" =>
                e = PeripheralToCentral /\ phase' \in {"starting", "started"}
    <3> SUFFICES ASSUME NEW e \in Direction, phase' # "off"
                 PROVE  /\ last'[e].op = "ENC_REQ" =>
                              /\ e = CentralToPeripheral /\ last'[e].half = session'
                              /\ phase' \in {"requested", "answered", "starting"}
                        /\ last'[e].op = "ENC_RSP" =>
                              /\ e = PeripheralToCentral /\ last'[e].half = session'
                              /\ phase' = "answered"
                        /\ last'[e].op = "START_ENC_REQ" =>
                              /\ e = PeripheralToCentral
                              /\ phase' \in {"starting", "started"}
      OBVIOUS
    <3>1. CASE e = d
      BY <1>1, <2>2, <3>1 DEF Legal, Opens, InClear, UnderKey
    <3>2. CASE e # d
      <4>1. last'[e] = last[e] /\ phase # "off"
        BY <2>2, <3>2 DEF Legal, Opens, InClear, UnderKey
      <4>2. CASE Opens(d, op)
        BY <2>3, <3>2, <4>1, <4>2 DEF Opens, Basic, Procedure
      <4>3. CASE session' = session /\ InClear(d, op)
        BY <2>3, <3>2, <4>1, <4>3 DEF InClear, Basic, Procedure
      <4>4. CASE session' = session /\ UnderKey(d, op)
        BY <2>3, <3>2, <4>1, <4>4 DEF UnderKey, Basic, Procedure
      <4> QED BY <4>2, <4>3, <4>4 DEF Legal
    <3> QED BY <3>1, <3>2
  <2> QED BY <2>4, <2>5, <2>6, <2>7, <2>8 DEF Procedure, Encrypted
<1> QED BY <1>3, <1>7, <1>10, <1>11 DEF Basic

---------------------------------------------------------------------------
(* The other steps of the peers. *)

LEMMA RepeatOffers ==
    ASSUME Basic, NEW d \in Direction, Retransmit(d)
    PROVE  /\ Offers(last[d]) /\ last[d].dir = d
           /\ Capture(last[d]) \/ Miss(last[d])
<1> DEFINE p == last[d]
<1>1. /\ phase # "off" /\ p # NoPdu
      /\ phase' = phase /\ session' = session /\ last' = last
      /\ Capture(p) \/ Miss(p)
  BY DEF Retransmit
<1>2. p \in Pdu /\ p.dir = d
  BY <1>1 DEF Basic, Typed, Procedure
<1>3. p.op \in {"ENC_REQ", "ENC_RSP"} => p.half = session
  BY <1>1 DEF Basic, Procedure
<1>4. p.op = "ENC_RSP" => phase = "answered" /\ session # 0
  BY <1>1 DEF Basic, Procedure, Typed
<1>5. Fit(p)
  BY <1>2, <1>3, <1>4 DEF Fit, Basic, Numbered, Sent, SentIn
<1>6. Encrypted(p) => phase \notin {"off", "plain"}
  BY <1>1 DEF Basic, Procedure
<1>7. p.op = "ENC_RSP" => \A e \in Direction : accepted[e].key # LinkKey(p.half)
  BY <1>3, <1>4, NothingYet
<1>8. session \in Nat
  BY LinkAssumption DEF Basic, Typed
<1> HIDE DEF p
<1>9. Offers(p)
  <2>1. \A e \in Direction : last'[e] = IF e = p.dir THEN p ELSE last[e]
    BY <1>1, <1>2 DEF p
  <2>2. p = last[p.dir]
    BY <1>2 DEF p
  <2> QED BY <1>1, <1>3, <1>5, <1>6, <1>7, <1>8, <2>1, <2>2 DEF Offers
<1> QED BY <1>1, <1>2, <1>9 DEF p

LEMMA RepeatBasic ==
    ASSUME Basic, NEW d \in Direction, Retransmit(d)
    PROVE  Basic'
<1> DEFINE p == last[d]
<1>1. /\ Offers(p) /\ p.dir = d /\ (Capture(p) \/ Miss(p))
  BY RepeatOffers
<1>2. /\ phase' = phase /\ session' = session /\ last' = last /\ counter' = counter
      /\ since' = since /\ connections' = connections /\ p \in Pdu
      /\ owed' \subseteq Direction /\ phase # "off"
  BY DEF Retransmit, Basic, Typed, Other, Direction, PeripheralToCentral,
         CentralToPeripheral
<1>3. Sent(p, d)
  BY DEF Basic, Numbered
<1> HIDE DEF p
<1>4. Keyed' /\ Fresh' /\ Seen' /\ SameSent'
  BY <1>1, KeyStep, SeenStep
<1>5. SnifferTyped
  BY <1>1, Outcomes DEF Basic, Offers
<1>6. /\ heard' \in [Direction -> Pdu] /\ accepted' \in [Direction -> Pdu]
      /\ \A e \in Direction :
            /\ heard'[e] \in {heard[e], p} /\ accepted'[e] \in {accepted[e], p}
            /\ e # p.dir => heard'[e] = heard[e] /\ accepted'[e] = accepted[e]
  BY <1>1, <1>2, Remembers DEF Basic
<1>7. Typed'
  <2>1. connectionActive' \in BOOLEAN
    BY <1>5 DEF SnifferTyped, Basic, Typed
  <2> QED BY <1>2, <1>5, <1>6, <2>1 DEF SnifferTyped, Basic, Typed
<1>8. Numbered'
  <2> SUFFICES ASSUME NEW e \in Direction
               PROVE  Sent(last'[e], e) /\ Sent(heard'[e], e) /\ Sent(accepted'[e], e)
    BY <1>2, Zenon DEF Numbered, Sent
  <2>1. /\ e = d => /\ heard'[e] = p \/ heard'[e] = heard[e]
                    /\ accepted'[e] = p \/ accepted'[e] = accepted[e]
        /\ e # d => heard'[e] = heard[e] /\ accepted'[e] = accepted[e]
    BY <1>1, <1>6
  <2>2. Sent(last[e], e) /\ Sent(heard[e], e) /\ Sent(accepted[e], e)
    BY DEF Basic, Numbered
  <2> QED BY <1>2, <1>3, <2>1, <2>2, Zenon
<1>9. Procedure'
  BY <1>2 DEF Basic, Procedure, Encrypted
<1> QED BY <1>4, <1>7, <1>8, <1>9 DEF Basic

LEMMA ConnectBasic == Basic /\ Connect => Basic'
<1> SUFFICES ASSUME Basic, Connect PROVE Basic'
  OBVIOUS
<1>1. /\ phase' = "plain" /\ session' = session /\ counter' = counter
      /\ last' = NoPdus /\ heard' = NoPdus /\ accepted' = NoPdus
      /\ since' = Zero /\ owed' = {} /\ report' = NoReport
      /\ requested' = requested
      /\ connections' = connections + 1 /\ connections < MaxConnections
  BY DEF Connect
<1>2. /\ connectionActive' \in BOOLEAN /\ intact' \in BOOLEAN
      /\ crypto' = crypto \/ crypto' = ResetConnection(crypto)
  BY DEF Connect, Basic, Typed
<1>3. /\ crypto' \in CryptoStates
      /\ crypto' = crypto \/ ~crypto'.sessionKeyReady
      /\ crypto'.ltk = crypto.ltk
      /\ crypto'.skdm = crypto.skdm \/ crypto'.skdm = 0
      /\ crypto'.skds = crypto.skds \/ crypto'.skds = 0
  BY <1>2, ResetFields DEF Basic, Typed
<1>4. NoPdus \in [Direction -> Pdu] /\ \A d \in Direction : NoPdus[d] = NoPdu
  BY NoPduTyped DEF NoPdus
<1>5. Typed'
  <2>1. Zero \in [Direction -> 0..2]
    BY DEF Zero
  <2>2. connections' \in 0..MaxConnections
    BY <1>1, LinkAssumption DEF Basic, Typed
  <2>3. report' \in [pdu : Pdu, decrypted : BOOLEAN, retransmission : BOOLEAN]
    BY <1>1, NoPduTyped DEF Reports
  <2> QED BY <1>1, <1>2, <1>3, <1>4, <2>1, <2>2, <2>3 DEF Basic, Typed, Phases
<1>6. \A d \in Direction : /\ last'[d] = NoPdu /\ heard'[d] = NoPdu
                          /\ accepted'[d] = NoPdu
  BY <1>1, <1>4
<1>7. Numbered'
  BY <1>6, NoPduTyped DEF Numbered, Sent, SentIn, Encrypted
<1>8. Procedure'
  BY <1>1, <1>6, NoPduTyped DEF Procedure, Encrypted
<1>9. Keyed'
  BY <1>1, <1>3, LinkAssumption DEF Basic, Typed, Keyed
<1>10. Fresh'
  <2> SUFFICES ASSUME NEW d \in Direction, crypto'.sessionKeyReady,
                      accepted'[d].key = SessionKey(crypto')
               PROVE  FALSE
    BY DEF Fresh
  <2>1. SessionKey(crypto') = Plain
    BY <1>6, NoPduTyped
  <2> QED BY <1>9, <2>1, Keys DEF Keyed
<1>11. Seen'
  BY <1>1 DEF Seen
<1>12. SameSent'
  BY <1>6 DEF SameSent
<1> QED BY <1>5, <1>7, <1>8, <1>9, <1>10, <1>11, <1>12 DEF Basic

LEMMA VanishBasic == Basic /\ Vanish => Basic'
<1> SUFFICES ASSUME Basic, Vanish PROVE Basic'
  OBVIOUS
<1>1. /\ phase' = "off" /\ report' = NoReport
      /\ UNCHANGED <<connections, session, counter, last, since, owed,
                     connectionActive, crypto, intact, requested, heard, accepted>>
  BY DEF Vanish, history
<1>2. Typed'
  BY <1>1, NoPduTyped DEF Basic, Typed, Phases, Reports
<1>3. Numbered' /\ Procedure'
  BY <1>1 DEF Basic, Numbered, Sent, SentIn, Encrypted, Procedure
<1>4. Keyed' /\ Fresh' /\ Seen' /\ SameSent'
  BY <1>1 DEF Basic, Keyed, Fresh, Seen, SameSent, Encrypted, SessionKey
<1> QED BY <1>2, <1>3, <1>4 DEF Basic

LEMMA StartBasic == Init => Basic
<1> SUFFICES ASSUME Init PROVE Basic
  OBVIOUS
<1>1. PICK ltk \in Ltks : crypto = CryptoState(ltk)
  BY DEF Init
<1>2. /\ crypto \in CryptoStates /\ ~crypto.sessionKeyReady
      /\ crypto.skdm = 0 /\ crypto.skds = 0
  BY <1>1, LinkAssumption DEF CryptoState, CryptoStates, NoHalf, Zero
<1>3. \A d \in Direction : last[d] = NoPdu /\ heard[d] = NoPdu /\ accepted[d] = NoPdu
  BY DEF Init, NoPdus
<1>4. Typed
  <2>1. /\ last \in [Direction -> Pdu] /\ heard \in [Direction -> Pdu]
        /\ accepted \in [Direction -> Pdu]
    BY NoPduTyped DEF Init, NoPdus
  <2>2. counter \in [Direction -> 0..(MaxCounter + 1)] /\ since \in [Direction -> 0..2]
    BY LinkAssumption DEF Init, Zero
  <2>3. report \in [pdu : Pdu, decrypted : BOOLEAN, retransmission : BOOLEAN]
    BY NoPduTyped DEF Init, Reports
  <2>4. /\ phase \in Phases /\ phase = "off" /\ owed \subseteq Direction
        /\ connectionActive \in BOOLEAN /\ intact \in BOOLEAN
    BY DEF Init, Phases
  <2>5. /\ connections \in 0..MaxConnections /\ session \in 0..MaxSessions
        /\ requested \in 0..MaxSessions
    BY LinkAssumption DEF Init, NoHalf
  <2> QED BY <1>2, <2>1, <2>2, <2>3, <2>4, <2>5 DEF Typed
<1>5. Numbered
  BY <1>3, NoPduTyped DEF Numbered, Sent, SentIn, Encrypted
<1>6. Procedure
  BY <1>3 DEF Procedure, Init
<1>7. Keyed /\ Fresh /\ Seen
  BY <1>2 DEF Keyed, Fresh, Seen, Init
<1>8. SameSent
  BY <1>3 DEF SameSent
<1> QED BY <1>4, <1>5, <1>6, <1>7, <1>8 DEF Basic

---------------------------------------------------------------------------
(* A sniffer that followed the procedures decrypts. *)

\* Encryption is active and the key is right.
LEMMA CaptureProtected ==
    ASSUME Basic, Insight, crypto.ltk = LinkLtk, intact', phase \in Protected,
           NEW p \in Pdu, p.key = LinkKey(session),
           p.counter = counter[p.dir] \/ p.counter + 1 = counter[p.dir],
           p.op \notin {"ENC_REQ", "ENC_RSP", "START_ENC_REQ"}, Capture(p)
    PROVE  /\ report'.decrypted
           /\ heard' = [heard EXCEPT ![p.dir] = p]
           /\ accepted' = [accepted EXCEPT ![p.dir] = p]
           /\ crypto'.nextCounter[p.dir] = p.counter + 1
           /\ \A d \in Direction \ {p.dir} : crypto'.nextCounter[d] = crypto.nextCounter[d]
           /\ SameKey
           /\ crypto'.encryptionActive <=>
                 p.op \notin {"PAUSE_ENC_RSP", "TERMINATE_IND"}
<1>1. /\ crypto \in CryptoStates /\ p.dir \in Direction /\ p.counter \in Nat
      /\ crypto.nextCounter \in [Direction -> Nat]
      /\ counter[p.dir] \in Nat /\ heard[p.dir].counter \in Nat
      /\ CounterWindow \in Nat
  BY LinkAssumption, CounterAssumption DEF Basic, Typed, CryptoStates, Pdu
<1>2. /\ connectionActive /\ crypto.encryptionActive /\ crypto.sessionKeyReady
      /\ crypto.skdm = session /\ crypto.skds = session
      /\ crypto.nextCounter[p.dir] <= counter[p.dir]
      /\ heard[p.dir].key = LinkKey(session) =>
            heard[p.dir].counter + 1 = crypto.nextCounter[p.dir]
  BY <1>1 DEF Insight, Exchanged
<1>3. SessionKey(crypto) = p.key /\ CanDecrypt(crypto)
  BY <1>2, Keys DEF CanDecrypt
<1>4. Encrypted(p)
  BY Keys DEF Encrypted
<1>5. \/ p.counter < CounterWindow
      \/ /\ heard[p.dir].key = LinkKey(session)
         /\ p.counter <= heard[p.dir].counter + CounterWindow
  BY <1>4 DEF Capture, WithinWindow
<1>6. p.counter < crypto.nextCounter[p.dir] + CounterWindow
  BY <1>1, <1>2, <1>5
<1>7. IsNext(crypto, p) \/ IsRetransmission(crypto, p)
  BY <1>1, <1>2, <1>3, <1>6, Search
<1>8. CaptureNext(p) \/ CaptureRetransmission(p)
  BY <1>2, <1>7 DEF Capture, CaptureUnfollowed, CapturePlain, CaptureCiphertext,
                    CaptureOpaque
<1>9. report'.decrypted
  BY <1>8 DEF CaptureNext, CaptureRetransmission
<1>10. /\ heard' = [heard EXCEPT ![p.dir] = p]
       /\ accepted' = [accepted EXCEPT ![p.dir] = p]
  BY <1>4, <1>9 DEF Capture
<1>11. CASE CaptureNext(p)
  <2> DEFINE f == Finish(crypto, p)
  <2>1. crypto' = ObserveControl(f, p)
    BY <1>11 DEF CaptureNext
  <2>2. /\ f \in CryptoStates /\ f.skdm = crypto.skdm
        /\ f.skds = crypto.skds /\ f.sessionKeyReady = crypto.sessionKeyReady
        /\ f.encryptionActive = crypto.encryptionActive
        /\ f.nextCounter = [crypto.nextCounter EXCEPT ![p.dir] = p.counter + 1]
    BY <1>1, FinishFields
  <2> HIDE DEF f
  <2>3. SameKey /\ crypto'.nextCounter = f.nextCounter
    BY <2>1, <2>2, ControlOther DEF SameKey
  <2>4. /\ crypto'.nextCounter[p.dir] = p.counter + 1
        /\ \A d \in Direction \ {p.dir} : crypto'.nextCounter[d] = crypto.nextCounter[d]
    BY <1>1, <2>2, <2>3
  <2>5. crypto'.encryptionActive <=> p.op \notin {"PAUSE_ENC_RSP", "TERMINATE_IND"}
    <3>1. CASE p.op \in {"PAUSE_ENC_RSP", "TERMINATE_IND"}
      BY <2>1, <2>2, <3>1, ControlOther
    <3>2. CASE p.op \notin {"PAUSE_ENC_RSP", "TERMINATE_IND"}
      <4>1. crypto' = f
        BY <2>1, <2>2, <3>2, ControlOther
      <4> QED BY <1>2, <2>2, <3>2, <4>1
    <3> QED BY <3>1, <3>2
  <2> QED BY <1>9, <1>10, <2>3, <2>4, <2>5
<1>12. CASE CaptureRetransmission(p)
  <2>1. /\ crypto' = ObserveControl(crypto, p)
        /\ p.counter + 1 = crypto.nextCounter[p.dir]
    BY <1>1, <1>12, Search DEF CaptureRetransmission
  <2>2. SameKey /\ crypto'.nextCounter = crypto.nextCounter
    BY <1>1, <2>1, ControlOther DEF SameKey
  <2>3. crypto'.encryptionActive <=> p.op \notin {"PAUSE_ENC_RSP", "TERMINATE_IND"}
    <3>1. CASE p.op \in {"PAUSE_ENC_RSP", "TERMINATE_IND"}
      BY <1>1, <2>1, <3>1, ControlOther
    <3>2. CASE p.op \notin {"PAUSE_ENC_RSP", "TERMINATE_IND"}
      <4>1. crypto' = crypto
        BY <1>1, <2>1, <3>2, ControlOther
      <4> QED BY <1>2, <3>2, <4>1
    <3> QED BY <3>1, <3>2
  <2> QED BY <1>9, <1>10, <2>1, <2>2, <2>3
<1> QED BY <1>8, <1>11, <1>12

\* Encryption is active and the packet is in the clear: it is not looked at.
LEMMA CaptureUnprotected ==
    ASSUME Basic, Insight, phase \in Protected,
           NEW p \in Pdu, ~Encrypted(p), Capture(p)
    PROVE  crypto' = crypto /\ heard' = heard /\ accepted' = accepted
<1>1. connectionActive /\ crypto.encryptionActive
  BY DEF Insight
<1>2. ~IsNext(crypto, p) /\ ~IsRetransmission(crypto, p)
  <2>1. SUFFICES ASSUME p.key = SessionKey(crypto), CanDecrypt(crypto) PROVE FALSE
    BY Search DEF Basic, Typed
  <2>2. SessionKey(crypto) = Plain
    BY <2>1 DEF Encrypted
  <2> QED BY <2>1, <2>2, Keys DEF Basic, Keyed, CanDecrypt
<1>3. crypto' = crypto /\ report' = [NoReport EXCEPT !.pdu = p]
  BY <1>1, <1>2 DEF Capture, CaptureUnfollowed, CapturePlain, CaptureCiphertext,
                    CaptureNext, CaptureRetransmission, CaptureOpaque
<1>4. ~report'.decrypted
  BY <1>3, NoPduTyped
<1> QED BY <1>3, <1>4 DEF Capture

\* Encryption is not active: control PDUs in the clear are observed, and
\* ciphertext is passed over unless it is misread.
LEMMA CaptureInactive ==
    ASSUME Basic, Insight, intact', phase \notin Protected, NEW p \in Pdu, Capture(p)
    PROVE  /\ accepted' = accepted
           /\ ~Encrypted(p) => crypto' = ObserveControl(crypto, p) /\ heard' = heard
           /\ Encrypted(p) => crypto' = crypto
<1>1. connectionActive /\ ~crypto.encryptionActive
  BY DEF Insight
<1>2. CapturePlain(p) \/ CaptureCiphertext(p)
  BY <1>1 DEF Capture, CaptureUnfollowed, CaptureNext, CaptureRetransmission,
              CaptureOpaque, IsNext, IsRetransmission, CanDecrypt
<1>3. report' = [NoReport EXCEPT !.pdu = p]
  BY <1>2 DEF CapturePlain, CaptureCiphertext
<1>4. accepted' = accepted
  <2>1. ~report'.decrypted
    BY <1>3, NoPduTyped
  <2> QED BY <2>1 DEF Capture
<1>5. ~Encrypted(p) => crypto' = ObserveControl(crypto, p) /\ heard' = heard
  BY <1>2 DEF CapturePlain, CaptureCiphertext, Capture
<1>6. ASSUME Encrypted(p) PROVE crypto' = crypto
  <2>1. ~Misread(p)
    BY DEF Capture
  <2>2. ASSUME crypto' = ObserveControl(crypto, [op |-> "START_ENC_REQ"]) PROVE FALSE
    <3>1. [op |-> "START_ENC_REQ"].op = "START_ENC_REQ"
      OBVIOUS
    <3>2. crypto'.encryptionActive
      BY <2>2, <3>1, ControlOther DEF Basic, Typed
    <3> QED BY <1>1, <1>6, <2>1, <3>2 DEF Misread
  <2> QED BY <1>2, <1>6, <2>2 DEF CapturePlain, CaptureCiphertext
<1> QED BY <1>4, <1>5, <1>6

\* A miss that leaves the premise intact.
LEMMA MissIntact ==
    ASSUME intact', NEW p, Miss(p)
    PROVE  /\ p.op \notin SetUp
           /\ crypto' = crypto /\ heard' = heard /\ accepted' = accepted
BY DEF Miss

LEMMA StaysFollowed ==
    ASSUME Basic, NEW p, Offers(p), Capture(p) \/ Miss(p)
    PROVE  /\ connectionActive' = connectionActive /\ crypto'.ltk = crypto.ltk
           /\ intact' => intact
<1>1. SnifferTyped
  BY Outcomes DEF Basic, Offers
<1>2. intact' => intact
  BY DEF Capture, Miss
<1> QED BY <1>1, <1>2 DEF SnifferTyped

LEMMA Two ==
    /\ Direction = {PeripheralToCentral, CentralToPeripheral}
    /\ PeripheralToCentral # CentralToPeripheral
BY DEF Direction, PeripheralToCentral, CentralToPeripheral

\* Insight after a step, put together.
LEMMA InsightNext ==
    ASSUME connectionActive',
           crypto'.encryptionActive <=> phase' \in Protected,
           phase' \in {"requested", "answered"} \cup Protected => crypto'.skdm = session',
           Exchanged' =>
              /\ crypto'.skds = session' /\ crypto'.sessionKeyReady
              /\ \A d \in Direction :
                    /\ crypto'.nextCounter[d] <= counter'[d]
                    /\ heard'[d].key = LinkKey(session') =>
                          heard'[d].counter + 1 = crypto'.nextCounter[d],
           \A d \in Direction :
              /\ Encrypted(last'[d]) /\ phase' \in Protected =>
                    /\ last'[d].key = LinkKey(session')
                    /\ last'[d].counter + 1 = counter'[d]
                    /\ last'[d].op \notin {"PAUSE_ENC_RSP", "TERMINATE_IND"}
              /\ Encrypted(last'[d]) /\ phase' \notin Protected =>
                    \E e \in Direction : /\ accepted'[e].op = "PAUSE_ENC_RSP"
                                        /\ accepted'[e].key = last'[d].key
    PROVE  Insight'
BY Zenon DEF Insight, Ended, Encrypted, LinkKey

\* A PDU in the clear, captured or not.
LEMMA FollowClear ==
    ASSUME Basic, Insight, intact', crypto.ltk = LinkLtk, NEW d \in Direction,
           NEW encrypted \in BOOLEAN, ~encrypted,
           NEW op \in {"DATA", "ENC_REQ", "ENC_RSP", "START_ENC_REQ", "START_ENC_RSP",
                       "PAUSE_ENC_REQ", "PAUSE_ENC_RSP", "TERMINATE_IND"},
           phase' # "off", Opens(d, op) \/ (session' = session /\ InClear(d, op)),
           Transmit(d, op, encrypted)
    PROVE  Insight'
<1> DEFINE p == NewPdu(d, op, encrypted)
<1>1. /\ Capture(p) \/ Miss(p)
      /\ p \in Pdu /\ p.op = op /\ p.dir = d /\ p.half = session'
      /\ ~Encrypted(p) /\ last' = [last EXCEPT ![d] = p]
      /\ Offers(p)
  <2>1. Legal(d, op, encrypted)
    BY DEF Legal
  <2>2. Offers(p)
    BY <2>1, SendOffers
  <2>3. /\ Capture(p) \/ Miss(p)
        /\ p \in Pdu /\ p.op = op /\ p.dir = d /\ p.half = session'
        /\ Encrypted(p) <=> encrypted
        /\ last' = [last EXCEPT ![d] = p]
    BY <2>1, Sending
  <2> QED BY <2>2, <2>3
<1> HIDE DEF p
<1>2. phase \notin Protected /\ phase \notin {"off"}
  BY DEF Opens, InClear, Protected
<1>3. /\ accepted' = accepted /\ heard' = heard
      /\ crypto' = ObserveControl(crypto, p) \/ (crypto' = crypto /\ op \notin SetUp)
  <2>1. CASE Capture(p)
    BY <1>1, <1>2, <2>1, CaptureInactive
  <2>2. CASE Miss(p)
    BY <1>1, <2>2, MissIntact
  <2> QED BY <1>1, <2>1, <2>2
<1>4. connectionActive' /\ crypto'.ltk = LinkLtk
  BY <1>1, StaysFollowed DEF Insight
<1>5. /\ last'[d] = p
      /\ \A e \in Direction : e # d => last'[e] = last[e]
  BY <1>1 DEF Basic, Typed
<1>6. \A e \in Direction : Encrypted(last'[e]) =>
         \E g \in Direction : /\ accepted'[g].op = "PAUSE_ENC_RSP"
                             /\ accepted'[g].key = last'[e].key
  <2> SUFFICES ASSUME NEW e \in Direction, Encrypted(last'[e])
               PROVE  \E g \in Direction : /\ accepted'[g].op = "PAUSE_ENC_RSP"
                                           /\ accepted'[g].key = last'[e].key
    OBVIOUS
  <2>1. last'[e] = last[e]
    BY <1>1, <1>5
  <2>2. Ended(last[e])
    BY <1>2, <2>1 DEF Insight
  <2> QED BY <1>3, <2>1, <2>2 DEF Ended
<1>7. crypto \in CryptoStates /\ ~crypto.encryptionActive
  BY <1>2 DEF Basic, Typed, Insight
<1>8. CASE op \in {"DATA", "TERMINATE_IND"}
  <2>1. phase' = "plain" /\ op = "DATA"
    BY <1>8 DEF Opens, InClear
  <2>2. crypto' = crypto
    BY <1>1, <1>3, <1>7, <2>1, ControlOther
  <2> QED BY <1>4, <1>6, <1>7, <2>1, <2>2, InsightNext DEF Protected, Exchanged
<1>9. CASE op = "ENC_REQ"
  <2>1. phase' = "requested"
    BY <1>9 DEF Opens, InClear
  <2>2. crypto'.skdm = session' /\ ~crypto'.encryptionActive
    BY <1>1, <1>3, <1>7, <1>9, ControlRequest DEF SetUp
  <2> QED BY <1>4, <1>6, <2>1, <2>2, InsightNext DEF Protected, Exchanged
<1>10. CASE op = "ENC_RSP"
  <2>1. /\ phase = "requested" /\ phase' = "answered" /\ session' = session
        /\ session # 0
    BY <1>10 DEF Opens, InClear, Basic, Typed
  <2>2. crypto' = ObserveControl(crypto, p) /\ crypto.skdm = session
    BY <1>3, <1>10, <2>1 DEF SetUp, Insight
  <2>3. crypto.ltk # NoLtk
    BY DEF LinkLtk, NoLtk
  <2>4. /\ crypto'.skdm = session /\ crypto'.skds = session
        /\ crypto'.encryptionActive = crypto.encryptionActive
        /\ crypto'.sessionKeyReady /\ crypto'.nextCounter = Zero
    BY <1>1, <1>7, <1>10, <2>1, <2>2, <2>3, ControlResponse
  <2>5. \A e \in Direction :
           /\ crypto'.nextCounter[e] <= counter'[e]
           /\ heard'[e].key # LinkKey(session')
    <3>1. counter' = counter
      BY <1>10 DEF Transmit
    <3> QED BY <1>3, <2>1, <2>4, <3>1, NothingYet DEF Zero, Basic, Procedure
  <2>6. ~crypto'.encryptionActive
    BY <1>7, <2>4
  <2> QED BY <1>4, <1>6, <2>1, <2>4, <2>5, <2>6, InsightNext DEF Protected
<1>11. CASE op = "START_ENC_REQ"
  <2>1. /\ phase = "answered" /\ phase' = "starting" /\ session' = session
        /\ d = PeripheralToCentral /\ owed = {} /\ counter' = counter
    BY <1>11 DEF Opens, InClear, Transmit
  <2>2. crypto' = ObserveControl(crypto, p) /\ Exchanged /\ crypto.skdm = session
    BY <1>3, <1>11, <2>1 DEF SetUp, Exchanged, Insight
  <2>3. /\ crypto'.skdm = crypto.skdm /\ crypto'.skds = crypto.skds
        /\ crypto'.sessionKeyReady = crypto.sessionKeyReady
        /\ crypto'.nextCounter = crypto.nextCounter
        /\ crypto'.encryptionActive
    BY <1>1, <1>7, <1>11, <2>2, ControlOther
  <2>4. \A e \in Direction : ~Encrypted(last'[e])
    <3>1. last[CentralToPeripheral].op = "ENC_REQ"
      BY <2>1 DEF Basic, Procedure
    <3>2. ~Encrypted(last[CentralToPeripheral])
      BY <3>1, Two DEF Basic, Numbered, Sent, SentIn
    <3> QED BY <1>1, <1>5, <2>1, <3>2, Two
  <2>5. /\ crypto'.skds = session' /\ crypto'.sessionKeyReady
        /\ \A e \in Direction :
              /\ crypto'.nextCounter[e] <= counter'[e]
              /\ heard'[e].key = LinkKey(session') =>
                    heard'[e].counter + 1 = crypto'.nextCounter[e]
    BY <1>3, <2>1, <2>2, <2>3 DEF Insight
  <2>6. crypto'.skdm = session'
    BY <2>1, <2>2, <2>3
  <2> QED BY <1>4, <2>1, <2>3, <2>4, <2>5, <2>6, InsightNext DEF Protected
<1>12. CASE op = "PAUSE_ENC_RSP"
  <2>1. phase' = "paused"
    BY <1>12 DEF Opens, InClear
  <2>2. ~crypto'.encryptionActive
    BY <1>1, <1>3, <1>7, <1>12, ControlOther
  <2> QED BY <1>4, <1>6, <2>1, <2>2, InsightNext DEF Protected, Exchanged
<1>13. op \in {"DATA", "TERMINATE_IND", "ENC_REQ", "ENC_RSP", "START_ENC_REQ",
               "PAUSE_ENC_RSP"}
  BY DEF Opens, InClear
<1> QED BY <1>8, <1>9, <1>10, <1>11, <1>12, <1>13

\* A protected PDU, captured or not.
LEMMA FollowKey ==
    ASSUME Basic, Insight, intact', crypto.ltk = LinkLtk, NEW d \in Direction,
           NEW encrypted \in BOOLEAN, encrypted,
           NEW op \in {"DATA", "ENC_REQ", "ENC_RSP", "START_ENC_REQ", "START_ENC_RSP",
                       "PAUSE_ENC_REQ", "PAUSE_ENC_RSP", "TERMINATE_IND"},
           session' = session, UnderKey(d, op), Transmit(d, op, encrypted)
    PROVE  /\ Capture(NewPdu(d, op, encrypted)) => report'.decrypted
           /\ phase' # "off" => Insight'
<1> DEFINE p == NewPdu(d, op, encrypted)
<1>1. /\ Capture(p) \/ Miss(p)
      /\ p \in Pdu /\ p.op = op /\ p.dir = d
      /\ p.key = LinkKey(session) /\ p.counter = counter[d]
      /\ last' = [last EXCEPT ![d] = p]
      /\ Offers(p)
  <2>1. Legal(d, op, encrypted)
    BY DEF Legal
  <2>2. Offers(p)
    BY <2>1, SendOffers
  <2>3. /\ Capture(p) \/ Miss(p)
        /\ last' = [last EXCEPT ![d] = p]
    BY DEF Transmit, NewPdu
  <2>3a. p \in Pdu /\ p.op = op /\ p.dir = d
    BY <2>2 DEF Offers, Fit, NewPdu
  <2>4. p.key = LinkKey(session) /\ p.counter = counter[d]
    BY DEF NewPdu, LinkKey
  <2> QED BY <2>2, <2>3, <2>3a, <2>4
<1> HIDE DEF p
<1>2. /\ phase \in Protected /\ Exchanged
      /\ op \notin {"ENC_REQ", "ENC_RSP", "START_ENC_REQ"}
  BY DEF UnderKey, Protected, Exchanged
<1>3. Capture(p) =>
         /\ report'.decrypted
         /\ heard' = [heard EXCEPT ![d] = p]
         /\ accepted' = [accepted EXCEPT ![d] = p]
         /\ crypto'.nextCounter[d] = p.counter + 1
         /\ \A e \in Direction \ {d} : crypto'.nextCounter[e] = crypto.nextCounter[e]
         /\ SameKey
         /\ crypto'.encryptionActive <=> op \notin {"PAUSE_ENC_RSP", "TERMINATE_IND"}
  BY <1>1, <1>2, CaptureProtected
<1>4. Miss(p) => /\ op \notin SetUp
                 /\ crypto' = crypto /\ heard' = heard /\ accepted' = accepted
  BY <1>1, MissIntact
<1>5. connectionActive' /\ crypto'.ltk = LinkLtk
  BY <1>1, StaysFollowed DEF Insight
<1>6. /\ last'[d] = p
      /\ \A e \in Direction : e # d => last'[e] = last[e]
  BY <1>1 DEF Basic, Typed
<1>7. /\ counter'[d] = counter[d] + 1
      /\ \A e \in Direction : e # d => counter'[e] = counter[e]
      /\ \A e \in Direction : counter[e] \in Nat /\ crypto.nextCounter[e] \in Nat
  <2>1. counter' = [counter EXCEPT ![d] = counter[d] + 1]
    BY <1>2 DEF Transmit
  <2> QED BY <2>1, LinkAssumption DEF Basic, Typed, CryptoStates
<1>8. /\ crypto.skdm = session /\ crypto.skds = session /\ crypto.sessionKeyReady
      /\ crypto.encryptionActive
      /\ \A e \in Direction :
            /\ crypto.nextCounter[e] <= counter[e]
            /\ heard[e].key = LinkKey(session) =>
                  heard[e].counter + 1 = crypto.nextCounter[e]
  BY <1>2 DEF Insight
<1>9. ASSUME op \notin {"PAUSE_ENC_RSP", "TERMINATE_IND"} PROVE Insight'
  <2>1. phase' \in Protected
    BY <1>9 DEF UnderKey, Protected
  <2>2. /\ crypto'.skdm = session' /\ crypto'.skds = session' /\ crypto'.sessionKeyReady
        /\ crypto'.encryptionActive
    <3>1. CASE Capture(p)
      BY <1>3, <1>8, <1>9, <3>1 DEF SameKey
    <3>2. CASE Miss(p)
      BY <1>4, <1>8, <3>2
    <3> QED BY <1>1, <3>1, <3>2
  <2>3. ASSUME NEW e \in Direction
        PROVE  /\ crypto'.nextCounter[e] <= counter'[e]
               /\ heard'[e].key = LinkKey(session') =>
                     heard'[e].counter + 1 = crypto'.nextCounter[e]
    <3>1. CASE Capture(p) /\ e = d
      <4>1. heard'[e] = p
        BY <1>3, <3>1 DEF Basic, Typed
      <4>2. crypto'.nextCounter[e] = p.counter + 1
        BY <1>3, <3>1
      <4> QED BY <1>1, <1>7, <3>1, <4>1, <4>2
    <3>2. CASE Capture(p) /\ e # d
      <4>1. heard'[e] = heard[e]
        BY <1>3, <3>2 DEF Basic, Typed
      <4>2. crypto'.nextCounter[e] = crypto.nextCounter[e]
        BY <1>3, <3>2
      <4> QED BY <1>7, <1>8, <3>2, <4>1, <4>2
    <3>3. CASE Miss(p)
      <4>1. heard' = heard /\ crypto' = crypto
        BY <1>4, <3>3
      <4>2. counter[e] <= counter'[e] /\ counter'[e] \in Nat
        BY <1>7
      <4> QED BY <1>7, <1>8, <4>1, <4>2
    <3> QED BY <1>1, <3>1, <3>2, <3>3
  <2>4. ASSUME NEW e \in Direction, Encrypted(last'[e])
        PROVE  /\ last'[e].key = LinkKey(session')
               /\ last'[e].counter + 1 = counter'[e]
               /\ last'[e].op \notin {"PAUSE_ENC_RSP", "TERMINATE_IND"}
    <3>1. CASE e = d
      BY <1>1, <1>6, <1>7, <1>9, <3>1
    <3>2. CASE e # d
      BY <1>2, <1>6, <1>7, <2>4, <3>2 DEF Insight
    <3> QED BY <3>1, <3>2
  <2> QED BY <1>5, <2>1, <2>2, <2>3, <2>4, InsightNext
<1>10. ASSUME op = "PAUSE_ENC_RSP" PROVE Insight'
  <2>1. phase' = "clearing" /\ phase' \notin Protected /\ ~Exchanged'
    BY <1>10 DEF UnderKey, Protected, Exchanged
  <2>2. Capture(p) /\ ~crypto'.encryptionActive
    BY <1>1, <1>3, <1>4, <1>10 DEF SetUp
  <2>3. accepted'[d] = p
    BY <1>3, <2>2 DEF Basic, Typed
  <2>4. ASSUME NEW e \in Direction, Encrypted(last'[e])
        PROVE  \E g \in Direction : /\ accepted'[g].op = "PAUSE_ENC_RSP"
                                   /\ accepted'[g].key = last'[e].key
    <3>1. last'[e].key = LinkKey(session)
      <4>1. CASE e = d
        BY <1>1, <1>6, <4>1
      <4>2. CASE e # d
        BY <1>2, <1>6, <2>4, <4>2 DEF Insight
      <4> QED BY <4>1, <4>2
    <3> QED BY <1>1, <1>10, <2>3, <3>1
  <2> QED BY <1>5, <2>1, <2>2, <2>4, InsightNext
<1>11. op = "TERMINATE_IND" => phase' = "off"
  BY DEF UnderKey
<1> QED BY <1>3, <1>9, <1>10, <1>11 DEF p

\* A repetition, captured or not.
LEMMA FollowRepeat ==
    ASSUME Basic, Insight, intact', crypto.ltk = LinkLtk, NEW d \in Direction,
           Retransmit(d)
    PROVE  /\ Capture(last[d]) /\ Encrypted(last[d]) /\ ~Ended(last[d]) => report'.decrypted
           /\ Insight'
<1> DEFINE p == last[d]
<1>1. /\ Offers(p) /\ p.dir = d /\ (Capture(p) \/ Miss(p))
  BY RepeatOffers
<1>2. /\ phase' = phase /\ session' = session /\ last' = last /\ counter' = counter
      /\ p \in Pdu /\ phase # "off"
      /\ owed' = IF since[d] = 1 THEN {Other(d)} ELSE {}
  BY DEF Retransmit, Basic, Typed
<1>3. connectionActive' /\ crypto'.ltk = LinkLtk
  BY <1>1, StaysFollowed DEF Insight
<1>4. Miss(p) => /\ p.op \notin SetUp
                 /\ crypto' = crypto /\ heard' = heard /\ accepted' = accepted
  BY <1>1, MissIntact
<1>5. /\ crypto \in CryptoStates
      /\ \A e \in Direction : counter[e] \in Nat /\ crypto.nextCounter[e] \in Nat
  BY LinkAssumption DEF Basic, Typed, CryptoStates
<1>6. /\ p.op = "ENC_REQ" => /\ d = CentralToPeripheral /\ p.half = session
                             /\ phase \in {"requested", "answered", "starting"}
      /\ p.op = "ENC_RSP" => /\ d = PeripheralToCentral /\ p.half = session
                             /\ phase = "answered"
      /\ p.op = "START_ENC_REQ" => phase \in {"starting", "started"}
  BY <1>2 DEF Basic, Procedure
<1>7. Encrypted(p) => p.op \notin {"ENC_REQ", "ENC_RSP", "START_ENC_REQ"}
  BY DEF Basic, Numbered, Sent, SentIn
<1>8. CASE phase \in Protected /\ Encrypted(p)
  <2>1. /\ p.key = LinkKey(session) /\ p.counter + 1 = counter[d]
        /\ p.op \notin {"PAUSE_ENC_RSP", "TERMINATE_IND"}
    BY <1>8 DEF Insight
  <2>2. Capture(p) =>
           /\ report'.decrypted
           /\ heard' = [heard EXCEPT ![d] = p]
           /\ crypto'.nextCounter[d] = p.counter + 1
           /\ \A e \in Direction \ {d} : crypto'.nextCounter[e] = crypto.nextCounter[e]
           /\ SameKey
           /\ crypto'.encryptionActive
    BY <1>1, <1>2, <1>7, <1>8, <2>1, CaptureProtected
  <2>3. /\ crypto.skdm = session /\ crypto.skds = session /\ crypto.sessionKeyReady
        /\ crypto.encryptionActive
        /\ \A e \in Direction :
              /\ crypto.nextCounter[e] <= counter[e]
              /\ heard[e].key = LinkKey(session) =>
                    heard[e].counter + 1 = crypto.nextCounter[e]
    BY <1>8 DEF Insight, Exchanged
  <2>4. /\ crypto'.skdm = session' /\ crypto'.skds = session' /\ crypto'.sessionKeyReady
        /\ crypto'.encryptionActive
    BY <1>1, <1>2, <1>4, <2>2, <2>3 DEF SameKey
  <2>5. ASSUME NEW e \in Direction
        PROVE  /\ crypto'.nextCounter[e] <= counter'[e]
               /\ heard'[e].key = LinkKey(session') =>
                     heard'[e].counter + 1 = crypto'.nextCounter[e]
    <3>1. CASE Capture(p) /\ e = d
      <4>1. heard'[e] = p
        BY <2>2, <3>1 DEF Basic, Typed
      <4>2. crypto'.nextCounter[e] = p.counter + 1
        BY <2>2, <3>1
      <4> QED BY <1>2, <1>5, <2>1, <3>1, <4>1, <4>2
    <3>2. CASE Capture(p) /\ e # d
      <4>1. heard'[e] = heard[e]
        BY <2>2, <3>2 DEF Basic, Typed
      <4>2. crypto'.nextCounter[e] = crypto.nextCounter[e]
        BY <2>2, <3>2
      <4> QED BY <1>2, <2>3, <4>1, <4>2
    <3>3. CASE Miss(p)
      BY <1>2, <1>4, <2>3, <3>3
    <3> QED BY <1>1, <3>1, <3>2, <3>3
  <2>6. ASSUME NEW e \in Direction, Encrypted(last'[e])
        PROVE  /\ last'[e].key = LinkKey(session')
               /\ last'[e].counter + 1 = counter'[e]
               /\ last'[e].op \notin {"PAUSE_ENC_RSP", "TERMINATE_IND"}
    BY <1>2, <1>8, <2>6 DEF Insight
  <2>7. phase' \in Protected
    BY <1>2, <1>8
  <2>8. Insight'
    BY <1>3, <2>4, <2>5, <2>6, <2>7, InsightNext
  <2> QED BY <2>2, <2>8
<1>9. CASE phase \in Protected /\ ~Encrypted(p)
  <2>1. crypto' = crypto /\ heard' = heard /\ accepted' = accepted
    BY <1>1, <1>2, <1>4, <1>9, CaptureUnprotected
  <2>2. phase' \in Protected
    BY <1>2, <1>9
  <2>3. Insight'
    BY <1>2, <1>3, <1>9, <2>1, <2>2, InsightNext DEF Insight, Exchanged
  <2> QED BY <1>9, <2>3
<1>10. CASE phase \notin Protected
  <2>1. ~crypto.encryptionActive /\ (Encrypted(p) => Ended(p))
    BY <1>10 DEF Insight
  <2>2. /\ accepted' = accepted
        /\ Encrypted(p) => crypto' = crypto
        /\ ~Encrypted(p) =>
              /\ heard' = heard
              /\ crypto' = ObserveControl(crypto, p)
                    \/ (crypto' = crypto /\ p.op \notin SetUp)
    BY <1>1, <1>2, <1>4, <1>10, CaptureInactive
  <2>3. ASSUME NEW e \in Direction, Encrypted(last'[e])
        PROVE  \E g \in Direction : /\ accepted'[g].op = "PAUSE_ENC_RSP"
                                   /\ accepted'[g].key = last'[e].key
    <3>1. Ended(last[e])
      BY <1>2, <1>10, <2>3 DEF Insight
    <3> QED BY <1>2, <2>2, <3>1 DEF Ended
  <2>4. phase' \notin Protected
    BY <1>2, <1>10
  <2>5. phase = "answered" =>
           /\ p.op = IF d = CentralToPeripheral THEN "ENC_REQ" ELSE "ENC_RSP"
           /\ d = CentralToPeripheral => since[d] = 1
    BY Two DEF Basic, Procedure
  <2>6. CASE p.op = "ENC_REQ"
    <3>1. crypto' = ObserveControl(crypto, p)
      BY <1>7, <2>2, <2>6 DEF SetUp
    <3>2. crypto'.skdm = session' /\ ~crypto'.encryptionActive
      BY <1>2, <1>5, <1>6, <2>6, <3>1, ControlRequest
    <3>3. ~Exchanged'
      <4> SUFFICES ASSUME phase = "answered", owed' = {} PROVE FALSE
        BY <1>2, <2>4 DEF Exchanged
      <4> QED BY <1>2, <1>6, <2>5, <2>6
    <3> QED BY <1>3, <2>1, <2>3, <2>4, <3>2, <3>3, InsightNext
  <2>7. CASE p.op = "ENC_RSP"
    <3>1. crypto' = ObserveControl(crypto, p) /\ heard' = heard
      BY <1>7, <2>2, <2>7 DEF SetUp
    <3>2. phase = "answered" /\ p.half = session /\ session # 0 /\ crypto.skdm = session
      BY <1>6, <2>7 DEF Insight, Basic, Typed
    <3>3. crypto.ltk # NoLtk
      BY DEF LinkLtk, NoLtk
    <3>4. /\ crypto'.skdm = session /\ crypto'.skds = session
          /\ crypto'.encryptionActive = crypto.encryptionActive
          /\ crypto'.sessionKeyReady /\ crypto'.nextCounter = Zero
      BY <1>2, <1>5, <2>7, <3>1, <3>2, <3>3, ControlResponse
    <3>5. \A e \in Direction :
             /\ crypto'.nextCounter[e] <= counter'[e]
             /\ heard'[e].key # LinkKey(session')
      BY <1>2, <3>1, <3>2, <3>4, NothingYet DEF Zero, Basic, Procedure
    <3>6. ~crypto'.encryptionActive
      BY <2>1, <3>4
    <3> QED BY <1>2, <1>3, <2>1, <2>3, <2>4, <3>4, <3>5, <3>6, InsightNext
  <2>8. CASE p.op \notin {"ENC_REQ", "ENC_RSP"}
    <3>1. phase # "answered"
      BY <2>5, <2>8
    <3>2. p.op # "START_ENC_REQ"
      BY <1>6, <1>10 DEF Protected
    <3>3. crypto'.skdm = crypto.skdm /\ ~crypto'.encryptionActive
      <4>1. CASE crypto' = crypto
        BY <2>1, <4>1
      <4>2. CASE crypto' = ObserveControl(crypto, p)
        <5>1. CASE p.op \in {"PAUSE_ENC_RSP", "TERMINATE_IND"}
          BY <1>5, <2>8, <4>2, <5>1, ControlOther
        <5>2. CASE p.op \notin {"PAUSE_ENC_RSP", "TERMINATE_IND"}
          <6>1. crypto' = crypto
            BY <1>5, <2>8, <3>2, <4>2, <5>2, ControlOther
          <6> QED BY <2>1, <6>1
        <5> QED BY <5>1, <5>2
      <4> QED BY <2>2, <4>1, <4>2
    <3>4. ~Exchanged'
      BY <1>2, <2>4, <3>1 DEF Exchanged
    <3>5. phase' \in {"requested", "answered"} \cup Protected => crypto'.skdm = session'
      BY <1>2, <2>4, <3>1, <3>3 DEF Insight
    <3> QED BY <1>3, <2>1, <2>3, <2>4, <3>3, <3>4, <3>5, InsightNext
  <2> QED BY <2>6, <2>7, <2>8
<1> QED BY <1>8, <1>9, <1>10

---------------------------------------------------------------------------
(* The theorems. *)

Tells(r) ==
    /\ r.decrypted /\ ~r.retransmission =>
          (accepted[r.pdu.dir].key = r.pdu.key =>
               accepted[r.pdu.dir].counter < r.pdu.counter)
    /\ r.decrypted => (r.retransmission <=> accepted[r.pdu.dir] = r.pdu)
    /\ /\ r.pdu # NoPdu /\ crypto.ltk = LinkLtk
       /\ Encrypted(r.pdu) /\ ~Ended(r.pdu) /\ intact'
       => r.decrypted

\* The PDU reported is the one captured.
LEMMA ReportsPdu ==
    ASSUME NEW p \in Pdu, Capture(p) \/ Miss(p)
    PROVE  (Capture(p) => report'.pdu = p) /\ (Miss(p) => report' = NoReport)
<1>1. [NoReport EXCEPT !.pdu = p].pdu = p
  BY NoPduTyped
<1>2. Capture(p) =>
         \/ report' = [NoReport EXCEPT !.pdu = p]
         \/ report' = [pdu |-> p, decrypted |-> TRUE, retransmission |-> FALSE]
         \/ report' = [pdu |-> p, decrypted |-> TRUE, retransmission |-> TRUE]
  BY Zenon DEF Capture, CaptureUnfollowed, CapturePlain, CaptureCiphertext, CaptureNext,
               CaptureRetransmission, CaptureOpaque
<1>3. ASSUME Capture(p) PROVE report'.pdu = p
  <2>1. CASE report' = [NoReport EXCEPT !.pdu = p]
    BY <1>1, <2>1, Zenon
  <2>2. CASE report' = [pdu |-> p, decrypted |-> TRUE, retransmission |-> FALSE]
    BY <2>2
  <2>3. CASE report' = [pdu |-> p, decrypted |-> TRUE, retransmission |-> TRUE]
    BY <2>3
  <2> QED BY <1>2, <1>3, <2>1, <2>2, <2>3
<1> QED BY <1>3 DEF Miss

LEMMA SilentReport == report' = NoReport => Tells(report')
BY NoPduTyped DEF Tells

\* What a report of p says, given that p is decrypted where it must be.
LEMMA TellsOf ==
    ASSUME Basic, NEW p, Offers(p), Capture(p) \/ Miss(p),
           intact' /\ crypto.ltk = LinkLtk /\ Capture(p) /\ Encrypted(p) /\ ~Ended(p) =>
               report'.decrypted
    PROVE  Tells(report')
<1>1. p \in Pdu /\ p.dir \in Direction /\ p.counter \in Nat
      /\ accepted[p.dir].counter \in Nat
  BY LinkAssumption DEF Offers, Fit, Pdu, Basic, Typed
<1>2. CASE Miss(p)
  <2>1. report' = NoReport
    BY <1>2 DEF Miss
  <2> QED BY <2>1, SilentReport
<1>3. CASE Capture(p)
  <2>1. report'.pdu = p
    BY <1>1, <1>3, ReportsPdu
  <2>2. ASSUME report'.decrypted
        PROVE  /\ ~report'.retransmission =>
                     (accepted[p.dir].key = p.key => accepted[p.dir].counter < p.counter)
               /\ report'.retransmission <=> accepted[p.dir] = p
    <3>1. /\ ~report'.retransmission =>
                 (accepted[p.dir].key = p.key => accepted[p.dir].counter < p.counter)
          /\ report'.retransmission => accepted[p.dir] = p
      BY <1>3, <2>2, Told
    <3>2. accepted[p.dir] = p => ~(accepted[p.dir].counter < p.counter)
      BY <1>1
    <3> QED BY <3>1, <3>2
  <2>3. intact' /\ crypto.ltk = LinkLtk /\ Encrypted(p) /\ ~Ended(p) => report'.decrypted
    BY <1>3
  <2> QED BY <2>1, <2>2, <2>3 DEF Tells
<1> QED BY <1>2, <1>3

LEMMA LinkStart == Init => Basic /\ Followed
BY StartBasic DEF Init, Followed

LEMMA LinkStep ==
    ASSUME Basic, Followed, [Next]_vars
    PROVE  /\ Basic' /\ Followed'
           /\ Tells(report') \/ UNCHANGED vars
<1>1. CASE \E d \in Direction, encrypted \in BOOLEAN :
           \E op \in {"DATA", "ENC_REQ", "ENC_RSP", "START_ENC_REQ", "START_ENC_RSP",
                      "PAUSE_ENC_REQ", "PAUSE_ENC_RSP", "TERMINATE_IND"} :
               Legal(d, op, encrypted) /\ Transmit(d, op, encrypted)
  <2>1. PICK d \in Direction, encrypted \in BOOLEAN,
             op \in {"DATA", "ENC_REQ", "ENC_RSP", "START_ENC_REQ", "START_ENC_RSP",
                     "PAUSE_ENC_REQ", "PAUSE_ENC_RSP", "TERMINATE_IND"} :
                Legal(d, op, encrypted) /\ Transmit(d, op, encrypted)
    BY <1>1
  <2> DEFINE p == NewPdu(d, op, encrypted)
  <2>2. Basic'
    BY <2>1, SendBasic
  <2>3. Offers(p)
    BY <2>1, SendOffers
  <2>4. (Capture(p) \/ Miss(p)) /\ (~encrypted => ~Encrypted(p))
    BY <2>1 DEF Transmit, NewPdu, Encrypted
  <2>5. phase # "off"
    BY <2>1 DEF Legal, Opens, InClear, UnderKey
  <2> HIDE DEF p
  <2>6. /\ crypto'.ltk = crypto.ltk
        /\ intact' => intact
    BY <2>3, <2>4, StaysFollowed
  <2>7. ASSUME intact', crypto.ltk = LinkLtk
        PROVE  /\ Capture(p) /\ Encrypted(p) => report'.decrypted
               /\ phase' # "off" => Insight'
    <3>1. Insight
      BY <2>5, <2>6, <2>7 DEF Followed
    <3>2. CASE encrypted
      <4>1. session' = session /\ UnderKey(d, op)
        BY <2>1, <3>2 DEF Legal
      <4>2. /\ Capture(p) => report'.decrypted
            /\ phase' # "off" => Insight'
        BY <2>1, <2>7, <3>1, <3>2, <4>1, FollowKey DEF p
      <4> QED BY <4>2
    <3>3. CASE ~encrypted
      <4>1. Opens(d, op) \/ (session' = session /\ InClear(d, op))
        BY <2>1, <3>3 DEF Legal
      <4>2. phase' # "off" => Insight'
        BY <2>1, <2>7, <3>1, <3>3, <4>1, FollowClear
      <4> QED BY <2>4, <3>3, <4>2
    <3> QED BY <3>2, <3>3
  <2>8. Followed'
    BY <2>6, <2>7 DEF Followed
  <2>9. Tells(report')
    BY <2>3, <2>4, <2>7, TellsOf
  <2> QED BY <2>2, <2>8, <2>9
<1>2. CASE \E d \in Direction : Retransmit(d)
  <2>1. PICK d \in Direction : Retransmit(d)
    BY <1>2
  <2> DEFINE p == last[d]
  <2>2. Basic'
    BY <2>1, RepeatBasic
  <2>3. Offers(p) /\ (Capture(p) \/ Miss(p))
    BY <2>1, RepeatOffers
  <2>4. phase # "off" /\ phase' = phase
    BY <2>1 DEF Retransmit
  <2>5. /\ crypto'.ltk = crypto.ltk
        /\ intact' => intact
    BY <2>3, StaysFollowed
  <2>6. ASSUME intact', crypto.ltk = LinkLtk
        PROVE  /\ Capture(p) /\ Encrypted(p) /\ ~Ended(p) => report'.decrypted
               /\ Insight'
    <3>1. Insight
      BY <2>4, <2>5, <2>6 DEF Followed
    <3> QED BY <2>1, <2>6, <3>1, FollowRepeat
  <2>7. Followed'
    BY <2>5, <2>6 DEF Followed
  <2> HIDE DEF p
  <2>8. Tells(report')
    BY <2>3, <2>6, TellsOf
  <2> QED BY <2>2, <2>7, <2>8
<1>3. CASE Connect
  <2>1. Basic' /\ report' = NoReport
    BY <1>3, ConnectBasic DEF Connect
  <2>2. Followed'
    <3> SUFFICES ASSUME intact', crypto'.ltk = LinkLtk PROVE Insight'
      BY DEF Followed
    <3>1. connectionActive' /\ crypto' = ResetConnection(crypto) /\ phase' = "plain"
      BY <1>3 DEF Connect, Basic, Typed
    <3>2. ~crypto'.encryptionActive
      BY <3>1, ResetFields DEF Basic, Typed
    <3>3. \A d \in Direction : ~Encrypted(last'[d])
      BY <2>1, <3>1 DEF Basic, Procedure, Encrypted
    <3> QED BY <3>1, <3>2, <3>3, InsightNext DEF Protected, Exchanged
  <2> QED BY <2>1, <2>2, SilentReport
<1>4. CASE Vanish
  <2>1. Basic' /\ report' = NoReport /\ phase' = "off"
    BY <1>4, VanishBasic DEF Vanish
  <2> QED BY <2>1, SilentReport DEF Followed
<1>5. CASE UNCHANGED vars
  <2>1. Basic'
    BY <1>5 DEF vars, peers, sniffer, history, Basic, Typed, Numbered, Sent, SentIn,
                Encrypted, Procedure, Keyed, Fresh, Seen, SameSent, SessionKey
  <2>2. Followed'
    BY <1>5 DEF vars, peers, sniffer, history, Followed, Insight, Exchanged, Ended,
                Encrypted
  <2> QED BY <1>5, <2>1, <2>2
<1>6. CASE Data \/ EncReq \/ EncRsp \/ StartEncReq \/ StartEncRspC \/ StartEncRspP
           \/ PauseEncReq \/ PauseEncRspP \/ PauseEncRspC \/ Terminate
  BY <1>1, <1>6, Legality
<1> QED BY <1>2, <1>3, <1>4, <1>5, <1>6 DEF Next

\* The invariant: what was sent, what the sniffer has accepted, and what it
\* knows of a connection it has followed without a gap that counts.
THEOREM LinkCorrect == Spec => []LinkInv
<1>1. Init => Basic /\ Followed
  BY LinkStart
<1>2. (Basic /\ Followed) /\ [Next]_vars => (Basic /\ Followed)'
  BY LinkStep
<1>3. Basic /\ Followed <=> LinkInv
  BY DEF Basic, LinkInv
<1> QED BY <1>1, <1>2, <1>3, PTL DEF Spec

\* Types of the peers, the sniffer and its reports.
THEOREM TypeCorrect == Spec => []TypeOK
<1>1. LinkInv => TypeOK
  <2> SUFFICES ASSUME LinkInv PROVE TypeOK
    OBVIOUS
  <2>1. \A d \in Direction : last[d] \in Pdu /\ heard[d] \in Pdu /\ accepted[d] \in Pdu
    BY DEF LinkInv, Typed
  <2>2. /\ crypto.ltk \in Ltks /\ crypto.skdm \in 0..MaxSessions
        /\ crypto.skds \in 0..MaxSessions
        /\ crypto.nextCounter \in [Direction -> 0..(MaxCounter + 1)]
        /\ crypto.sessionKeyReady => crypto.skdm # NoHalf /\ crypto.skds # NoHalf
    BY DEF LinkInv, Typed, CryptoStates, Keyed
  <2>3. report.pdu \in Pdu
    BY DEF LinkInv, Typed
  <2> QED BY <2>1, <2>2, <2>3 DEF LinkInv, Typed, Phases, TypeOK
<1> QED BY <1>1, LinkCorrect, PTL

\* A packet taken for new has a counter above that of the packet accepted
\* before it under the same key (the forward search of ble_crypto_decrypt_pdu).
THEOREM CountersIncrease == Spec => NewCountersIncrease
<1>1. LinkInv /\ [Next]_vars =>
         [report'.decrypted /\ ~report'.retransmission =>
             LET new == report'.pdu
                 old == accepted[new.dir]
             IN  old.key = new.key => old.counter < new.counter]_vars
  BY LinkStep DEF LinkInv, Basic, Tells
<1>2. Spec => [][Next]_vars
  BY PTL DEF Spec
<1> QED BY <1>1, <1>2, LinkCorrect, PTL DEF NewCountersIncrease

\* A packet is marked as a repetition exactly when it is the one reported last.
THEOREM RepetitionsTold == Spec => RetransmissionMeansSeen
<1>1. LinkInv /\ [Next]_vars =>
         [report'.decrypted =>
             (report'.retransmission <=> accepted[report'.pdu.dir] = report'.pdu)]_vars
  BY LinkStep DEF LinkInv, Basic, Tells
<1>2. Spec => [][Next]_vars
  BY PTL DEF Spec
<1> QED BY <1>1, <1>2, LinkCorrect, PTL DEF RetransmissionMeansSeen

\* With the link's LTK, and as long as nothing that counts was missed, every
\* protected packet captured is decrypted, whatever the window and the limits.
THEOREM FollowedDecrypts == Spec => IntactCaptureDecrypts
<1>1. LinkInv /\ [Next]_vars =>
         [ /\ report'.pdu # NoPdu
           /\ intact' /\ crypto.ltk = LinkLtk
           /\ Encrypted(report'.pdu) /\ ~Ended(report'.pdu)
           => report'.decrypted ]_vars
  BY LinkStep DEF LinkInv, Basic, Tells
<1>2. Spec => [][Next]_vars
  BY PTL DEF Spec
<1> QED BY <1>1, <1>2, LinkCorrect, PTL DEF IntactCaptureDecrypts
=============================================================================

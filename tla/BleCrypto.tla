----------------------------- MODULE BleCrypto -----------------------------
(***************************************************************************)
(* ble-driver/ble_crypto.c: what the sniffer knows of the encryption of    *)
(* the connection it follows, as functions on ble_crypto_state_t.          *)
(*                                                                         *)
(* Cryptography is symbolic.  A session is named by a positive number; its *)
(* central half (SKDm, IVm) travels in LL_ENC_REQ and its peripheral half  *)
(* (SKDs, IVs) in LL_ENC_RSP.  The session key and the IV are the triple of*)
(* an LTK and two halves, and a MIC authenticates exactly one direction and*)
(* counter under exactly one triple: a chance collision of the 32-bit MIC  *)
(* is not modelled.                                                        *)
(***************************************************************************)
EXTENDS Integers

CONSTANTS
    CounterWindow,  \* BLE_CRYPTO_COUNTER_WINDOW 50
    CounterLimit    \* BLE_CRYPTO_COUNTER_LIMIT 2^39

ASSUME CounterAssumption ==
    /\ CounterWindow \in Nat \ {0}
    /\ CounterLimit \in Nat \ {0}

PeripheralToCentral == 0
CentralToPeripheral == 1
Direction == {PeripheralToCentral, CentralToPeripheral}

NoLtk == "no LTK"       \* has_ltk is false
NoHalf == 0             \* have_enc_req or have_enc_rsp is false
Plain == <<NoLtk, NoHalf, NoHalf>>  \* the key of a PDU sent in the clear

Zero == [d \in Direction |-> 0]

\* ble_crypto_state_init and ble_crypto_set_ltk: only the LTK, if any.  The
\* session key needs no field: it is derived whenever both halves are there,
\* and LL_ENC_REQ, which alone changes the central half, discards it.
CryptoState(ltk) ==
    [ltk |-> ltk, skdm |-> NoHalf, skds |-> NoHalf,
     sessionKeyReady |-> FALSE, encryptionActive |-> FALSE,
     nextCounter |-> Zero]

\* ble_crypto_reset_connection
ResetConnection(c) == CryptoState(c.ltk)

SessionKey(c) == <<c.ltk, c.skdm, c.skds>>

---------------------------------------------------------------------------
(* ble_crypto_observe_control: a complete PDU taken for plaintext. *)

\* Fault: a response is enough.
DeriveWithoutRequest(c) ==
    IF c.ltk # NoLtk /\ c.skds # NoHalf
    THEN [c EXCEPT !.sessionKeyReady = TRUE, !.nextCounter = Zero]
    ELSE c

DeriveIfReady(c) ==
    IF c.ltk # NoLtk /\ c.skdm # NoHalf /\ c.skds # NoHalf
    THEN [c EXCEPT !.sessionKeyReady = TRUE, !.nextCounter = Zero]
    ELSE c

\* LL_ENC_REQ begins a fresh session but keeps the LTK.
ObserveRequest(c, half) ==
    [ResetConnection(c) EXCEPT !.skdm = half]

\* Fault: an acknowledged pause leaves encryption active.
ControlIgnoringPause(c, pdu) ==
    CASE pdu.op = "ENC_REQ" -> ObserveRequest(c, pdu.half)
      [] pdu.op = "ENC_RSP" -> DeriveIfReady([c EXCEPT !.skds = pdu.half])
      [] pdu.op = "START_ENC_REQ" -> [c EXCEPT !.encryptionActive = TRUE]
      [] pdu.op = "TERMINATE_IND" -> [c EXCEPT !.encryptionActive = FALSE]
      [] OTHER -> c

ObserveControl(c, pdu) ==
    CASE pdu.op = "ENC_REQ" -> ObserveRequest(c, pdu.half)
      [] pdu.op = "ENC_RSP" -> DeriveIfReady([c EXCEPT !.skds = pdu.half])
      [] pdu.op = "START_ENC_REQ" -> [c EXCEPT !.encryptionActive = TRUE]
      [] pdu.op \in {"PAUSE_ENC_RSP", "TERMINATE_IND"} ->
             [c EXCEPT !.encryptionActive = FALSE]
      [] OTHER -> c      \* START_ENC_RSP, PAUSE_ENC_REQ, data

---------------------------------------------------------------------------
(* ble_crypto_decrypt_pdu. *)

\* Fault: the search starts at the last counter accepted.
ForwardFromLast(c) ==
    {<<d, c.nextCounter[d] + k>> :
        d \in Direction, k \in -1..(CounterWindow - 1)}
    \cap (Direction \X (0..(CounterLimit - 1)))

\* The counters tried first: expected to expected + CounterWindow - 1.
Forward(c) ==
    {<<d, c.nextCounter[d] + k>> :
        d \in Direction, k \in 0..(CounterWindow - 1)}
    \cap (Direction \X (0..(CounterLimit - 1)))

\* The counters tried next: that of the last packet accepted.
Repeated(c) ==
    {<<d, c.nextCounter[d] - 1>> : d \in {e \in Direction : c.nextCounter[e] > 0}}

\* The one candidate the MIC of a PDU authenticates, if the key is right.
Authentic(c, pdu) ==
    IF pdu.key = SessionKey(c) THEN {<<pdu.dir, pdu.counter>>} ELSE {}

CanDecrypt(c) == c.sessionKeyReady /\ c.encryptionActive

IsNext(c, pdu) ==
    CanDecrypt(c) /\ Authentic(c, pdu) \cap Forward(c) # {}

IsRetransmission(c, pdu) ==
    /\ CanDecrypt(c)
    /\ ~IsNext(c, pdu)
    /\ Authentic(c, pdu) \cap Repeated(c) # {}

\* Fault: the counter is not moved past the packet.
FinishAtCounter(c, pdu) ==
    [c EXCEPT !.nextCounter[pdu.dir] = pdu.counter]

\* finish_decrypt of a packet that is not a retransmission.
Finish(c, pdu) ==
    [c EXCEPT !.nextCounter[pdu.dir] = pdu.counter + 1]
===========================================================================

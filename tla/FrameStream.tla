---------------------------- MODULE FrameStream ----------------------------
(***************************************************************************)
(* The byte stream of bulk endpoint 0x82: wch_read_packets and the framing *)
(* half of wch_decode_transfer (ble-driver/wch_ble_analyzer.c).            *)
(*                                                                         *)
(* The firmware emits frames [0x55][type][len_lo][len_hi][payload...]; USB *)
(* transfers cut the byte stream anywhere.  One call of wch_read_packets   *)
(*   - puts the bytes carried over from the last call in front of the new  *)
(*     transfer,                                                           *)
(*   - scans for the end of the last complete frame (complete),            *)
(*   - decodes buf[0, complete), resynchronising on the magic byte,        *)
(*   - carries the rest, buf[complete, total), to the next call.           *)
(* The two loops read the same bytes with different rules: the first steps *)
(* over a whole frame of any type, the second steps over one byte of a     *)
(* frame whose type it does not know.  Each loop iteration is one action.  *)
(*                                                                         *)
(* Offsets are those of the C code, from 0; a sequence holds byte k at     *)
(* index k + 1.                                                            *)
(***************************************************************************)
EXTENDS Integers, Sequences

CONSTANTS
    FrameMagic,       \* FRAME_MAGIC 0x55
    TypeData,         \* FRAME_TYPE_DATA 0x10
    TypeStatus,       \* FRAME_TYPE_STS 0x01
    MaxFramePayload,  \* WCH_MAX_FRAME_PAYLOAD 512
    MinDataPayload,   \* MIN_DATA_PAYLOAD 12
    ChannelAt,        \* offset of the channel byte in a data payload, 4
    MarkerAt,         \* offset of the CRC/error marker in a data payload, 5
    BulkTransferSize, \* BULK_TRANSFER_SIZE 0x2800
    Emittable,        \* the frames and line noise the firmware may send
    MaxEmitted,       \* bound: how many of them it sends
    PartialTransfers  \* may a transfer end early with bytes already moved?

Byte == 0..255

HeaderLen == 4

\* rx_carry[4 + WCH_MAX_FRAME_PAYLOAD]
CarryCapacity == HeaderLen + MaxFramePayload

ASSUME ConstantsAssumption ==
    /\ {FrameMagic, TypeData, TypeStatus} \subseteq Byte
    /\ TypeData # TypeStatus
    /\ MaxFramePayload \in Nat
    /\ MinDataPayload \in Nat
    /\ ChannelAt \in 0..(MinDataPayload - 1)
    /\ MarkerAt \in 0..(MinDataPayload - 1)
    /\ BulkTransferSize \in Nat
    /\ BulkTransferSize > CarryCapacity
    /\ MaxEmitted \in Nat
    /\ PartialTransfers \in BOOLEAN

\* Noise, no byte, marks bytes outside any frame.
Noise == 256

ASSUME EmittableAssumption ==
    \A e \in Emittable : /\ e \in [type : Byte \cup {Noise}, payload : Seq(Byte)]
                         /\ Len(e.payload) < 256 * 256
                         /\ e.type = Noise => e.payload # << >>

VARIABLES
    emitted,    \* what the firmware has sent so far
    wire,       \* bytes it has sent that no transfer has taken yet
    pc,         \* where wch_read_packets is: "idle", "scan", "decode"
    carry,      \* dev->rx_carry[0, rx_carry_len)
    buf,        \* the caller's buffer, buf[0, total)
    complete,   \* end of the complete frames found by the first loop
    offset,     \* position of the decode loop
    decoded,    \* records reported by this call
    errCount,   \* dev->err_count
    reported,   \* every payload given to the packet callback
    ret,        \* the return value of the last call, 0 during a call

    (* History of the firmware's side, which only properties read. *)
    sent,       \* the payloads that are due to the callback, in order
    ledger      \* after i frames: end of the last one in the byte stream,
                \* and how many records and errors they should make

call == <<pc, carry, buf, complete, offset, decoded, errCount, reported, ret>>
stream == <<emitted, sent, ledger>>
vars == <<stream, wire, call>>

---------------------------------------------------------------------------
(* The firmware's side of the wire. *)

Encode(e) ==
    IF e.type = Noise THEN e.payload
    ELSE <<FrameMagic, e.type, Len(e.payload) % 256, Len(e.payload) \div 256>>
           \o e.payload

\* A frame of a length that the reader accepts.
Framed(e) == e.type # Noise /\ Len(e.payload) <= MaxFramePayload

\* The records that the decode loop reports: a data frame with a complete
\* header, the error marker clear and a channel that exists.
Reportable(e) ==
    /\ Framed(e)
    /\ e.type = TypeData
    /\ Len(e.payload) >= MinDataPayload
    /\ e.payload[MarkerAt + 1] = 0
    /\ e.payload[ChannelAt + 1] % 64 <= 39

\* The frames that count as errors: status frames and marked data frames.
Counted(e) ==
    /\ Framed(e)
    /\ \/ e.type = TypeStatus
       \/ /\ e.type = TypeData
          /\ Len(e.payload) >= MinDataPayload
          /\ e.payload[MarkerAt + 1] # 0

\* The books of the stream with e behind it.
Remember(e) ==
    LET n == Len(emitted)
        last == ledger[n]
        entry == [end |-> last.end + Len(Encode(e)),
                  records |-> last.records + (IF Reportable(e) THEN 1 ELSE 0),
                  errors |-> last.errors + (IF Counted(e) THEN 1 ELSE 0)]
    IN  /\ sent' = IF Reportable(e) THEN Append(sent, e.payload) ELSE sent
        /\ ledger' = [i \in 0..(n + 1) |-> IF i <= n THEN ledger[i] ELSE entry]

---------------------------------------------------------------------------
(* Reading a frame header at byte offset k of buf. *)

At(k) == buf[k + 1]
PayloadLen(k) == At(k + 2) + 256 * At(k + 3)
FrameLen(k) == HeaderLen + PayloadLen(k)

\* Fault: the length is trusted.
OutOfSyncMagicOnly(k) == At(k) # FrameMagic

\* Neither loop accepts a frame here: both step over one byte.
OutOfSync(k) == At(k) # FrameMagic \/ PayloadLen(k) > MaxFramePayload

---------------------------------------------------------------------------
Init ==
    /\ emitted = << >>
    /\ wire = << >>
    /\ pc = "idle"
    /\ carry = << >>
    /\ buf = << >>
    /\ complete = 0
    /\ offset = 0
    /\ decoded = 0
    /\ errCount = 0
    /\ reported = << >>
    /\ ret = 0
    /\ sent = << >>
    /\ ledger = [i \in {0} |-> [end |-> 0, records |-> 0, errors |-> 0]]

\* The firmware queues one more frame.  It runs at any time; since a call
\* reads wire only when its transfer ends, emitting between calls loses no
\* behaviour.
Emit ==
    /\ pc = "idle"
    /\ Len(emitted) < MaxEmitted
    /\ \E e \in Emittable :
          /\ emitted' = Append(emitted, e)
          /\ wire' = wire \o Encode(e)
          /\ Remember(e)
    /\ UNCHANGED call

\* Fault: the carry is not copied to the front.
FillWithoutCarry(n) == SubSeq(wire, 1, n)

\* The buffer after n bytes were received behind the carried ones.
Fill(n) == carry \o SubSeq(wire, 1, n)

\* libusb_bulk_transfer succeeds with n bytes behind the carried ones.
Transfer(n) ==
    /\ pc = "idle"
    /\ n <= Len(wire)
    /\ n <= BulkTransferSize - Len(carry)
    /\ wire' = SubSeq(wire, n + 1, Len(wire))
    /\ buf' = Fill(n)
    /\ pc' = "scan"
    /\ ret' = 0
    /\ UNCHANGED <<stream, carry, complete, offset, decoded, errCount,
                   reported>>

\* The transfer does not succeed.  The call returns at once, whatever xfer says,
\* so the n bytes that had moved are gone and the carry stays.
EndsEarly(n, result) ==
    /\ pc = "idle"
    /\ n <= Len(wire)
    /\ n <= BulkTransferSize - Len(carry)
    /\ n > 0 => PartialTransfers
    /\ wire' = SubSeq(wire, n + 1, Len(wire))
    /\ ret' = result
    /\ UNCHANGED <<stream, pc, carry, buf, complete, offset, decoded,
                   errCount, reported>>

\* LIBUSB_ERROR_TIMEOUT is 0, "normal when no packets arrive".
Timeout(n) == EndsEarly(n, 0)

\* Any other libusb error is returned as it is (-1 stands for all of them).
TransferError(n) == EndsEarly(n, -1)

---------------------------------------------------------------------------
(* First loop: while (complete + 4 <= total). *)

Scanning == pc = "scan" /\ complete + HeaderLen <= Len(buf)

ScanResync ==
    /\ Scanning
    /\ OutOfSync(complete)
    /\ complete' = complete + 1
    /\ UNCHANGED <<stream, wire, pc, carry, buf, offset, decoded, errCount,
                   reported, ret>>

\* Fault: the frame is not checked against the bytes received.
ScanFrameUnchecked ==
    /\ Scanning
    /\ ~OutOfSync(complete)
    /\ complete' = complete + FrameLen(complete)
    /\ UNCHANGED <<stream, wire, pc, carry, buf, offset, decoded, errCount,
                   reported, ret>>

ScanFrame ==
    /\ Scanning
    /\ ~OutOfSync(complete)
    /\ complete + FrameLen(complete) <= Len(buf)
    /\ complete' = complete + FrameLen(complete)
    /\ UNCHANGED <<stream, wire, pc, carry, buf, offset, decoded, errCount,
                   reported, ret>>

\* The loop condition fails, or the frame at complete is not all there.
ScanDone ==
    /\ pc = "scan"
    /\ \/ complete + HeaderLen > Len(buf)
       \/ /\ Scanning
          /\ ~OutOfSync(complete)
          /\ complete + FrameLen(complete) > Len(buf)
    /\ pc' = "decode"
    /\ UNCHANGED <<stream, wire, carry, buf, complete, offset, decoded,
                   errCount, reported, ret>>

---------------------------------------------------------------------------
(* Second loop: wch_decode_transfer on buf[0, complete). *)

Decoding == pc = "decode" /\ offset + HeaderLen <= complete

\* buf[offset] starts a frame that lies inside buf[0, complete).
WholeFrame ==
    /\ Decoding
    /\ ~OutOfSync(offset)
    /\ offset + FrameLen(offset) <= complete

MarkerClear == At(offset + HeaderLen + MarkerAt) = 0
ChannelExists == At(offset + HeaderLen + ChannelAt) % 64 <= 39

\* Advances the decode loop by n bytes and reports nothing.
Skip(n, errors) ==
    /\ offset' = offset + n
    /\ errCount' = errCount + errors
    /\ UNCHANGED <<stream, wire, pc, carry, buf, complete, decoded, reported,
                   ret>>

DecodeResync == Decoding /\ OutOfSync(offset) /\ Skip(1, 0)

\* Fault: a status frame is stepped over like an unknown one.
DecodeStatusOneByte ==
    WholeFrame /\ At(offset + 1) = TypeStatus /\ Skip(1, 1)

DecodeStatus ==
    WholeFrame /\ At(offset + 1) = TypeStatus /\ Skip(FrameLen(offset), 1)

\* "Unknown type: skip" moves one byte, into the frame just recognised.
DecodeUnknown ==
    /\ WholeFrame
    /\ At(offset + 1) \notin {TypeStatus, TypeData}
    /\ Skip(1, 0)

DecodeShort ==
    /\ WholeFrame
    /\ At(offset + 1) = TypeData
    /\ PayloadLen(offset) < MinDataPayload
    /\ Skip(FrameLen(offset), 0)

DataFrame ==
    /\ WholeFrame
    /\ At(offset + 1) = TypeData
    /\ PayloadLen(offset) >= MinDataPayload

DecodeMarked == DataFrame /\ ~MarkerClear /\ Skip(FrameLen(offset), 1)

DecodeBadChannel ==
    DataFrame /\ MarkerClear /\ ~ChannelExists /\ Skip(FrameLen(offset), 0)

DecodeReport ==
    /\ DataFrame /\ MarkerClear /\ ChannelExists
    /\ reported' = Append(reported,
                          SubSeq(buf, offset + HeaderLen + 1,
                                      offset + FrameLen(offset)))
    /\ decoded' = decoded + 1
    /\ offset' = offset + FrameLen(offset)
    /\ UNCHANGED <<stream, wire, pc, carry, buf, complete, errCount, ret>>

\* The loop ends: fewer than four bytes are left, or a frame recognised in
\* them does not fit ("truncated frame - wait for more data").
DecodeEnds ==
    /\ pc = "decode"
    /\ \/ offset + HeaderLen > complete
       \/ /\ Decoding
          /\ ~OutOfSync(offset)
          /\ offset + FrameLen(offset) > complete

Trailing == Len(buf) - complete
Fits == Trailing <= CarryCapacity

\* Fault: the first trailing byte is lost.
TrailingBytesButOne == SubSeq(buf, complete + 2, Len(buf))

TrailingBytes == SubSeq(buf, complete + 1, Len(buf))

\* Back in wch_read_packets: keep the trailing bytes and return the number of
\* records, or drop them and return LIBUSB_ERROR_OVERFLOW.  The locals die.
Return ==
    /\ DecodeEnds
    /\ carry' = IF Fits THEN TrailingBytes ELSE << >>
    /\ ret' = IF Fits THEN decoded ELSE -1
    /\ pc' = "idle"
    /\ buf' = << >>
    /\ complete' = 0
    /\ offset' = 0
    /\ decoded' = 0
    /\ UNCHANGED <<stream, wire, errCount, reported>>

Scan == ScanResync \/ ScanFrame \/ ScanDone

Decode == \/ DecodeResync \/ DecodeStatus \/ DecodeUnknown \/ DecodeShort
          \/ DecodeMarked \/ DecodeBadChannel \/ DecodeReport
          \/ Return

Next == \/ Emit
        \/ \E n \in 0..Len(wire) : Transfer(n) \/ Timeout(n) \/ TransferError(n)
        \/ Scan
        \/ Decode

Safety == Init /\ [][Next]_vars

\* wch_capture keeps calling while it runs, so a started call goes on; and
\* the host controller does not time out for ever on a device with data.
Spec == /\ Safety
        /\ WF_vars(Scan)
        /\ WF_vars(Decode)
        /\ SF_vars(\E n \in 1..Len(wire) : Transfer(n))

---------------------------------------------------------------------------
(* Properties. *)

TypeOK ==
    /\ emitted \in Seq(Emittable)
    /\ sent \in Seq(Seq(Byte))
    /\ ledger \in [0..Len(emitted) -> [end : Nat, records : Nat, errors : Nat]]
    /\ wire \in Seq(Byte)
    /\ pc \in {"idle", "scan", "decode"}
    /\ carry \in Seq(Byte)
    /\ buf \in Seq(Byte)
    /\ complete \in 0..Len(buf)
    /\ offset \in 0..complete
    /\ decoded \in Nat
    /\ errCount \in Nat
    /\ reported \in Seq(Seq(Byte))
    /\ ret \in Int

\* The carry always fits: the LIBUSB_ERROR_OVERFLOW branch is dead code, and
\* the guard on rx_carry_len at the top of wch_read_packets never refuses a
\* call, so no sequence of split frames and noise can wedge the reader.
CarryFits ==
    /\ Len(carry) < CarryCapacity
    /\ pc = "decode" => Trailing < CarryCapacity

\* A stream that can be read in one way only: a byte of noise, or of a frame of
\* unknown type behind its first byte, does not look like the start of a frame,
\* and a transfer that does not succeed has moved nothing.
Known(e) == Framed(e) /\ e.type \in {TypeData, TypeStatus}

Inert(bytes, k) ==
    \/ bytes[k] # FrameMagic
    \/ k + 3 <= Len(bytes) /\ bytes[k + 2] + 256 * bytes[k + 3] > MaxFramePayload

Quiet(e) ==
    \A k \in 1..Len(Encode(e)) : Inert(Encode(e), k) \/ (k = 1 /\ Framed(e))

Unambiguous == ~PartialTransfers /\ \A e \in Emittable : Known(e) \/ Quiet(e)

\* How many bytes of the stream transfers have taken, and how many of the
\* emitted frames lie in them entirely.
Taken == ledger[Len(emitted)].end - Len(wire)

Transferred ==
    CHOOSE i \in 0..Len(emitted) :
        /\ ledger[i].end <= Taken
        /\ i < Len(emitted) => Taken < ledger[i + 1].end

\* When a call has returned, every reportable frame whose last byte has been
\* transferred was given to the callback, once, in order and unaltered, and
\* nothing else was: "Reads one USB bulk transfer from EP 0x82 and decodes
\* all device frames found in the buffer" (wch_ble_analyzer.c:319-320).
AllFramesDecoded ==
    pc = "idle" => reported = SubSeq(sent, 1, ledger[Transferred].records)

\* err_count is the number of status frames and of marked data frames among
\* those: a frame split over several transfers is still counted once.  (The
\* comment on err_count, "Status/unknown frames" (wch_ble_analyzer.h:193), names
\* frames of unknown type, which no statement counts, and leaves out the marked
\* ones, which wch_ble_analyzer.c:484 counts; the property is the code's rule.)
ErrorsCountedOnce ==
    pc = "idle" => errCount = ledger[Transferred].errors

\* The stream implements the lossless FIFO channel: no cut of the stream into
\* transfers loses, repeats, reorders or splices a record, and every emitted
\* record is eventually reported.
Channel == INSTANCE FrameChannel WITH
               Record <- {e.payload : e \in Emittable},
               sent <- sent,
               received <- reported

ImplementsChannel == Channel!Spec

\* Every record given to the callback is one the firmware sent: "Calls @cb for
\* each BLE data frame (type 0x10)" (wch_ble_analyzer.h:261), and a timeout "is
\* normal when no packets arrive" (wch_ble_analyzer.h:270).
NothingInvented ==
    \A i \in DOMAIN reported : \E j \in DOMAIN sent : reported[i] = sent[j]
===========================================================================

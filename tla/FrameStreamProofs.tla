-------------------------- MODULE FrameStreamProofs --------------------------
(***************************************************************************)
(* For every frame size limit, transfer size and stream: types, and the    *)
(* carry buffer never overflows.  For every stream that can be read in one *)
(* way only: the callback gets exactly the records that were sent.         *)
(***************************************************************************)
EXTENDS FrameStream, SequenceTheorems, TLAPS

LEMMA ByteIsNat == \A b \in Byte : b \in Nat
    BY DEF Byte

LEMMA LengthBytes ==
    ASSUME NEW n \in Nat, n < 256 * 256
    PROVE  n % 256 \in Byte /\ n \div 256 \in Byte
    BY DEF Byte

LEMMA FourBytes ==
    ASSUME NEW a \in Byte, NEW b \in Byte, NEW c \in Byte, NEW d \in Byte
    PROVE  <<a, b, c, d>> \in Seq(Byte)
    OBVIOUS

\* The header of a frame is four bytes.
LEMMA HeaderType ==
    ASSUME NEW e \in Emittable, e.type # Noise
    PROVE  /\ <<FrameMagic, e.type, Len(e.payload) % 256, Len(e.payload) \div 256>>
                 \in Seq(Byte)
           /\ e.payload \in Seq(Byte)
<1>1. /\ e \in [type : Byte \cup {Noise}, payload : Seq(Byte)]
      /\ Len(e.payload) < 256 * 256
    BY EmittableAssumption
<1>2. /\ e.payload \in Seq(Byte) /\ e.type \in Byte /\ FrameMagic \in Byte
    BY <1>1, ConstantsAssumption
<1>3. Len(e.payload) \in Nat
    BY <1>2, LenProperties
<1> DEFINE lo == Len(e.payload) % 256
           hi == Len(e.payload) \div 256
<1>4. lo \in Byte /\ hi \in Byte
    BY <1>1, <1>3, LengthBytes
<1> HIDE DEF lo, hi
<1>5. <<FrameMagic, e.type, lo, hi>> \in Seq(Byte)
    BY <1>2, <1>4, FourBytes
<1> QED
    BY <1>2, <1>5 DEF lo, hi

\* A header read inside the buffer gives a length of at least 4 bytes and,
\* when the reader is in sync, of at most the carry's capacity.
LEMMA FrameLenBounds ==
    ASSUME buf \in Seq(Byte), NEW k \in Nat, k + HeaderLen <= Len(buf)
    PROVE  /\ PayloadLen(k) \in Nat
           /\ FrameLen(k) \in Nat
           /\ FrameLen(k) >= HeaderLen
           /\ ~OutOfSync(k) => FrameLen(k) <= CarryCapacity
<1>1. (k + 2) + 1 \in 1..Len(buf) /\ (k + 3) + 1 \in 1..Len(buf)
    BY LenProperties DEF HeaderLen
<1>2. buf[(k + 2) + 1] \in Byte /\ buf[(k + 3) + 1] \in Byte
    BY <1>1, ElementOfSeq
<1>3. buf[(k + 2) + 1] \in Nat /\ buf[(k + 3) + 1] \in Nat
    BY <1>2, ByteIsNat
<1>4. PayloadLen(k) \in Nat
    BY <1>3 DEF PayloadLen, At
<1> QED
    BY <1>4, ConstantsAssumption
    DEF FrameLen, OutOfSync, CarryCapacity, HeaderLen

\* What the firmware puts on the wire are bytes.
LEMMA EncodeType ==
    ASSUME NEW e \in Emittable
    PROVE  Encode(e) \in Seq(Byte)
<1>1. /\ e \in [type : Byte \cup {Noise}, payload : Seq(Byte)]
      /\ Len(e.payload) < 256 * 256
    BY EmittableAssumption
<1>2. e.payload \in Seq(Byte) /\ e.type \in Byte \cup {Noise}
    BY <1>1
<1>3. CASE e.type = Noise
    BY <1>2, <1>3 DEF Encode
<1>4. CASE e.type # Noise
    <2> DEFINE header == <<FrameMagic, e.type, Len(e.payload) % 256,
                           Len(e.payload) \div 256>>
    <2>1. header \in Seq(Byte)
        BY <1>4, HeaderType
    <2> HIDE DEF header
    <2>2. header \o e.payload \in Seq(Byte)
        BY <2>1, <1>2, ConcatProperties
    <2> QED
        BY <2>2, <1>4 DEF Encode, header
<1> QED
    BY <1>3, <1>4

---------------------------------------------------------------------------
(* Between calls the locals are dead; while the decode loop runs, what is   *)
(* left behind complete is less than a whole frame.                        *)

IdleClean == pc = "idle" => buf = << >> /\ complete = 0 /\ offset = 0

FreshScan == pc = "scan" => offset = 0

IInv == TypeOK /\ CarryFits /\ IdleClean /\ FreshScan

LEMMA InitIInv == Init => IInv
<1> SUFFICES ASSUME Init PROVE IInv
    OBVIOUS
<1>1. TypeOK
    BY EmptySeq DEF Init, TypeOK
<1>2. CarryFits
    BY ConstantsAssumption DEF Init, CarryFits, CarryCapacity, HeaderLen
<1> QED
    BY <1>1, <1>2 DEF IInv, IdleClean, FreshScan, Init

\* A prefix or a suffix of a byte sequence is one.
LEMMA Cut ==
    ASSUME NEW S, NEW s \in Seq(S), NEW m \in Nat, NEW n \in Nat,
           m >= 1, n <= Len(s)
    PROVE  /\ SubSeq(s, m, n) \in Seq(S)
           /\ Len(SubSeq(s, m, n)) = IF m <= n THEN n - m + 1 ELSE 0
<1>1. \A i \in m..n : i \in 1..Len(s)
    BY LenProperties
<1>2. \A i \in m..n : s[i] \in S
    BY <1>1, ElementOfSeq
<1> QED
    BY <1>2, SubSeqProperties

\* The books keep their types.
LEMMA RememberType ==
    ASSUME TypeOK, NEW e \in Emittable, Remember(e), emitted' = Append(emitted, e)
    PROVE  /\ sent' \in Seq(Seq(Byte))
           /\ ledger' \in [0..Len(emitted') -> [end : Nat, records : Nat, errors : Nat]]
<1> DEFINE n == Len(emitted)
           entry == [end |-> ledger[n].end + Len(Encode(e)),
                     records |-> ledger[n].records + (IF Reportable(e) THEN 1 ELSE 0),
                     errors |-> ledger[n].errors + (IF Counted(e) THEN 1 ELSE 0)]
<1>1. n \in Nat /\ Len(emitted') = n + 1
    BY LenProperties, AppendProperties DEF TypeOK
<1>2. e.payload \in Seq(Byte) /\ Len(Encode(e)) \in Nat
    BY EmittableAssumption, EncodeType, LenProperties
<1>3. sent' \in Seq(Seq(Byte))
    BY <1>2, AppendProperties DEF Remember, TypeOK
<1>4. \A i \in 0..n : ledger[i] \in [end : Nat, records : Nat, errors : Nat]
    BY DEF TypeOK
<1>5. entry \in [end : Nat, records : Nat, errors : Nat]
    <2>1. ledger[n] \in [end : Nat, records : Nat, errors : Nat]
        BY <1>1, <1>4
    <2>2. /\ ledger[n].end \in Nat /\ ledger[n].records \in Nat
          /\ ledger[n].errors \in Nat
        BY <2>1
    <2>3. /\ (IF Reportable(e) THEN 1 ELSE 0) \in Nat
          /\ (IF Counted(e) THEN 1 ELSE 0) \in Nat
        OBVIOUS
    <2>4. \A a, b \in Nat : a + b \in Nat
        OBVIOUS
    <2>5. /\ ledger[n].end + Len(Encode(e)) \in Nat
          /\ ledger[n].records + (IF Reportable(e) THEN 1 ELSE 0) \in Nat
          /\ ledger[n].errors + (IF Counted(e) THEN 1 ELSE 0) \in Nat
        BY ONLY <1>2, <2>2, <2>3, <2>4, Zenon
    <2> QED
        BY <2>5
<1>6. ledger' = [i \in 0..(n + 1) |-> IF i <= n THEN ledger[i] ELSE entry]
    BY DEF Remember
<1>7. \A i \in 0..(n + 1) :
         (IF i <= n THEN ledger[i] ELSE entry) \in [end : Nat, records : Nat, errors : Nat]
    BY <1>1, <1>4, <1>5
<1> QED
    BY <1>1, <1>3, <1>6, <1>7

LEMMA EmitIInv == ASSUME IInv, Emit PROVE IInv'
<1>1. PICK e \in Emittable : /\ emitted' = Append(emitted, e)
                             /\ wire' = wire \o Encode(e)
                             /\ Remember(e)
    BY DEF Emit
<1>2. emitted' \in Seq(Emittable)
    BY <1>1, AppendProperties DEF IInv, TypeOK
<1>3. wire' \in Seq(Byte)
    BY <1>1, EncodeType, ConcatProperties DEF IInv, TypeOK
<1>4. UNCHANGED call
    BY DEF Emit
<1>5. /\ sent' \in Seq(Seq(Byte))
      /\ ledger' \in [0..Len(emitted') -> [end : Nat, records : Nat, errors : Nat]]
    BY <1>1, RememberType DEF IInv
<1>6. TypeOK'
    BY <1>2, <1>3, <1>4, <1>5 DEF IInv, TypeOK, call
<1> QED
    BY <1>4, <1>6 DEF IInv, CarryFits, Trailing, IdleClean, FreshScan, call

LEMMA TransferIInv == ASSUME IInv, NEW n \in 0..Len(wire), Transfer(n) PROVE IInv'
<1>1. wire' = SubSeq(wire, n + 1, Len(wire)) /\ Len(wire) \in Nat
    BY LenProperties DEF Transfer, IInv, TypeOK, stream
<1>2. wire' \in Seq(Byte)
    BY <1>1, Cut DEF IInv, TypeOK, stream
<1>3. SubSeq(wire, 1, n) \in Seq(Byte)
    BY <1>1, Cut DEF IInv, TypeOK, stream
<1>4. buf' \in Seq(Byte)
    BY <1>3, ConcatProperties DEF IInv, TypeOK, stream, Transfer, Fill
<1>5. /\ pc' = "scan" /\ complete' = 0 /\ offset' = 0 /\ ret' = 0
      /\ UNCHANGED <<emitted, sent, ledger, carry, decoded, errCount, reported>>
    BY DEF Transfer, IInv, IdleClean, stream
<1>6. TypeOK'
    <2>1. complete' \in 0..Len(buf') /\ offset' \in 0..complete'
        BY <1>4, <1>5, LenProperties
    <2> QED
        BY <1>2, <1>4, <1>5, <2>1 DEF IInv, TypeOK
<1> QED
    BY <1>5, <1>6 DEF IInv, CarryFits, IdleClean, FreshScan

LEMMA EarlyIInv ==
    ASSUME IInv, NEW n \in 0..Len(wire), NEW result \in Int, EndsEarly(n, result)
    PROVE  IInv'
<1>1. wire' = SubSeq(wire, n + 1, Len(wire)) /\ Len(wire) \in Nat
    BY LenProperties DEF EndsEarly, IInv, TypeOK, stream
<1>2. wire' \in Seq(Byte)
    BY <1>1, Cut DEF IInv, TypeOK, stream
<1> QED
    BY <1>2 DEF EndsEarly, IInv, TypeOK, stream, CarryFits, Trailing, IdleClean,
                FreshScan

LEMMA TimeoutIInv == ASSUME IInv, NEW n \in 0..Len(wire), Timeout(n) PROVE IInv'
    BY EarlyIInv DEF Timeout

LEMMA TransferErrorIInv ==
    ASSUME IInv, NEW n \in 0..Len(wire), TransferError(n)
    PROVE  IInv'
    BY EarlyIInv DEF TransferError

---------------------------------------------------------------------------
(* The first loop. *)

LEMMA ScanIInv == ASSUME IInv, Scan PROVE IInv'
<1>0. /\ complete \in 0..Len(buf) /\ buf \in Seq(Byte) /\ Len(buf) \in Nat
      /\ complete \in Nat
    BY LenProperties DEF IInv, TypeOK, stream
<1>1. CASE ScanResync
    <2>1. complete' \in 0..Len(buf') /\ offset' \in 0..complete'
        BY <1>0, <1>1
        DEF ScanResync, Scanning, HeaderLen, IInv, FreshScan
    <2> QED
        BY <2>1, <1>1 DEF ScanResync, Scanning, IInv, TypeOK, stream, CarryFits,
                          IdleClean, FreshScan
<1>2. CASE ScanFrame
    <2>1. FrameLen(complete) \in Nat
        BY <1>0, <1>2, FrameLenBounds DEF ScanFrame, Scanning
    <2>2. complete' \in 0..Len(buf') /\ offset' \in 0..complete'
        BY <1>0, <1>2, <2>1 DEF ScanFrame, Scanning, IInv, FreshScan
    <2> QED
        BY <2>2, <1>2 DEF ScanFrame, Scanning, IInv, TypeOK, stream, CarryFits,
                          IdleClean, FreshScan
<1>3. CASE ScanDone
    <2>1. Trailing < CarryCapacity
        <3>1. CASE complete + HeaderLen > Len(buf)
            BY <1>0, <3>1, ConstantsAssumption
            DEF Trailing, CarryCapacity, HeaderLen
        <3>2. CASE ~(complete + HeaderLen > Len(buf))
            <4>1. /\ ~OutOfSync(complete)
                  /\ complete + FrameLen(complete) > Len(buf)
                BY <1>3, <3>2 DEF ScanDone
            <4>2. /\ FrameLen(complete) \in Nat
                  /\ FrameLen(complete) <= CarryCapacity
                BY <1>0, <3>2, <4>1, FrameLenBounds DEF HeaderLen
            <4> QED
                BY <1>0, <4>1, <4>2, ConstantsAssumption
                DEF Trailing, CarryCapacity, HeaderLen
        <3> QED
            BY <3>1, <3>2
    <2>2. CarryFits'
        BY <2>1, <1>3 DEF ScanDone, IInv, CarryFits, Trailing
    <2> QED
        BY <2>2, <1>3 DEF ScanDone, IInv, TypeOK, stream, IdleClean, FreshScan
<1> QED
    BY <1>1, <1>2, <1>3 DEF Scan
---------------------------------------------------------------------------
(* The second loop. *)

\* Stepping over n bytes inside buf[0, complete).
LEMMA SkipIInv ==
    ASSUME IInv, Decoding, NEW n \in Nat, offset + n <= complete,
           NEW c \in Nat, Skip(n, c)
    PROVE  IInv'
<1>1. offset' \in 0..complete' /\ complete' \in 0..Len(buf') /\ errCount' \in Nat
    BY LenProperties DEF Skip, IInv, TypeOK, stream
<1> QED
    BY <1>1 DEF Skip, Decoding, IInv, TypeOK, stream, CarryFits, Trailing, IdleClean,
                FreshScan

\* A whole frame found by the decode loop has a length.
LEMMA WholeFrameLen ==
    ASSUME IInv, WholeFrame
    PROVE  /\ Decoding
           /\ FrameLen(offset) \in Nat
           /\ FrameLen(offset) >= HeaderLen
           /\ offset + FrameLen(offset) <= complete
<1>1. /\ offset \in Nat /\ buf \in Seq(Byte)
      /\ offset + HeaderLen <= Len(buf)
    BY LenProperties DEF IInv, TypeOK, stream, WholeFrame, Decoding, HeaderLen
<1> QED
    BY <1>1, FrameLenBounds DEF WholeFrame

LEMMA ReportIInv == ASSUME IInv, DecodeReport PROVE IInv'
<1>1. /\ Decoding /\ FrameLen(offset) \in Nat
      /\ FrameLen(offset) >= HeaderLen
      /\ offset + FrameLen(offset) <= complete
    BY WholeFrameLen DEF DecodeReport, DataFrame
<1>2. /\ buf \in Seq(Byte) /\ Len(buf) \in Nat
      /\ offset \in Nat /\ complete \in Nat /\ complete <= Len(buf)
    BY LenProperties DEF IInv, TypeOK, stream
<1>3. SubSeq(buf, offset + HeaderLen + 1, offset + FrameLen(offset))
          \in Seq(Byte)
    BY <1>1, <1>2, Cut DEF HeaderLen
<1>4. reported' \in Seq(Seq(Byte))
    BY <1>3, AppendProperties DEF DecodeReport, IInv, TypeOK, stream
<1>5. /\ offset' \in 0..complete' /\ complete' \in 0..Len(buf')
      /\ decoded' \in Nat
    BY <1>1, <1>2 DEF DecodeReport, IInv, TypeOK, stream
<1> QED
    BY <1>1, <1>4, <1>5 DEF DecodeReport, Decoding, IInv, TypeOK, stream, CarryFits,
                            Trailing, IdleClean, FreshScan

LEMMA ReturnIInv == ASSUME IInv, Return PROVE IInv'
<1>1. /\ buf \in Seq(Byte) /\ Len(buf) \in Nat
      /\ complete \in Nat /\ complete <= Len(buf)
    BY LenProperties DEF IInv, TypeOK, stream
<1>2. Trailing \in Nat /\ Trailing < CarryCapacity
    BY <1>1 DEF Return, DecodeEnds, IInv, CarryFits, Trailing
<1>3. Fits
    BY <1>2, ConstantsAssumption DEF Fits, CarryCapacity, HeaderLen
<1>4. TrailingBytes \in Seq(Byte) /\ Len(TrailingBytes) = Trailing
    BY <1>1, Cut DEF TrailingBytes, Trailing
<1>5. /\ carry' = TrailingBytes /\ ret' = decoded /\ pc' = "idle"
      /\ buf' = << >> /\ complete' = 0 /\ offset' = 0 /\ decoded' = 0
      /\ UNCHANGED <<emitted, sent, ledger, wire, errCount, reported>>
    BY <1>3 DEF Return, stream
<1>6. buf' \in Seq(Byte) /\ complete' \in 0..Len(buf') /\ offset' \in 0..complete'
    BY <1>5
<1>7. TypeOK'
    BY <1>4, <1>5, <1>6 DEF IInv, TypeOK
<1>8. CarryFits'
    BY <1>2, <1>4, <1>5 DEF CarryFits
<1> QED
    BY <1>5, <1>7, <1>8 DEF IInv, IdleClean, FreshScan

LEMMA DecodeIInv == ASSUME IInv, Decode PROVE IInv'
<1>1. CASE DecodeResync
    <2>1. offset + 1 <= complete
        BY <1>1 DEF DecodeResync, Decoding, HeaderLen, IInv, TypeOK, stream
    <2> QED
        BY <1>1, <2>1, SkipIInv DEF DecodeResync
<1>2. CASE DecodeStatus
    BY <1>2, WholeFrameLen, SkipIInv DEF DecodeStatus
<1>3. CASE DecodeUnknown
    <2>1. Decoding /\ offset + 1 <= complete
        BY <1>3, WholeFrameLen
        DEF DecodeUnknown, Decoding, HeaderLen, IInv, TypeOK, stream
    <2> QED
        BY <1>3, <2>1, SkipIInv DEF DecodeUnknown
<1>4. CASE DecodeShort
    BY <1>4, WholeFrameLen, SkipIInv DEF DecodeShort
<1>5. CASE DecodeMarked
    BY <1>5, WholeFrameLen, SkipIInv DEF DecodeMarked, DataFrame
<1>6. CASE DecodeBadChannel
    BY <1>6, WholeFrameLen, SkipIInv DEF DecodeBadChannel, DataFrame
<1> QED
    BY <1>1, <1>2, <1>3, <1>4, <1>5, <1>6, ReportIInv, ReturnIInv DEF Decode

---------------------------------------------------------------------------

LEMMA NextIInv == IInv /\ [Next]_vars => IInv'
<1> SUFFICES ASSUME IInv, [Next]_vars PROVE IInv'
    OBVIOUS
<1>1. CASE UNCHANGED vars
    BY <1>1 DEF vars, call, IInv, TypeOK, stream, CarryFits, Trailing, IdleClean,
                FreshScan
<1>2. CASE Next
    BY <1>2, EmitIInv, TransferIInv, TimeoutIInv, TransferErrorIInv, ScanIInv,
       DecodeIInv DEF Next
<1> QED
    BY <1>1, <1>2

THEOREM Invariance == Safety => []IInv
    BY InitIInv, NextIInv, PTL DEF Safety

\* Every variable keeps its type: in particular both loops stay inside the
\* bytes received.
THEOREM TypeCorrect == Spec => []TypeOK
<1>1. IInv => TypeOK
    BY DEF IInv
<1> QED
    BY <1>1, Invariance, PTL DEF Spec

\* However the stream is cut, and whatever bytes are in it, the bytes kept
\* from one call to the next fit rx_carry: wch_read_packets never drops them
\* with LIBUSB_ERROR_OVERFLOW and never refuses a call with
\* LIBUSB_ERROR_INVALID_PARAM because of them.
THEOREM CarryNeverOverflows == Spec => []CarryFits
<1>1. IInv => CarryFits
    BY DEF IInv
<1> QED
    BY <1>1, Invariance, PTL DEF Spec

---------------------------------------------------------------------------
(* What was read of an unambiguous stream. *)

\* The bytes that the reader holds.
Held == IF pc = "idle" THEN carry ELSE buf

\* Where they begin in the stream.
Base == Taken - Len(Held)

\* The frame that byte p of the stream belongs to, and that byte: for the frames
\* em and the books led of them.
FrameOf(led, n, p) == CHOOSE i \in 1..n : led[i - 1].end < p /\ p <= led[i].end

Octet(em, led, p) ==
    LET i == FrameOf(led, Len(em), p)
    IN  Encode(em[i])[p - led[i - 1].end]

\* i frames lie before position p.
Before(i, p) == ledger[i].end <= p /\ (i < Len(emitted) => p < ledger[i + 1].end)

Due(e) == Reportable(e) \/ Counted(e)

\* The books are those of the frames emitted.
Booked ==
    /\ ledger[0] = [end |-> 0, records |-> 0, errors |-> 0]
    /\ ledger[Len(emitted)].records = Len(sent)
    /\ \A i \in 1..Len(emitted) :
          /\ ledger[i].end = ledger[i - 1].end + Len(Encode(emitted[i]))
          /\ ledger[i].records = ledger[i - 1].records
                                    + (IF Reportable(emitted[i]) THEN 1 ELSE 0)
          /\ ledger[i].errors = ledger[i - 1].errors
                                    + (IF Counted(emitted[i]) THEN 1 ELSE 0)
          /\ Reportable(emitted[i]) => sent[ledger[i].records] = emitted[i].payload
    /\ \A i, j \in 0..Len(emitted) :
          i < j => /\ ledger[i].end < ledger[j].end
                   /\ ledger[i].records <= ledger[j].records
    /\ \A p \in 0..ledger[Len(emitted)].end :
          \E i \in 0..Len(emitted) : Before(i, p)

\* Frames that are not due leave no trace in the books.
Still ==
    \A i, j \in 0..Len(emitted) :
        i <= j /\ (\A k \in (i + 1)..j : ~Due(emitted[k])) =>
            /\ ledger[i].records = ledger[j].records
            /\ ledger[i].errors = ledger[j].errors

\* What is held and what is on the wire is the stream from Base on.
Kept ==
    /\ Base \in Nat
    /\ \A k \in 1..Len(Held) : Held[k] = Octet(emitted, ledger, Base + k)
    /\ \A k \in 1..Len(wire) : wire[k] = Octet(emitted, ledger, Taken + k)

\* The first loop stands between frames or in one that it does not recognise.
ScanAt(i, p) ==
    Before(i, p) /\ (p # ledger[i].end => i < Len(emitted) /\ ~Framed(emitted[i + 1]))

Scanned == \E i \in 0..Len(emitted) : ScanAt(i, Base + complete)

\* The second loop too, and it has reported what is due before that place.
DecodeAt(i, p) ==
    Before(i, p) /\ (p # ledger[i].end => i < Len(emitted) /\ ~Known(emitted[i + 1]))

Delivered ==
    \E i \in 0..Len(emitted) :
        /\ DecodeAt(i, Base + offset)
        /\ reported = SubSeq(sent, 1, ledger[i].records)
        /\ errCount = ledger[i].errors

\* No frame lies whole in what is left for the next call.
NoneLeft ==
    pc # "scan" =>
        \A i \in 1..Len(emitted) :
            /\ Base + complete <= ledger[i - 1].end
            /\ ledger[i].end <= Taken
            => ~Framed(emitted[i])

StreamInv == /\ IInv /\ Booked /\ Still /\ Kept /\ Scanned /\ Delivered
             /\ NoneLeft

---------------------------------------------------------------------------
(* Reading the stream at a place. *)

LEMMA BooksType ==
    ASSUME TypeOK, NEW i \in 0..Len(emitted)
    PROVE  /\ Len(emitted) \in Nat
           /\ ledger[i].end \in Nat
           /\ ledger[i].records \in Nat
           /\ ledger[i].errors \in Nat
<1>1. ledger[i] \in [end : Nat, records : Nat, errors : Nat]
    BY DEF TypeOK
<1> QED
    BY <1>1, LenProperties DEF TypeOK

LEMMA FrameType ==
    ASSUME NEW e \in Emittable
    PROVE  /\ e.payload \in Seq(Byte) /\ Len(e.payload) \in Nat
           /\ Len(Encode(e)) \in Nat
           /\ e.type = Noise => Len(e.payload) > 0
           /\ e.type # Noise => Len(Encode(e)) = HeaderLen + Len(e.payload)
           /\ Len(Encode(e)) > 0
<1>1. /\ e.payload \in Seq(Byte) /\ Len(e.payload) < 256 * 256
      /\ e.type \in Byte \cup {Noise}
      /\ e.type = Noise => e.payload # << >>
    BY EmittableAssumption
<1>2. Len(e.payload) \in Nat /\ Len(Encode(e)) \in Nat
    BY <1>1, EncodeType, LenProperties
<1>3. e.type = Noise => Len(e.payload) > 0
    BY <1>1, <1>2, EmptySeq
<1>4. ASSUME e.type # Noise PROVE Len(Encode(e)) = HeaderLen + Len(e.payload)
    <2> DEFINE header == <<FrameMagic, e.type, Len(e.payload) % 256,
                           Len(e.payload) \div 256>>
    <2>1. header \in Seq(Byte)
        BY <1>4, HeaderType
    <2>2. Len(header) = HeaderLen
        BY DEF HeaderLen
    <2> HIDE DEF header
    <2>3. Len(header \o e.payload) = HeaderLen + Len(e.payload)
        BY <2>1, <2>2, <1>1, ConcatProperties
    <2> QED
        BY <2>3, <1>4 DEF Encode, header
<1>5. Len(Encode(e)) > 0
    BY <1>2, <1>3, <1>4 DEF Encode, HeaderLen
<1> QED
    BY <1>1, <1>2, <1>3, <1>4, <1>5

LEMMA LengthSplit ==
    ASSUME NEW n \in Nat
    PROVE  (n % 256) + 256 * (n \div 256) = n
    OBVIOUS

\* The bytes of a frame: its header and its payload.
LEMMA FrameBytes ==
    ASSUME NEW e \in Emittable, e.type # Noise
    PROVE  /\ Encode(e)[1] = FrameMagic
           /\ Encode(e)[2] = e.type
           /\ Encode(e)[3] + 256 * Encode(e)[4] = Len(e.payload)
           /\ \A k \in 1..Len(e.payload) : Encode(e)[HeaderLen + k] = e.payload[k]
<1> DEFINE header == <<FrameMagic, e.type, Len(e.payload) % 256,
                       Len(e.payload) \div 256>>
<1>1. /\ e.payload \in Seq(Byte) /\ Len(e.payload) < 256 * 256
      /\ e.type \in Byte /\ Len(e.payload) \in Nat
    BY EmittableAssumption, FrameType
<1>2. header \in Seq(Byte)
    BY HeaderType
<1>3. /\ Len(header) = 4
      /\ header[1] = FrameMagic /\ header[2] = e.type
      /\ header[3] = Len(e.payload) % 256 /\ header[4] = Len(e.payload) \div 256
    OBVIOUS
<1>4. (Len(e.payload) % 256) + 256 * (Len(e.payload) \div 256) = Len(e.payload)
    BY <1>1, LengthSplit
<1>5. Encode(e) = header \o e.payload
    BY DEF Encode
<1> HIDE DEF header
<1>6. \A k \in 1..Len(header) + Len(e.payload) :
         Encode(e)[k] = IF k <= Len(header) THEN header[k]
                        ELSE e.payload[k - Len(header)]
    BY <1>1, <1>2, <1>5, ConcatProperties
<1>7. /\ Encode(e)[1] = header[1] /\ Encode(e)[2] = header[2]
      /\ Encode(e)[3] = header[3] /\ Encode(e)[4] = header[4]
    <2>1. \A k \in {1, 2, 3, 4} :
             k \in 1..Len(header) + Len(e.payload) /\ k <= Len(header)
        BY <1>1, <1>3
    <2>2. \A k \in {1, 2, 3, 4} : Encode(e)[k] = header[k]
        BY <1>6, <2>1
    <2> QED
        BY <2>2
<1>8. ASSUME NEW k \in 1..Len(e.payload)
      PROVE  Encode(e)[4 + k] = e.payload[k]
    <2>1. /\ 4 + k \in 1..Len(header) + Len(e.payload)
          /\ ~(4 + k <= Len(header)) /\ (4 + k) - Len(header) = k
        BY <1>1, <1>3
    <2>2. Encode(e)[4 + k] = e.payload[(4 + k) - Len(header)]
        BY <1>6, <2>1
    <2> QED
        BY <2>1, <2>2
<1>9. Encode(e)[3] + 256 * Encode(e)[4] = Len(e.payload)
    BY <1>3, <1>4, <1>7
<1>10. Encode(e)[1] = FrameMagic /\ Encode(e)[2] = e.type
    BY <1>3, <1>7
<1> QED
    BY <1>8, <1>9, <1>10 DEF HeaderLen

\* A byte of the stream is found by its frame and its place in the frame.
LEMMA OctetIs ==
    ASSUME NEW em \in Seq(Emittable),
           NEW led \in [0..Len(em) -> [end : Nat, records : Nat, errors : Nat]],
           \A i, j \in 0..Len(em) : i < j => led[i].end < led[j].end,
           NEW i \in 1..Len(em), NEW k \in Nat,
           0 < k, led[i - 1].end + k <= led[i].end
    PROVE  Octet(em, led, led[i - 1].end + k) = Encode(em[i])[k]
<1>1. Len(em) \in Nat
    BY LenProperties
<1>2. \A m \in 0..Len(em) : led[m].end \in Nat
    OBVIOUS
<1> DEFINE p == led[i - 1].end + k
<1>3. i - 1 \in 0..Len(em) /\ i \in 0..Len(em)
    BY <1>1
<1>4. led[i - 1].end < p /\ p <= led[i].end /\ p \in Nat
    BY <1>2, <1>3
<1>5. ASSUME NEW m \in 1..Len(em), led[m - 1].end < p, p <= led[m].end
      PROVE  m = i
    <2>1. m - 1 \in 0..Len(em) /\ m \in 0..Len(em)
        BY <1>1
    <2>2. CASE m < i
        <3>1. led[m].end <= led[i - 1].end
            <4>1. m = i - 1 \/ m < i - 1
                BY <2>2
            <4>2. CASE m = i - 1
                BY <4>2, <2>1, <1>2, <1>3
            <4>3. CASE m < i - 1
                <5>1. led[m].end < led[i - 1].end
                    BY <4>3, <2>1, <1>3
                <5>2. led[m].end \in Nat /\ led[i - 1].end \in Nat
                    BY <2>1, <1>2, <1>3
                <5> QED
                    BY <5>1, <5>2
            <4> QED
                BY <4>1, <4>2, <4>3
        <3>2. led[m].end \in Nat /\ led[i - 1].end \in Nat
            BY <2>1, <1>2, <1>3
        <3> HIDE DEF p
        <3> QED
            BY <3>1, <3>2, <1>4, <1>5
    <2>3. CASE i < m
        <3>1. led[i].end <= led[m - 1].end
            <4>1. i = m - 1 \/ i < m - 1
                BY <2>3
            <4>2. CASE i = m - 1
                BY <4>2, <2>1, <1>2, <1>3
            <4>3. CASE i < m - 1
                <5>1. led[i].end < led[m - 1].end
                    BY <4>3, <2>1, <1>3
                <5>2. led[i].end \in Nat /\ led[m - 1].end \in Nat
                    BY <2>1, <1>2, <1>3
                <5> QED
                    BY <5>1, <5>2
            <4> QED
                BY <4>1, <4>2, <4>3
        <3>2. led[i].end \in Nat /\ led[m - 1].end \in Nat
            BY <2>1, <1>2, <1>3
        <3> HIDE DEF p
        <3> QED
            BY <3>1, <3>2, <1>4, <1>5
    <2> QED
        BY <2>2, <2>3
<1> HIDE DEF p
<1>6. FrameOf(led, Len(em), p) = i
    BY <1>4, <1>5 DEF FrameOf
<1>7. p - led[i - 1].end = k
    BY <1>2, <1>3 DEF p
<1> QED
    BY <1>6, <1>7 DEF Octet, p

\* Of two places, the later one has as many frames before it.
LEMMA Monotone ==
    ASSUME TypeOK, Booked,
           NEW i \in 0..Len(emitted), NEW j \in 0..Len(emitted), i <= j
    PROVE  /\ ledger[i].end <= ledger[j].end
           /\ ledger[i].records <= ledger[j].records
<1>1. CASE i = j
    BY <1>1, BooksType
<1>2. CASE i < j
    <2>1. /\ ledger[i].end < ledger[j].end
          /\ ledger[i].records <= ledger[j].records
        BY <1>2 DEF Booked
    <2> QED
        BY <2>1, BooksType
<1>3. Len(emitted) \in Nat
    BY BooksType
<1> QED
    BY <1>1, <1>2, <1>3

LEMMA LaterPlace ==
    ASSUME TypeOK, Booked, NEW p \in Int, NEW q \in Int, p <= q,
           NEW i \in 0..Len(emitted), NEW j \in 0..Len(emitted),
           Before(i, p), Before(j, q)
    PROVE  i <= j
<1>1. Len(emitted) \in Nat
    BY BooksType
<1>2. ASSUME j < i PROVE FALSE
    <2>1. j + 1 \in 0..Len(emitted) /\ j < Len(emitted) /\ j + 1 <= i
        BY <1>1, <1>2
    <2>2. ledger[j + 1].end <= ledger[i].end
        BY <2>1, Monotone
    <2>3. ledger[i].end <= p /\ q < ledger[j + 1].end
        BY <2>1 DEF Before
    <2>4. ledger[i].end \in Nat /\ ledger[j + 1].end \in Nat
        BY <2>1, BooksType
    <2> QED
        BY <2>2, <2>3, <2>4
<1> QED
    BY <1>1, <1>2

\* How much of the stream there is.
LEMMA StreamLength ==
    ASSUME TypeOK, Kept
    PROVE  /\ Base \in Nat /\ Len(Held) \in Nat /\ Len(wire) \in Nat
           /\ Taken \in Nat
           /\ Taken = Base + Len(Held)
           /\ Taken + Len(wire) = ledger[Len(emitted)].end
<1>1. /\ Len(carry) \in Nat /\ Len(buf) \in Nat /\ Len(wire) \in Nat
      /\ Len(emitted) \in Nat
    BY LenProperties DEF TypeOK
<1>2. Len(Held) \in Nat
    BY <1>1 DEF Held
<1>3. ledger[Len(emitted)].end \in Nat
    BY <1>1, BooksType
<1>4. Base = Taken - Len(Held) /\ Base \in Nat
    BY DEF Kept, Base
<1>5. Taken = ledger[Len(emitted)].end - Len(wire)
    BY DEF Taken
<1>6. Taken \in Int
    BY <1>1, <1>3, <1>5
<1>7. Taken = Base + Len(Held)
    BY <1>2, <1>4, <1>6
<1>8. Taken + Len(wire) = ledger[Len(emitted)].end
    BY <1>1, <1>3, <1>5
<1> QED
    BY <1>1, <1>2, <1>4, <1>7, <1>8

\* A byte of the buffer is the byte of the stream that stands there.
LEMMA BufferByte ==
    ASSUME TypeOK, Booked, Kept, pc # "idle",
           NEW k \in Nat, k < Len(buf),
           NEW i \in 0..Len(emitted), i < Len(emitted),
           NEW m \in Nat, 0 < m, m <= Len(Encode(emitted[i + 1])),
           Base + k + 1 = ledger[i].end + m
    PROVE  At(k) = Encode(emitted[i + 1])[m]
<1>1. /\ Len(emitted) \in Nat /\ i + 1 \in 1..Len(emitted) /\ (i + 1) - 1 = i
      /\ ledger[i].end \in Nat
    BY BooksType
<1>2. Held = buf /\ Base \in Nat /\ k + 1 \in 1..Len(Held)
    BY StreamLength DEF Held
<1>3. At(k) = Octet(emitted, ledger, Base + (k + 1))
    BY <1>2 DEF Kept, At
<1>4. ledger[i + 1].end = ledger[i].end + Len(Encode(emitted[i + 1]))
    BY <1>1 DEF Booked
<1>5. Base + (k + 1) = ledger[i].end + m
    BY <1>2
<1>6. Len(Encode(emitted[i + 1])) \in Nat
    BY <1>1, FrameType, ElementOfSeq DEF TypeOK
<1>7. \A a, b \in 0..Len(emitted) : a < b => ledger[a].end < ledger[b].end
    BY DEF Booked
<1>8. /\ emitted \in Seq(Emittable)
      /\ ledger \in [0..Len(emitted) -> [end : Nat, records : Nat, errors : Nat]]
    BY DEF TypeOK
<1>9. ledger[(i + 1) - 1].end + m <= ledger[i + 1].end
    BY <1>1, <1>4, <1>6
<1>10. Octet(emitted, ledger, ledger[(i + 1) - 1].end + m) = Encode(emitted[i + 1])[m]
    BY <1>1, <1>7, <1>8, <1>9, OctetIs
<1> QED
    BY <1>1, <1>3, <1>5, <1>10

\* A place with bytes of the buffer behind it lies in some frame.
LEMMA PlaceInFrame ==
    ASSUME TypeOK, Booked, Kept, pc # "idle",
           NEW k \in Nat, k < Len(buf),
           NEW i \in 0..Len(emitted), Before(i, Base + k)
    PROVE  /\ i < Len(emitted) /\ i + 1 \in 1..Len(emitted) /\ i + 1 \in 0..Len(emitted)
           /\ emitted[i + 1] \in Emittable
           /\ ledger[i].end \in Nat /\ ledger[i + 1].end \in Nat
           /\ ledger[i].end <= Base + k
           /\ Base + k < ledger[i + 1].end
           /\ ledger[i + 1].end = ledger[i].end + Len(Encode(emitted[i + 1]))
<1>1. Len(emitted) \in Nat /\ ledger[i].end \in Nat
    BY BooksType
<1>2. Held = buf /\ Base \in Nat /\ Base + k < Taken
      /\ Taken <= ledger[Len(emitted)].end
    BY StreamLength DEF Held
<1>3. Len(emitted) \in 0..Len(emitted) /\ ledger[Len(emitted)].end \in Nat
    BY <1>1, BooksType
<1>4. i # Len(emitted)
    BY <1>1, <1>2, <1>3, StreamLength DEF Before
<1>5. i < Len(emitted) /\ i + 1 \in 1..Len(emitted) /\ i + 1 \in 0..Len(emitted)
    BY <1>1, <1>4
<1>6. emitted[i + 1] \in Emittable
    BY <1>5, ElementOfSeq DEF TypeOK
<1>7. ledger[i + 1].end = ledger[i].end + Len(Encode(emitted[i + 1]))
    <2>1. (i + 1) - 1 = i
        OBVIOUS
    <2> QED
        BY <1>5, <2>1 DEF Booked
<1>8. ledger[i + 1].end \in Nat
    BY <1>5, BooksType
<1> QED
    BY <1>1, <1>5, <1>6, <1>7, <1>8 DEF Before

\* The header of a frame that begins at k and is in the buffer.
LEMMA HeaderAt ==
    ASSUME TypeOK, Booked, Kept, pc # "idle",
           NEW k \in Nat, k + HeaderLen <= Len(buf),
           NEW i \in 0..Len(emitted), i < Len(emitted),
           Base + k = ledger[i].end, emitted[i + 1].type # Noise
    PROVE  /\ At(k) = FrameMagic
           /\ At(k + 1) = emitted[i + 1].type
           /\ PayloadLen(k) = Len(emitted[i + 1].payload)
           /\ FrameLen(k) = Len(Encode(emitted[i + 1]))
           /\ OutOfSync(k) <=> ~Framed(emitted[i + 1])
           /\ \A m \in 1..Len(emitted[i + 1].payload) :
                 k + HeaderLen + m <= Len(buf) =>
                     At(k + HeaderLen + m - 1) = emitted[i + 1].payload[m]
<1> DEFINE e == emitted[i + 1]
<1>1. /\ Len(emitted) \in Nat /\ Len(buf) \in Nat /\ ledger[i].end \in Nat
      /\ Base \in Nat
    BY BooksType, StreamLength, LenProperties DEF TypeOK
<1>2. e \in Emittable
    BY <1>1, ElementOfSeq DEF TypeOK
<1> HIDE DEF e
<1>3. e.type # Noise
    BY DEF e
<1>4. Len(e.payload) \in Nat /\ Len(Encode(e)) = 4 + Len(e.payload)
    BY <1>2, <1>3, FrameType DEF HeaderLen
<1>5. \A m \in Nat : 0 < m /\ m <= Len(Encode(e)) /\ k + m <= Len(buf)
                        => At(k + m - 1) = Encode(e)[m]
    <2> TAKE m \in Nat
    <2> HAVE 0 < m /\ m <= Len(Encode(e)) /\ k + m <= Len(buf)
    <2>1. k + m - 1 \in Nat /\ k + m - 1 < Len(buf)
        BY <1>1
    <2>2. Base + (k + m - 1) + 1 = ledger[i].end + m
        BY <1>1
    <2> QED
        BY <2>1, <2>2, BufferByte DEF e
<1>6. /\ At(k) = Encode(e)[1] /\ At(k + 1) = Encode(e)[2]
      /\ At(k + 2) = Encode(e)[3] /\ At(k + 3) = Encode(e)[4]
    <2>1. /\ 1 <= Len(Encode(e)) /\ 2 <= Len(Encode(e)) /\ 3 <= Len(Encode(e))
          /\ 4 <= Len(Encode(e))
          /\ k + 1 <= Len(buf) /\ k + 2 <= Len(buf) /\ k + 3 <= Len(buf)
          /\ k + 4 <= Len(buf)
        BY <1>1, <1>4 DEF HeaderLen
    <2>2. /\ At(k + 1 - 1) = Encode(e)[1] /\ At(k + 2 - 1) = Encode(e)[2]
          /\ At(k + 3 - 1) = Encode(e)[3] /\ At(k + 4 - 1) = Encode(e)[4]
        BY <1>5, <2>1
    <2>3. k + 1 - 1 = k /\ k + 2 - 1 = k + 1 /\ k + 3 - 1 = k + 2 /\ k + 4 - 1 = k + 3
        OBVIOUS
    <2> QED
        BY <2>2, <2>3
<1>7. At(k) = FrameMagic /\ At(k + 1) = e.type
    BY <1>2, <1>3, <1>6, FrameBytes
<1>8. PayloadLen(k) = Len(e.payload)
    BY <1>2, <1>3, <1>6, FrameBytes DEF PayloadLen
<1>9. FrameLen(k) = Len(Encode(e))
    BY <1>4, <1>8 DEF FrameLen, HeaderLen
<1>10. OutOfSync(k) <=> ~Framed(e)
    BY <1>3, <1>4, <1>7, <1>8, ConstantsAssumption DEF OutOfSync, Framed
<1>11. ASSUME NEW m \in 1..Len(e.payload), k + HeaderLen + m <= Len(buf)
       PROVE  At(k + HeaderLen + m - 1) = e.payload[m]
    <2>1. 4 + m \in Nat /\ 0 < 4 + m /\ 4 + m <= Len(Encode(e))
          /\ k + (4 + m) <= Len(buf)
        BY <1>1, <1>4, <1>11 DEF HeaderLen
    <2>2. At(k + (4 + m) - 1) = Encode(e)[4 + m]
        BY <1>5, <2>1
    <2>3. Encode(e)[4 + m] = e.payload[m]
        BY <1>2, <1>3, FrameBytes DEF HeaderLen
    <2>4. k + (4 + m) - 1 = k + 4 + m - 1
        OBVIOUS
    <2> QED
        BY <2>2, <2>3, <2>4 DEF HeaderLen
<1> QED
    BY <1>7, <1>8, <1>9, <1>10, <1>11 DEF e

\* An inert byte is not taken for the start of a frame.
LEMMA InertIsSkipped ==
    ASSUME TypeOK, Booked, Kept, pc # "idle",
           NEW k \in Nat, k + HeaderLen <= Len(buf),
           NEW i \in 0..Len(emitted), Before(i, Base + k),
           NEW m \in Nat, 0 < m, Base + k + 1 = ledger[i].end + m,
           Inert(Encode(emitted[i + 1]), m)
    PROVE  OutOfSync(k)
<1> DEFINE e == emitted[i + 1]
           p == Base + k
<1>1. k < Len(buf) /\ Len(buf) \in Nat /\ Base \in Nat
    BY StreamLength, LenProperties DEF TypeOK, HeaderLen
<1>2. /\ i < Len(emitted) /\ e \in Emittable
      /\ ledger[i].end \in Nat /\ ledger[i + 1].end \in Nat
      /\ p < ledger[i + 1].end
      /\ ledger[i + 1].end = ledger[i].end + Len(Encode(e))
    BY <1>1, PlaceInFrame
<1>3. Len(Encode(e)) \in Nat
    BY <1>2, FrameType
<1>4. m <= Len(Encode(e))
    <2>1. p + 1 = ledger[i].end + m /\ p < ledger[i].end + Len(Encode(e))
        BY <1>2
    <2>2. p \in Nat /\ ledger[i].end \in Nat
        BY <1>1, <1>2
    <2> HIDE DEF p, e
    <2> QED
        BY ONLY m \in Nat, <1>3, <2>1, <2>2
<1>5. \A d \in 0..3 : m + d <= Len(Encode(e)) => At(k + d) = Encode(e)[m + d]
    <2> TAKE d \in 0..3
    <2> HAVE m + d <= Len(Encode(e))
    <2>1. k + d \in Nat /\ k + d < Len(buf) /\ m + d \in Nat /\ 0 < m + d
        BY <1>1 DEF HeaderLen
    <2>2. Base + (k + d) + 1 = ledger[i].end + (m + d)
        <3>1. Base \in Nat /\ ledger[i].end \in Nat
            BY <1>1, <1>2
        <3>2. Base + k + 1 = ledger[i].end + m
            OBVIOUS
        <3>3. k \in Nat /\ m \in Nat /\ d \in Nat
            OBVIOUS
        <3> QED
            BY ONLY <3>1, <3>2, <3>3
    <2> QED
        BY <1>2, <2>1, <2>2, BufferByte
<1>6. CASE Encode(e)[m] # FrameMagic
    <2>1. At(k + 0) = Encode(e)[m + 0]
        BY <1>4, <1>5
    <2> QED
        BY <1>6, <2>1 DEF OutOfSync
<1>7. CASE /\ m + 3 <= Len(Encode(e))
           /\ Encode(e)[m + 2] + 256 * Encode(e)[m + 3] > MaxFramePayload
    <2>1. m + 2 <= Len(Encode(e))
        BY <1>3, <1>7
    <2>2. At(k + 2) = Encode(e)[m + 2] /\ At(k + 3) = Encode(e)[m + 3]
        BY <1>5, <1>7, <2>1
    <2> QED
        BY <1>7, <2>2 DEF OutOfSync, PayloadLen
<1> QED
    BY <1>6, <1>7 DEF Inert

---------------------------------------------------------------------------
(* Where the two loops go. *)

\* A place p in the n bytes from a on.
LEMMA Within ==
    ASSUME NEW a \in Nat, NEW n \in Nat, NEW p \in Nat, a <= p, p < a + n
    PROVE  /\ p - a + 1 \in Nat /\ 0 < p - a + 1 /\ p + 1 = a + (p - a + 1)
           /\ p - a + 1 \in 1..n
           /\ p - a + 1 = 1 <=> p = a
    OBVIOUS

\* Neither loop takes anything but a frame for a frame: a place that it accepts
\* is the first byte of one, unless it stands inside a frame that it knows.
LEMMA InSync ==
    ASSUME TypeOK, Booked, Kept, Unambiguous, pc # "idle",
           NEW k \in Nat, k + HeaderLen <= Len(buf), ~OutOfSync(k),
           NEW i \in 0..Len(emitted), DecodeAt(i, Base + k)
    PROVE  /\ i < Len(emitted) /\ i + 1 \in 1..Len(emitted) /\ i + 1 \in 0..Len(emitted)
           /\ emitted[i + 1] \in Emittable /\ Framed(emitted[i + 1])
           /\ Base + k = ledger[i].end
           /\ FrameLen(k) = Len(Encode(emitted[i + 1]))
           /\ Base + (k + FrameLen(k)) = ledger[i + 1].end
           /\ At(k + 1) = emitted[i + 1].type
           /\ PayloadLen(k) = Len(emitted[i + 1].payload)
           /\ \A m \in 1..Len(emitted[i + 1].payload) :
                 k + HeaderLen + m <= Len(buf) =>
                     At(k + HeaderLen + m - 1) = emitted[i + 1].payload[m]
<1> DEFINE e == emitted[i + 1]
           p == Base + k
<1>1. k < Len(buf) /\ Len(buf) \in Nat /\ Base \in Nat /\ Before(i, p)
    BY StreamLength, LenProperties DEF TypeOK, HeaderLen, DecodeAt
<1>2. /\ i < Len(emitted) /\ i + 1 \in 1..Len(emitted) /\ i + 1 \in 0..Len(emitted)
      /\ e \in Emittable
      /\ ledger[i].end \in Nat /\ ledger[i + 1].end \in Nat
      /\ ledger[i].end <= p
      /\ p < ledger[i + 1].end
      /\ ledger[i + 1].end = ledger[i].end + Len(Encode(e))
    BY <1>1, PlaceInFrame
<1>3. Len(Encode(e)) \in Nat
    BY <1>2, FrameType
<1> DEFINE m == p - ledger[i].end + 1
<1>4. /\ m \in Nat /\ 0 < m /\ p + 1 = ledger[i].end + m
      /\ m \in 1..Len(Encode(e))
      /\ m = 1 <=> p = ledger[i].end
    <2>1. p \in Nat /\ ledger[i].end \in Nat
        BY <1>1, <1>2
    <2>2. ledger[i].end <= p /\ p < ledger[i].end + Len(Encode(e))
        BY <1>2
    <2> HIDE DEF p, e
    <2> QED
        BY ONLY <1>3, <2>1, <2>2, Within, SMTT(30)
<1> HIDE DEF m
<1>5. ~Inert(Encode(e), m)
    BY <1>1, <1>4, InertIsSkipped
<1>6. Quiet(e) => m = 1 /\ Framed(e)
    BY <1>4, <1>5 DEF Quiet
<1>7. p = ledger[i].end
    <2>1. ASSUME p # ledger[i].end PROVE FALSE
        <3>1. ~Known(e)
            BY <2>1 DEF DecodeAt
        <3>2. Quiet(e)
            BY <3>1, <1>2 DEF Unambiguous
        <3> QED
            BY <1>4, <1>6, <3>2, <2>1
    <2> QED
        BY <2>1
<1>8. Framed(e)
    BY <1>2, <1>6 DEF Unambiguous, Known
<1>9. e.type # Noise
    BY <1>8 DEF Framed
<1>10. /\ FrameLen(k) = Len(Encode(e))
       /\ At(k + 1) = e.type
       /\ PayloadLen(k) = Len(e.payload)
       /\ \A j \in 1..Len(e.payload) :
             k + HeaderLen + j <= Len(buf) =>
                 At(k + HeaderLen + j - 1) = e.payload[j]
    BY <1>2, <1>7, <1>9, HeaderAt
<1>11. Base + (k + FrameLen(k)) = ledger[i + 1].end
    BY <1>1, <1>2, <1>3, <1>7, <1>10
<1> QED
    BY <1>2, <1>7, <1>8, <1>10, <1>11

\* A frame whose first byte is not accepted is not framed.
LEMMA NotAccepted ==
    ASSUME TypeOK, Booked, Kept, pc # "idle",
           NEW k \in Nat, k + HeaderLen <= Len(buf), OutOfSync(k),
           NEW i \in 0..Len(emitted), i < Len(emitted), Base + k = ledger[i].end
    PROVE  ~Framed(emitted[i + 1])
<1>1. CASE emitted[i + 1].type = Noise
    BY <1>1 DEF Framed
<1>2. CASE emitted[i + 1].type # Noise
    BY <1>2, HeaderAt
<1> QED
    BY <1>1, <1>2

\* One byte on, the place is in the same frame or at the end of it.
LEMMA OneByteOn ==
    ASSUME TypeOK, Booked, Kept, pc # "idle",
           NEW k \in Nat, k < Len(buf),
           NEW i \in 0..Len(emitted), Before(i, Base + k)
    PROVE  \/ Before(i, Base + (k + 1))
           \/ Before(i + 1, Base + (k + 1)) /\ Base + (k + 1) = ledger[i + 1].end
<1>1. /\ i < Len(emitted) /\ i + 1 \in 0..Len(emitted)
      /\ ledger[i].end \in Nat /\ ledger[i + 1].end \in Nat
      /\ ledger[i].end <= Base + k
      /\ Base + k < ledger[i + 1].end
    BY PlaceInFrame
<1>2. Base \in Nat /\ Len(emitted) \in Nat
    BY StreamLength, BooksType
<1>3. CASE Base + (k + 1) < ledger[i + 1].end
    BY <1>1, <1>2, <1>3 DEF Before
<1>4. CASE Base + (k + 1) = ledger[i + 1].end
    <2>1. ASSUME i + 1 < Len(emitted)
          PROVE  ledger[i + 1].end < ledger[(i + 1) + 1].end
        <3>1. (i + 1) + 1 \in 0..Len(emitted) /\ i + 1 < (i + 1) + 1
            BY <1>2, <2>1
        <3> QED
            BY <1>1, <3>1 DEF Booked
    <2> QED
        BY <1>1, <1>2, <1>4, <2>1 DEF Before
<1> QED
    BY <1>1, <1>2, <1>3, <1>4

\* The place behind frame i has i frames before it.
LEMMA FrameEnd ==
    ASSUME TypeOK, Booked, NEW i \in 0..Len(emitted)
    PROVE  Before(i, ledger[i].end)
<1>1. Len(emitted) \in Nat /\ ledger[i].end \in Nat
    BY BooksType
<1>2. ASSUME i < Len(emitted) PROVE ledger[i].end < ledger[i + 1].end
    <2>1. i + 1 \in 0..Len(emitted) /\ i < i + 1
        BY <1>1, <1>2
    <2> QED
        BY <2>1 DEF Booked
<1> QED
    BY <1>1, <1>2 DEF Before

LEMMA NotKnownNotDue == ASSUME NEW e, ~Known(e) PROVE ~Due(e)
    BY DEF Known, Due, Reportable, Counted

LEMMA NotFramedNotKnown == ASSUME NEW e, ~Framed(e) PROVE ~Known(e)
    BY DEF Known

\* A step of a loop leaves the bytes and the books alone.
LEMMA SameBytes ==
    ASSUME UNCHANGED <<stream, wire, carry, buf>>, pc # "idle", pc' # "idle",
           Booked, Still, Kept
    PROVE  Base' = Base /\ Taken' = Taken /\ Booked' /\ Still' /\ Kept'
<1>1. Held' = Held /\ Taken' = Taken
    BY DEF Held, Taken, stream
<1>2. Base' = Base
    BY <1>1 DEF Base
<1>3. Booked'
    BY DEF Booked, Before, stream
<1>4. Still'
    BY DEF Still, stream
<1>5. Kept'
    BY <1>1, <1>2 DEF Kept, stream
<1> QED
    BY <1>1, <1>2, <1>3, <1>4, <1>5

LEMMA ScanResyncStream ==
    ASSUME StreamInv, Unambiguous, ScanResync
    PROVE  StreamInv'
<1>0. TypeOK /\ Booked /\ Still /\ Kept /\ Scanned /\ Delivered /\ FreshScan
    BY DEF StreamInv, IInv
<1>1. /\ pc = "scan" /\ pc # "idle" /\ pc' = pc
      /\ complete' = complete + 1 /\ OutOfSync(complete)
      /\ UNCHANGED <<stream, wire, carry, buf, offset, errCount, reported>>
    BY DEF ScanResync, Scanning
<1>2. /\ complete \in Nat /\ Len(buf) \in Nat
      /\ complete + HeaderLen <= Len(buf) /\ complete < Len(buf)
    BY <1>0, LenProperties DEF ScanResync, Scanning, TypeOK, HeaderLen
<1>3. Base' = Base /\ Taken' = Taken /\ Booked' /\ Still' /\ Kept'
    BY <1>0, <1>1, SameBytes
<1>4. PICK i \in 0..Len(emitted) : ScanAt(i, Base + complete)
    BY <1>0 DEF Scanned
<1>5. Before(i, Base + complete)
    BY <1>4 DEF ScanAt
<1>6. i < Len(emitted) /\ i + 1 \in 0..Len(emitted)
    BY <1>0, <1>1, <1>2, <1>5, PlaceInFrame
<1>7. ~Framed(emitted[i + 1])
    <2>1. CASE Base + complete # ledger[i].end
        BY <1>4, <2>1 DEF ScanAt
    <2>2. CASE Base + complete = ledger[i].end
        BY <1>0, <1>1, <1>2, <1>6, <2>2, NotAccepted
    <2> QED
        BY <2>1, <2>2
<1>8. \E j \in 0..Len(emitted) : ScanAt(j, Base + (complete + 1))
    <2>1. CASE Before(i, Base + (complete + 1))
        BY <1>6, <1>7, <2>1 DEF ScanAt
    <2>2. CASE /\ Before(i + 1, Base + (complete + 1))
               /\ Base + (complete + 1) = ledger[i + 1].end
        BY <1>6, <2>2 DEF ScanAt
    <2> QED
        BY <1>0, <1>1, <1>2, <1>5, <2>1, <2>2, OneByteOn
<1>9. Scanned'
    BY <1>1, <1>3, <1>8 DEF Scanned, ScanAt, Before, stream
<1>10. Delivered'
    BY <1>0, <1>1, <1>3 DEF Delivered, DecodeAt, Before, stream
<1>11. IInv'
    BY ScanIInv DEF Scan, StreamInv
<1> QED
    BY <1>1, <1>3, <1>9, <1>10, <1>11 DEF StreamInv, NoneLeft

\* What the first loop knows when it accepts the bytes at complete.
LEMMA ScanInSync ==
    ASSUME StreamInv, Unambiguous, Scanning, ~OutOfSync(complete)
    PROVE  \E i \in 0..Len(emitted) :
              /\ i < Len(emitted) /\ i + 1 \in 0..Len(emitted)
              /\ Base + complete = ledger[i].end
              /\ Base + (complete + FrameLen(complete)) = ledger[i + 1].end
<1>0. TypeOK /\ Booked /\ Kept /\ Scanned /\ pc # "idle"
    BY DEF StreamInv, IInv, Scanning
<1>1. /\ complete \in Nat /\ complete + HeaderLen <= Len(buf)
    BY <1>0 DEF Scanning, TypeOK
<1>2. PICK i \in 0..Len(emitted) : ScanAt(i, Base + complete)
    BY <1>0 DEF Scanned
<1>3. DecodeAt(i, Base + complete)
    BY <1>2, NotFramedNotKnown DEF ScanAt, DecodeAt
<1> QED
    BY <1>0, <1>1, <1>3, InSync

LEMMA ScanFrameStream ==
    ASSUME StreamInv, Unambiguous, ScanFrame
    PROVE  StreamInv'
<1>0. TypeOK /\ Booked /\ Still /\ Kept /\ Scanned /\ Delivered
    BY DEF StreamInv, IInv
<1>1. /\ pc = "scan" /\ pc # "idle" /\ pc' = pc
      /\ complete' = complete + FrameLen(complete)
      /\ UNCHANGED <<stream, wire, carry, buf, offset, errCount, reported>>
    BY DEF ScanFrame, Scanning
<1>2. Base' = Base /\ Taken' = Taken /\ Booked' /\ Still' /\ Kept'
    BY <1>0, <1>1, SameBytes
<1>3. PICK i \in 0..Len(emitted) :
              /\ i + 1 \in 0..Len(emitted)
              /\ Base + (complete + FrameLen(complete)) = ledger[i + 1].end
    BY ScanInSync DEF ScanFrame
<1>4. ScanAt(i + 1, Base + (complete + FrameLen(complete)))
    BY <1>0, <1>3, FrameEnd DEF ScanAt
<1>5. Scanned'
    BY <1>1, <1>2, <1>3, <1>4 DEF Scanned, ScanAt, Before, stream
<1>6. Delivered'
    BY <1>0, <1>1, <1>2 DEF Delivered, DecodeAt, Before, stream
<1>7. IInv'
    BY ScanIInv DEF Scan, StreamInv
<1> QED
    BY <1>1, <1>2, <1>5, <1>6, <1>7 DEF StreamInv, NoneLeft

\* When the first loop stops, no frame is whole behind complete.
LEMMA ScanDoneStream ==
    ASSUME StreamInv, Unambiguous, ScanDone
    PROVE  StreamInv'
<1>0. TypeOK /\ Booked /\ Still /\ Kept /\ Scanned /\ Delivered
    BY DEF StreamInv, IInv
<1>1. /\ pc # "idle" /\ pc' # "idle"
      /\ UNCHANGED <<stream, wire, carry, buf, complete, offset, errCount, reported>>
    BY DEF ScanDone
<1>2. Base' = Base /\ Taken' = Taken /\ Booked' /\ Still' /\ Kept'
    BY <1>0, <1>1, SameBytes
<1>3. /\ complete \in Nat /\ Len(buf) \in Nat /\ Base \in Nat
      /\ Taken = Base + Len(buf) /\ Len(emitted) \in Nat
    BY <1>0, <1>1, StreamLength, LenProperties DEF TypeOK, Held
<1>4. ASSUME NEW i \in 1..Len(emitted),
             Base + complete <= ledger[i - 1].end, ledger[i].end <= Taken,
             Framed(emitted[i])
      PROVE  FALSE
    <2>1. /\ i - 1 \in 0..Len(emitted) /\ i \in 0..Len(emitted)
          /\ emitted[i] \in Emittable
        BY <1>0, <1>3, ElementOfSeq DEF TypeOK
    <2>2. /\ ledger[i - 1].end \in Nat /\ ledger[i].end \in Nat
          /\ ledger[i].end = ledger[i - 1].end + Len(Encode(emitted[i]))
        BY <1>0, <2>1, BooksType DEF Booked
    <2>3. Len(Encode(emitted[i])) \in Nat /\ Len(Encode(emitted[i])) >= HeaderLen
        BY <1>4, <2>1, FrameType DEF Framed, HeaderLen
    <2>4. CASE complete + HeaderLen > Len(buf)
        BY <1>3, <1>4, <2>2, <2>3, <2>4 DEF HeaderLen
    <2>5. CASE /\ Scanning /\ ~OutOfSync(complete)
               /\ complete + FrameLen(complete) > Len(buf)
        <3>1. PICK j \in 0..Len(emitted) :
                      /\ j < Len(emitted) /\ j + 1 \in 0..Len(emitted)
                      /\ Base + complete = ledger[j].end
                      /\ Base + (complete + FrameLen(complete)) = ledger[j + 1].end
            BY <2>5, ScanInSync
        <3>2. ASSUME i <= j PROVE FALSE
            <4>1. ledger[i].end <= ledger[j].end
                BY <1>0, <2>1, <3>2, Monotone
            <4>2. ledger[j].end \in Nat
                BY <1>0, BooksType
            <4>3. ledger[j].end <= ledger[i - 1].end
                BY <1>4, <3>1
            <4>4. ledger[i - 1].end < ledger[i].end
                BY <2>2, <2>3 DEF HeaderLen
            <4> QED
                BY <2>2, <4>1, <4>2, <4>3, <4>4
        <3>3. j + 1 <= i
            BY <1>3, <3>2
        <3>4. ledger[j + 1].end <= ledger[i].end
            BY <1>0, <2>1, <3>1, <3>3, Monotone
        <3>5. FrameLen(complete) \in Nat
            BY <1>0, <1>3, <2>5, FrameLenBounds DEF Scanning, TypeOK
        <3>6. ledger[j + 1].end > Taken
            BY <1>3, <2>5, <3>1, <3>5
        <3>7. ledger[j + 1].end <= Taken
            <4>1. ledger[j + 1].end \in Nat /\ Taken \in Nat
                BY <1>0, <1>3, <3>1, BooksType
            <4> QED
                BY <1>4, <2>2, <3>4, <4>1
        <3>8. ledger[j + 1].end \in Nat /\ Taken \in Nat
            BY <1>0, <1>3, <3>1, BooksType
        <3> QED
            BY <3>6, <3>7, <3>8
    <2> QED
        BY <2>4, <2>5 DEF ScanDone
<1>5. NoneLeft'
    BY <1>1, <1>2, <1>4 DEF NoneLeft, stream
<1>6. Scanned' /\ Delivered'
    BY <1>0, <1>1, <1>2 DEF Scanned, ScanAt, Delivered, DecodeAt, Before, stream
<1>7. IInv'
    BY ScanIInv DEF Scan, StreamInv
<1> QED
    BY <1>2, <1>5, <1>6, <1>7 DEF StreamInv

\* Frame i + 1 is the one at offset, and all before it are dealt with.
Reading(i) ==
    /\ i < Len(emitted) /\ i + 1 \in 0..Len(emitted)
    /\ emitted[i + 1] \in Emittable /\ Framed(emitted[i + 1])
    /\ reported = SubSeq(sent, 1, ledger[i].records)
    /\ errCount = ledger[i].errors
    /\ Base + (offset + FrameLen(offset)) = ledger[i + 1].end
    /\ At(offset + 1) = emitted[i + 1].type
    /\ PayloadLen(offset) = Len(emitted[i + 1].payload)
    /\ \A m \in 1..Len(emitted[i + 1].payload) :
          At(offset + HeaderLen + m - 1) = emitted[i + 1].payload[m]

\* The second loop recognises only frames of the stream.
LEMMA WholeFrameRead ==
    ASSUME StreamInv, Unambiguous, WholeFrame
    PROVE  \E i \in 0..Len(emitted) : Reading(i)
<1>0. TypeOK /\ Booked /\ Kept /\ Delivered
    BY DEF StreamInv, IInv
<1>1. /\ pc # "idle" /\ offset \in Nat /\ complete \in Nat /\ Len(buf) \in Nat
      /\ complete <= Len(buf)
      /\ offset + HeaderLen <= complete /\ ~OutOfSync(offset)
      /\ offset + FrameLen(offset) <= complete
    BY <1>0, LenProperties DEF WholeFrame, Decoding, TypeOK
<1>2. offset + HeaderLen <= Len(buf)
    BY <1>1 DEF HeaderLen
<1>3. PICK i \in 0..Len(emitted) :
              /\ DecodeAt(i, Base + offset)
              /\ reported = SubSeq(sent, 1, ledger[i].records)
              /\ errCount = ledger[i].errors
    BY <1>0 DEF Delivered
<1>4. /\ i < Len(emitted) /\ i + 1 \in 0..Len(emitted)
      /\ emitted[i + 1] \in Emittable /\ Framed(emitted[i + 1])
      /\ Base + (offset + FrameLen(offset)) = ledger[i + 1].end
      /\ At(offset + 1) = emitted[i + 1].type
      /\ PayloadLen(offset) = Len(emitted[i + 1].payload)
      /\ \A m \in 1..Len(emitted[i + 1].payload) :
            offset + HeaderLen + m <= Len(buf) =>
                At(offset + HeaderLen + m - 1) = emitted[i + 1].payload[m]
    BY <1>0, <1>1, <1>2, <1>3, InSync
<1>5. ASSUME NEW m \in 1..Len(emitted[i + 1].payload)
      PROVE  offset + HeaderLen + m <= Len(buf)
    <2>1. Len(emitted[i + 1].payload) \in Nat
        BY <1>4, FrameType
    <2>2. FrameLen(offset) = HeaderLen + Len(emitted[i + 1].payload)
        BY <1>4 DEF FrameLen
    <2> QED
        BY <1>1, <2>1, <2>2 DEF HeaderLen
<1>6. Reading(i)
    BY <1>3, <1>4, <1>5 DEF Reading
<1> QED
    BY <1>6

\* What frame i + 1 adds to the books.
LEMMA NextEntry ==
    ASSUME TypeOK, Booked, NEW i \in 0..Len(emitted), i < Len(emitted)
    PROVE  /\ ledger[i + 1].records = ledger[i].records
                 + (IF Reportable(emitted[i + 1]) THEN 1 ELSE 0)
           /\ ledger[i + 1].errors = ledger[i].errors
                 + (IF Counted(emitted[i + 1]) THEN 1 ELSE 0)
           /\ Reportable(emitted[i + 1]) =>
                 sent[ledger[i + 1].records] = emitted[i + 1].payload
<1>1. i + 1 \in 1..Len(emitted) /\ (i + 1) - 1 = i
    BY BooksType
<1> QED
    BY <1>1 DEF Booked

\* A decode step that leaves the buffer alone and keeps its place.
LEMMA DecodeKeeps ==
    ASSUME StreamInv, Decode, pc # "idle", pc' = pc,
           UNCHANGED <<stream, wire, carry, buf, complete>>,
           NEW j \in 0..Len(emitted),
           DecodeAt(j, Base + offset'),
           reported' = SubSeq(sent, 1, ledger[j].records),
           errCount' = ledger[j].errors
    PROVE  StreamInv'
<1>0. Booked /\ Still /\ Kept /\ Scanned /\ NoneLeft
    BY DEF StreamInv
<1>1. Base' = Base /\ Taken' = Taken /\ Booked' /\ Still' /\ Kept'
    BY <1>0, SameBytes
<1>2. Scanned' /\ NoneLeft'
    BY <1>0, <1>1 DEF Scanned, ScanAt, NoneLeft, Before, stream
<1>3. Delivered'
    BY <1>1 DEF Delivered, DecodeAt, Before, stream
<1>4. IInv'
    BY DecodeIInv DEF StreamInv
<1> QED
    BY <1>1, <1>2, <1>3, <1>4 DEF StreamInv

\* One byte on, out of sync or in a frame of an unknown type.
LEMMA DecodeByteStream ==
    ASSUME StreamInv, Unambiguous, DecodeResync \/ DecodeUnknown
    PROVE  StreamInv'
<1>0. TypeOK /\ Booked /\ Kept /\ Delivered
    BY DEF StreamInv, IInv
<1>1. /\ pc # "idle" /\ offset \in Nat /\ complete \in Nat /\ Len(buf) \in Nat
      /\ offset + HeaderLen <= Len(buf) /\ offset < Len(buf)
    BY <1>0, LenProperties
    DEF DecodeResync, DecodeUnknown, WholeFrame, Decoding, TypeOK, HeaderLen
<1>2. PICK i \in 0..Len(emitted) :
              /\ DecodeAt(i, Base + offset)
              /\ reported = SubSeq(sent, 1, ledger[i].records)
              /\ errCount = ledger[i].errors
    BY <1>0 DEF Delivered
<1>3. Before(i, Base + offset)
    BY <1>2 DEF DecodeAt
<1>4. i < Len(emitted) /\ i + 1 \in 0..Len(emitted)
    BY <1>0, <1>1, <1>3, PlaceInFrame
<1>5. ~Known(emitted[i + 1])
    <2>1. CASE Base + offset # ledger[i].end
        BY <1>2, <2>1 DEF DecodeAt
    <2>2. CASE Base + offset = ledger[i].end /\ OutOfSync(offset)
        BY <1>0, <1>1, <1>4, <2>2, NotAccepted, NotFramedNotKnown
    <2>3. CASE ~OutOfSync(offset)
        <3>1. At(offset + 1) = emitted[i + 1].type
            BY <1>0, <1>1, <1>2, <2>3, InSync
        <3>2. At(offset + 1) \notin {TypeStatus, TypeData}
            BY <2>3 DEF DecodeResync, DecodeUnknown
        <3> QED
            BY <3>1, <3>2 DEF Known
    <2> QED
        BY <2>1, <2>2, <2>3
<1>6. /\ offset' = offset + 1 /\ reported' = reported
      /\ pc' = pc /\ UNCHANGED <<stream, wire, carry, buf, complete>>
      /\ errCount' = errCount + 0
    BY DEF DecodeResync, DecodeUnknown, Skip
<1>7. errCount' = errCount
    BY <1>0, <1>6 DEF TypeOK
<1>8. Decode
    BY DEF Decode
<1>9. CASE Before(i, Base + (offset + 1))
    <2>1. DecodeAt(i, Base + (offset + 1))
        BY <1>4, <1>5, <1>9 DEF DecodeAt
    <2> QED
        BY <1>1, <1>2, <1>6, <1>7, <1>8, <2>1, DecodeKeeps
<1>10. CASE /\ Before(i + 1, Base + (offset + 1))
            /\ Base + (offset + 1) = ledger[i + 1].end
    <2>1. DecodeAt(i + 1, Base + (offset + 1))
        BY <1>10 DEF DecodeAt
    <2>2. ~Reportable(emitted[i + 1]) /\ ~Counted(emitted[i + 1])
        BY <1>5, NotKnownNotDue DEF Due
    <2>3. /\ ledger[i].records \in Nat /\ ledger[i].errors \in Nat
        BY <1>0, BooksType
    <2>4. /\ ledger[i + 1].records = ledger[i].records
          /\ ledger[i + 1].errors = ledger[i].errors
        BY <1>0, <1>4, <2>2, <2>3, NextEntry
    <2> QED
        BY <1>1, <1>2, <1>4, <1>6, <1>7, <1>8, <2>1, <2>4, DecodeKeeps
<1> QED
    BY <1>0, <1>1, <1>3, <1>9, <1>10, OneByteOn

\* A whole frame on, without a record.
LEMMA DecodeFrameStream ==
    ASSUME StreamInv, Decode, WholeFrame, NEW c, Skip(FrameLen(offset), c),
           NEW i \in 0..Len(emitted), Reading(i),
           ~Reportable(emitted[i + 1]),
           c = IF Counted(emitted[i + 1]) THEN 1 ELSE 0
    PROVE  StreamInv'
<1>0. TypeOK /\ Booked
    BY DEF StreamInv, IInv
<1>1. /\ offset' = offset + FrameLen(offset) /\ errCount' = errCount + c
      /\ reported' = reported /\ pc' = pc /\ pc # "idle"
      /\ UNCHANGED <<stream, wire, carry, buf, complete>>
    BY DEF Skip, WholeFrame, Decoding
<1>2. /\ i < Len(emitted) /\ i + 1 \in 0..Len(emitted)
      /\ Base + (offset + FrameLen(offset)) = ledger[i + 1].end
      /\ reported = SubSeq(sent, 1, ledger[i].records)
      /\ errCount = ledger[i].errors
    BY DEF Reading
<1>3. DecodeAt(i + 1, Base + offset')
    BY <1>0, <1>1, <1>2, FrameEnd DEF DecodeAt
<1>4. ledger[i].records \in Nat
    BY <1>0, BooksType
<1>5. /\ ledger[i + 1].records = ledger[i].records
      /\ ledger[i + 1].errors = errCount'
    BY <1>0, <1>1, <1>2, <1>4, NextEntry
<1>6. reported' = SubSeq(sent, 1, ledger[i + 1].records)
    BY <1>1, <1>2, <1>5
<1> QED
    BY <1>1, <1>2, <1>3, <1>5, <1>6, DecodeKeeps

\* The bytes that the decode loop tests are those of the frame.
LEMMA DataBytes ==
    ASSUME NEW i \in 0..Len(emitted), Reading(i), DataFrame, offset \in Nat
    PROVE  /\ emitted[i + 1].type = TypeData
           /\ Len(emitted[i + 1].payload) >= MinDataPayload
           /\ At(offset + HeaderLen + MarkerAt) = emitted[i + 1].payload[MarkerAt + 1]
           /\ At(offset + HeaderLen + ChannelAt) = emitted[i + 1].payload[ChannelAt + 1]
<1>1. /\ emitted[i + 1].type = TypeData
      /\ Len(emitted[i + 1].payload) >= MinDataPayload
      /\ Len(emitted[i + 1].payload) \in Nat
    BY FrameType DEF Reading, DataFrame
<1>2. /\ MarkerAt + 1 \in 1..Len(emitted[i + 1].payload)
      /\ ChannelAt + 1 \in 1..Len(emitted[i + 1].payload)
      /\ MarkerAt \in Nat /\ ChannelAt \in Nat
    BY <1>1, ConstantsAssumption
<1>3. /\ offset + HeaderLen + (MarkerAt + 1) - 1 = offset + HeaderLen + MarkerAt
      /\ offset + HeaderLen + (ChannelAt + 1) - 1 = offset + HeaderLen + ChannelAt
    BY <1>2 DEF HeaderLen
<1>4. /\ At(offset + HeaderLen + (MarkerAt + 1) - 1)
            = emitted[i + 1].payload[MarkerAt + 1]
      /\ At(offset + HeaderLen + (ChannelAt + 1) - 1)
            = emitted[i + 1].payload[ChannelAt + 1]
    BY <1>2 DEF Reading
<1> QED
    BY <1>1, <1>3, <1>4

\* A prefix of a sequence, and the next element.
LEMMA NextPrefix ==
    ASSUME NEW S, NEW s \in Seq(S), NEW n \in Nat, n + 1 <= Len(s)
    PROVE  SubSeq(s, 1, n + 1) = Append(SubSeq(s, 1, n), s[n + 1])
<1>1. Len(s) \in Nat /\ 1 \in 1..Len(s) /\ n + 1 \in 1..Len(s) /\ (n + 1) - 1 = n
    BY LenProperties
<1>2. SubSeq(s, 1, n + 1) = SubSeq(s, 1, (n + 1) - 1) \o <<s[n + 1]>>
    BY <1>1, SubSeqRecursiveSecond
<1>3. SubSeq(s, 1, n) \in Seq(S) /\ s[n + 1] \in S
    BY <1>1, Cut, ElementOfSeq
<1>4. Append(SubSeq(s, 1, n), s[n + 1]) = SubSeq(s, 1, n) \o <<s[n + 1]>>
    BY <1>3, AppendIsConcat
<1> QED
    BY <1>1, <1>2, <1>4

\* The elements of a prefix, and of what is left behind it.
LEMMA Part ==
    ASSUME NEW S, NEW s \in Seq(S), NEW n \in Nat, n <= Len(s)
    PROVE  /\ SubSeq(s, 1, n) \in Seq(S) /\ Len(SubSeq(s, 1, n)) = n
           /\ \A k \in 1..n : SubSeq(s, 1, n)[k] = s[k]
<1>1. Len(s) \in Nat /\ \A k \in 1..n : k \in 1..Len(s)
    BY LenProperties
<1>2. \A k \in 1..n : s[k] \in S
    BY <1>1, ElementOfSeq
<1>3. /\ SubSeq(s, 1, n) \in Seq(S)
      /\ Len(SubSeq(s, 1, n)) = IF 1 <= n THEN n - 1 + 1 ELSE 0
      /\ \A k \in 1..n - 1 + 1 : SubSeq(s, 1, n)[k] = s[1 + k - 1]
    BY <1>2, SubSeqProperties
<1>4. n - 1 + 1 = n /\ \A k \in 1..n : 1 + k - 1 = k
    OBVIOUS
<1>5. ~(1 <= n) => n = 0
    OBVIOUS
<1> QED
    BY <1>3, <1>4, <1>5

LEMMA Rest ==
    ASSUME NEW S, NEW s \in Seq(S), NEW n \in Nat, n <= Len(s)
    PROVE  /\ Len(SubSeq(s, n + 1, Len(s))) = Len(s) - n
           /\ \A k \in 1..(Len(s) - n) : SubSeq(s, n + 1, Len(s))[k] = s[n + k]
<1> DEFINE a == n + 1
           b == Len(s)
<1>1. b \in Nat /\ a \in Nat /\ \A k \in a..b : k \in 1..b
    BY LenProperties
<1>2. \A k \in a..b : s[k] \in S
    BY <1>1, ElementOfSeq
<1>3. /\ b - a + 1 = b - n /\ \A k \in 1..(b - n) : a + k - 1 = n + k
      /\ ~(a <= b) => b - n = 0
    BY <1>1
<1> HIDE DEF a, b
<1>4. /\ Len(SubSeq(s, a, b)) = IF a <= b THEN b - a + 1 ELSE 0
      /\ \A k \in 1..b - a + 1 : SubSeq(s, a, b)[k] = s[a + k - 1]
    BY <1>1, <1>2, SubSeqProperties
<1>5. /\ Len(SubSeq(s, a, b)) = b - n
      /\ \A k \in 1..(b - n) : SubSeq(s, a, b)[k] = s[n + k]
    BY <1>3, <1>4
<1> QED
    BY <1>5 DEF a, b

\* A prefix stays when an element is appended.
LEMMA PrefixOfAppend ==
    ASSUME NEW S, NEW s \in Seq(S), NEW x \in S, NEW n \in Nat, n <= Len(s)
    PROVE  SubSeq(Append(s, x), 1, n) = SubSeq(s, 1, n)
<1>1. /\ Append(s, x) \in Seq(S) /\ Len(Append(s, x)) = Len(s) + 1
      /\ \A k \in 1..Len(s) : Append(s, x)[k] = s[k]
      /\ Len(s) \in Nat
    BY AppendProperties, LenProperties
<1>2. n <= Len(Append(s, x)) /\ \A k \in 1..n : k \in 1..Len(s)
    BY <1>1
<1>3. /\ SubSeq(Append(s, x), 1, n) \in Seq(S) /\ Len(SubSeq(Append(s, x), 1, n)) = n
      /\ \A k \in 1..n : SubSeq(Append(s, x), 1, n)[k] = Append(s, x)[k]
    BY <1>1, <1>2, Part
<1>4. /\ SubSeq(s, 1, n) \in Seq(S) /\ Len(SubSeq(s, 1, n)) = n
      /\ \A k \in 1..n : SubSeq(s, 1, n)[k] = s[k]
    BY Part
<1> QED
    BY <1>1, <1>2, <1>3, <1>4, SeqEqual

LEMMA DecodeStatusStream ==
    ASSUME StreamInv, Unambiguous, DecodeStatus PROVE StreamInv'
<1>1. PICK i \in 0..Len(emitted) : Reading(i)
    BY WholeFrameRead DEF DecodeStatus
<1>2. emitted[i + 1].type = TypeStatus /\ Framed(emitted[i + 1])
    BY <1>1 DEF Reading, DecodeStatus
<1>3. ~Reportable(emitted[i + 1]) /\ Counted(emitted[i + 1])
    BY <1>2, ConstantsAssumption DEF Reportable, Counted
<1> QED
    BY <1>1, <1>3, DecodeFrameStream DEF DecodeStatus, Decode

LEMMA DecodeShortStream ==
    ASSUME StreamInv, Unambiguous, DecodeShort PROVE StreamInv'
<1>1. PICK i \in 0..Len(emitted) : Reading(i)
    BY WholeFrameRead DEF DecodeShort
<1>2. /\ emitted[i + 1].type = TypeData
      /\ Len(emitted[i + 1].payload) < MinDataPayload
      /\ Len(emitted[i + 1].payload) \in Nat
    BY <1>1, FrameType DEF Reading, DecodeShort
<1>3. ~Reportable(emitted[i + 1]) /\ ~Counted(emitted[i + 1])
    BY <1>2, ConstantsAssumption DEF Reportable, Counted
<1> QED
    BY <1>1, <1>3, DecodeFrameStream DEF DecodeShort, Decode

LEMMA DecodeMarkedStream ==
    ASSUME StreamInv, Unambiguous, DecodeMarked PROVE StreamInv'
<1>1. PICK i \in 0..Len(emitted) : Reading(i)
    BY WholeFrameRead DEF DecodeMarked, DataFrame
<1>2. offset \in Nat /\ DataFrame /\ ~MarkerClear
    BY LenProperties DEF DecodeMarked, StreamInv, IInv, TypeOK
<1>3. Framed(emitted[i + 1])
    BY <1>1 DEF Reading
<1>4. ~Reportable(emitted[i + 1]) /\ Counted(emitted[i + 1])
    BY <1>1, <1>2, <1>3, DataBytes DEF Reportable, Counted, MarkerClear
<1> QED
    BY <1>1, <1>4, DecodeFrameStream DEF DecodeMarked, DataFrame, Decode

LEMMA DecodeBadChannelStream ==
    ASSUME StreamInv, Unambiguous, DecodeBadChannel PROVE StreamInv'
<1>1. PICK i \in 0..Len(emitted) : Reading(i)
    BY WholeFrameRead DEF DecodeBadChannel, DataFrame
<1>2. offset \in Nat /\ DataFrame /\ MarkerClear /\ ~ChannelExists
    BY LenProperties DEF DecodeBadChannel, StreamInv, IInv, TypeOK
<1>3. ~Reportable(emitted[i + 1]) /\ ~Counted(emitted[i + 1])
    BY <1>1, <1>2, DataBytes, ConstantsAssumption
    DEF Reportable, Counted, MarkerClear, ChannelExists
<1> QED
    BY <1>1, <1>3, DecodeFrameStream DEF DecodeBadChannel, DataFrame, Decode

\* Where the payload of a frame at o lies.
LEMMA PayloadPlace ==
    ASSUME NEW o \in Nat, NEW n \in Nat, NEW c \in Nat, NEW l \in Nat, NEW f,
           f = HeaderLen + n, o + f <= c, c <= l
    PROVE  /\ o + HeaderLen + 1 \in Nat /\ o + f \in Nat
           /\ o + HeaderLen + 1 >= 1 /\ o + f <= l
           /\ (o + f) - (o + HeaderLen + 1) + 1 = n
           /\ o + HeaderLen + 1 <= o + f + 1
    BY DEF HeaderLen

\* The callback gets the next payload that is due to it.
LEMMA ReportNext ==
    ASSUME StreamInv, Unambiguous, DecodeReport
    PROVE  \E i \in 0..Len(emitted) :
              /\ Reading(i)
              /\ ledger[i + 1].records = ledger[i].records + 1
              /\ ledger[i + 1].records <= Len(sent)
              /\ ledger[i + 1].errors = errCount
              /\ Len(reported) = ledger[i].records
              /\ reported' = Append(reported, sent[ledger[i + 1].records])
              /\ reported' = SubSeq(sent, 1, ledger[i + 1].records)
<1>0. TypeOK /\ Booked
    BY DEF StreamInv, IInv
<1>1. PICK i \in 0..Len(emitted) : Reading(i)
    BY WholeFrameRead DEF DecodeReport, DataFrame
<1> DEFINE e == emitted[i + 1]
           record == SubSeq(buf, offset + HeaderLen + 1, offset + FrameLen(offset))
<1>2. /\ offset \in Nat /\ complete \in Nat /\ buf \in Seq(Byte)
      /\ Len(buf) \in Nat /\ complete <= Len(buf)
      /\ DataFrame /\ MarkerClear /\ ChannelExists
      /\ sent \in Seq(Seq(Byte)) /\ Len(sent) \in Nat
    BY <1>0, LenProperties DEF DecodeReport, TypeOK
<1>3. e \in Emittable /\ Framed(e) /\ i < Len(emitted) /\ i + 1 \in 0..Len(emitted)
    BY <1>1 DEF Reading
<1>4. Reportable(e) /\ ~Counted(e)
    BY <1>1, <1>2, <1>3, DataBytes, ConstantsAssumption
    DEF Reportable, Counted, MarkerClear, ChannelExists
<1>5. /\ ledger[i].records \in Nat /\ ledger[i].errors \in Nat
    BY <1>0, BooksType
<1>6. /\ ledger[i + 1].records = ledger[i].records + 1
      /\ ledger[i + 1].errors = errCount
      /\ sent[ledger[i + 1].records] = e.payload
    BY <1>0, <1>1, <1>3, <1>4, <1>5, NextEntry DEF Reading
<1>7. ledger[i + 1].records <= Len(sent)
    <2>1. Len(emitted) \in 0..Len(emitted) /\ i + 1 <= Len(emitted)
        BY <1>0, <1>3, BooksType
    <2> QED
        BY <1>0, <1>3, <2>1, Monotone DEF Booked
<1>8. record = e.payload
    <2>1. e.payload \in Seq(Byte) /\ Len(e.payload) \in Nat
        BY <1>3, FrameType
    <2>2. FrameLen(offset) = HeaderLen + Len(e.payload)
        BY <1>1 DEF Reading, FrameLen
    <2>3. offset + FrameLen(offset) <= complete
        BY DEF DecodeReport, DataFrame, WholeFrame
    <2> DEFINE a == offset + HeaderLen + 1
               b == offset + FrameLen(offset)
    <2>4. /\ a \in Nat /\ b \in Nat /\ a >= 1 /\ b <= Len(buf)
          /\ b - a + 1 = Len(e.payload) /\ a <= b + 1
        <3>1. /\ offset \in Nat /\ complete \in Nat /\ Len(buf) \in Nat
              /\ complete <= Len(buf)
            BY <1>2
        <3>2. Len(e.payload) \in Nat
            BY <2>1
        <3> HIDE DEF e
        <3> QED
            BY <2>2, <2>3, <3>1, <3>2, PayloadPlace
    <2> HIDE DEF a, b, e
    <2>5. \A m \in a..b : m \in 1..Len(buf)
        BY <1>2, <2>4
    <2>6. \A m \in a..b : buf[m] \in Byte
        BY <1>2, <2>5, ElementOfSeq
    <2>7. /\ SubSeq(buf, a, b) \in Seq(Byte)
          /\ Len(SubSeq(buf, a, b)) = IF a <= b THEN b - a + 1 ELSE 0
          /\ \A m \in 1..b - a + 1 : SubSeq(buf, a, b)[m] = buf[a + m - 1]
        BY <2>4, <2>6, SubSeqProperties
    <2>8. Len(SubSeq(buf, a, b)) = Len(e.payload)
        BY <2>1, <2>4, <2>7
    <2>9. ASSUME NEW m \in 1..Len(e.payload)
          PROVE  SubSeq(buf, a, b)[m] = e.payload[m]
        <3>1. SubSeq(buf, a, b)[m] = buf[a + m - 1]
            BY <2>4, <2>7, <2>9
        <3>2. At(offset + HeaderLen + m - 1) = e.payload[m]
            BY <1>1 DEF Reading, e
        <3>3. (offset + HeaderLen + m - 1) + 1 = a + m - 1
            BY <1>2, <2>1 DEF HeaderLen, a
        <3> QED
            BY <3>1, <3>2, <3>3 DEF At
    <2>10. SubSeq(buf, a, b) = e.payload
        BY <2>1, <2>7, <2>8, <2>9, SeqEqual
    <2> QED
        BY <2>10 DEF a, b
<1>9. reported' = Append(reported, e.payload)
    BY <1>8 DEF DecodeReport
<1>10. reported = SubSeq(sent, 1, ledger[i].records)
    BY <1>1 DEF Reading
<1>11. Len(reported) = ledger[i].records
    <2>1. ledger[i].records <= Len(sent)
        BY <1>2, <1>5, <1>6, <1>7
    <2> QED
        BY <1>2, <1>5, <1>10, <2>1, Part
<1>12. reported' = SubSeq(sent, 1, ledger[i + 1].records)
    BY <1>2, <1>5, <1>6, <1>7, <1>9, <1>10, NextPrefix
<1> QED
    BY <1>1, <1>6, <1>7, <1>9, <1>11, <1>12

LEMMA DecodeReportStream ==
    ASSUME StreamInv, Unambiguous, DecodeReport PROVE StreamInv'
<1>0. TypeOK /\ Booked
    BY DEF StreamInv, IInv
<1>1. PICK i \in 0..Len(emitted) :
              /\ Reading(i)
              /\ ledger[i + 1].errors = errCount
              /\ reported' = SubSeq(sent, 1, ledger[i + 1].records)
    BY ReportNext
<1>2. /\ offset' = offset + FrameLen(offset) /\ errCount' = errCount
      /\ pc' = pc /\ pc # "idle"
      /\ UNCHANGED <<stream, wire, carry, buf, complete>>
    BY DEF DecodeReport, DataFrame, WholeFrame, Decoding
<1>3. /\ i + 1 \in 0..Len(emitted)
      /\ Base + (offset + FrameLen(offset)) = ledger[i + 1].end
    BY <1>1 DEF Reading
<1>4. DecodeAt(i + 1, Base + offset')
    BY <1>0, <1>2, <1>3, FrameEnd DEF DecodeAt
<1>5. Decode
    BY DEF Decode
<1> QED
    BY <1>1, <1>2, <1>3, <1>4, <1>5, DecodeKeeps

---------------------------------------------------------------------------
(* What is between two places. *)

\* Neither loop's place leaves a frame that is due behind it unread: if every
\* frame from place p to place q is not framed, the books at q are those at p.
LEMMA NothingBetween ==
    ASSUME TypeOK, Booked, Still,
           NEW p \in Int, NEW q \in Int, p <= q,
           NEW i \in 0..Len(emitted), DecodeAt(i, p),
           NEW j \in 0..Len(emitted), Before(j, q),
           \A k \in 1..Len(emitted) :
               p <= ledger[k - 1].end /\ ledger[k].end <= q => ~Framed(emitted[k])
    PROVE  /\ ledger[i].records = ledger[j].records
           /\ ledger[i].errors = ledger[j].errors
<1>1. Len(emitted) \in Nat /\ i <= j
    BY BooksType, LaterPlace DEF DecodeAt
<1>2. ASSUME NEW k \in (i + 1)..j PROVE ~Due(emitted[k])
    <2>1. /\ k \in 1..Len(emitted) /\ k \in 0..Len(emitted)
          /\ k - 1 \in 0..Len(emitted) /\ k <= j /\ i <= k - 1
          /\ i < Len(emitted) /\ i + 1 \in 0..Len(emitted)
        BY <1>1
    <2>2. /\ ledger[i].end \in Nat /\ ledger[i + 1].end \in Nat
          /\ ledger[k].end \in Nat /\ ledger[k - 1].end \in Nat
          /\ ledger[j].end \in Nat
        BY <2>1, BooksType
    <2>3. ledger[k].end <= q
        <3>1. ledger[k].end <= ledger[j].end
            BY <2>1, Monotone
        <3> QED
            BY <2>2, <3>1 DEF Before
    <2>4. CASE p = ledger[i].end
        <3>1. p <= ledger[k - 1].end
            BY <2>1, <2>4, Monotone
        <3> QED
            BY <2>1, <2>3, <3>1, NotFramedNotKnown, NotKnownNotDue
    <2>5. CASE p # ledger[i].end /\ k = i + 1
        BY <2>5, NotKnownNotDue DEF DecodeAt
    <2>6. CASE k # i + 1
        <3>1. i + 1 <= k - 1
            BY <1>1, <2>6
        <3>2. ledger[i + 1].end <= ledger[k - 1].end
            BY <2>1, <3>1, Monotone
        <3>3. p < ledger[i + 1].end
            BY <2>1 DEF DecodeAt, Before
        <3>4. p <= ledger[k - 1].end
            BY <2>2, <3>2, <3>3
        <3> QED
            BY <2>1, <2>3, <3>4, NotFramedNotKnown, NotKnownNotDue
    <2> QED
        BY <2>4, <2>5, <2>6
<1> QED
    BY <1>1, <1>2 DEF Still

LEMMA Room ==
    ASSUME NEW p \in Nat, NEW a \in Nat, NEW b \in Nat, NEW q \in Nat,
           p <= a, a + 4 <= b, b <= q
    PROVE  p + 4 <= q
    OBVIOUS

\* When the second loop ends, all that is due before complete was reported.
LEMMA DecodeComplete ==
    ASSUME StreamInv, Unambiguous, DecodeEnds
    PROVE  \E j \in 0..Len(emitted) :
              /\ ScanAt(j, Base + complete)
              /\ reported = SubSeq(sent, 1, ledger[j].records)
              /\ errCount = ledger[j].errors
<1>0. TypeOK /\ Booked /\ Still /\ Kept /\ Scanned /\ Delivered
    BY DEF StreamInv, IInv
<1>1. /\ pc # "idle" /\ offset \in Nat /\ complete \in Nat /\ Len(buf) \in Nat
      /\ complete <= Len(buf) /\ offset <= complete
      /\ Base \in Nat /\ Len(emitted) \in Nat
    BY <1>0, StreamLength, LenProperties DEF DecodeEnds, TypeOK
<1>2. PICK i \in 0..Len(emitted) :
              /\ DecodeAt(i, Base + offset)
              /\ reported = SubSeq(sent, 1, ledger[i].records)
              /\ errCount = ledger[i].errors
    BY <1>0 DEF Delivered
<1>3. PICK j \in 0..Len(emitted) : ScanAt(j, Base + complete)
    BY <1>0 DEF Scanned
<1>4. Before(i, Base + offset) /\ Before(j, Base + complete)
    BY <1>2, <1>3 DEF DecodeAt, ScanAt
<1>5. Base + offset \in Int /\ Base + complete \in Int
      /\ Base + offset <= Base + complete
    BY <1>1
<1>6. /\ ledger[i].records = ledger[j].records
      /\ ledger[i].errors = ledger[j].errors
    <2>1. CASE offset + HeaderLen > complete
        <3>1. ASSUME NEW k \in 1..Len(emitted),
                     Base + offset <= ledger[k - 1].end,
                     ledger[k].end <= Base + complete,
                     Framed(emitted[k])
              PROVE  FALSE
            <4>1. /\ k - 1 \in 0..Len(emitted) /\ k \in 0..Len(emitted)
                  /\ emitted[k] \in Emittable
                BY <1>0, <1>1, ElementOfSeq DEF TypeOK
            <4>2. /\ ledger[k - 1].end \in Nat /\ ledger[k].end \in Nat
                  /\ ledger[k].end = ledger[k - 1].end + Len(Encode(emitted[k]))
                BY <1>0, <4>1, BooksType DEF Booked
            <4>3. /\ Len(Encode(emitted[k])) \in Nat
                  /\ Len(Encode(emitted[k])) >= HeaderLen
                BY <3>1, <4>1, FrameType DEF Framed, HeaderLen
            <4>4. ledger[k - 1].end + 4 <= ledger[k].end
                BY <4>2, <4>3 DEF HeaderLen
            <4>5. (Base + offset) + 4 <= Base + complete
                <5>1. Base + offset \in Nat /\ Base + complete \in Nat
                    BY <1>1
                <5>2. Base + offset <= ledger[k - 1].end /\ ledger[k].end <= Base + complete
                    BY <3>1
                <5> QED
                    BY <4>2, <4>4, <5>1, <5>2, Room, Zenon
            <4> QED
                BY <1>1, <2>1, <4>5 DEF HeaderLen
        <3> QED
            BY <1>0, <1>2, <1>4, <1>5, <3>1, NothingBetween
    <2>2. CASE /\ Decoding /\ ~OutOfSync(offset)
               /\ offset + FrameLen(offset) > complete
        <3>1. offset + HeaderLen <= Len(buf)
            BY <1>1, <2>2 DEF Decoding, HeaderLen
        <3>2. /\ i < Len(emitted) /\ i + 1 \in 0..Len(emitted)
              /\ Base + (offset + FrameLen(offset)) = ledger[i + 1].end
            BY <1>0, <1>1, <1>2, <2>2, <3>1, InSync
        <3>3. FrameLen(offset) \in Nat
            BY <1>0, <1>1, <3>1, FrameLenBounds DEF TypeOK
        <3>4. Base + complete < ledger[i + 1].end
            BY <1>1, <2>2, <3>2, <3>3
        <3>5. ledger[i].end <= Base + complete
            <4>1. ledger[i].end <= Base + offset /\ ledger[i].end \in Nat
                BY <1>0, <1>4, BooksType DEF Before
            <4> QED
                BY <1>1, <4>1
        <3>6. Before(i, Base + complete)
            BY <3>4, <3>5 DEF Before
        <3>7. j <= i /\ i <= j
            BY <1>0, <1>4, <1>5, <3>6, LaterPlace
        <3>8. i = j
            BY <3>7, <1>1
        <3> QED
            BY <3>8
    <2> QED
        BY <2>1, <2>2 DEF DecodeEnds
<1> QED
    BY <1>2, <1>3, <1>6

\* The trailing bytes begin where the first loop stopped.
LEMMA ReturnStream ==
    ASSUME StreamInv, Unambiguous, Return
    PROVE  StreamInv'
<1>0. TypeOK /\ Booked /\ Still /\ Kept /\ NoneLeft /\ CarryFits
    BY DEF StreamInv, IInv
<1>1. /\ pc = "decode" /\ pc' = "idle" /\ complete' = 0 /\ offset' = 0
      /\ UNCHANGED <<stream, wire, errCount, reported>>
    BY DEF Return, DecodeEnds
<1>2. /\ complete \in Nat /\ Len(buf) \in Nat /\ complete <= Len(buf)
      /\ buf \in Seq(Byte) /\ Base \in Nat /\ Taken = Base + Len(buf)
    BY <1>0, <1>1, StreamLength, LenProperties DEF TypeOK, Held
<1>3. Fits
    BY <1>0, <1>1, <1>2, ConstantsAssumption
    DEF Fits, CarryFits, Trailing, CarryCapacity, HeaderLen
<1>4. carry' = TrailingBytes
    BY <1>3 DEF Return
<1>5. /\ Len(TrailingBytes) = Len(buf) - complete
      /\ \A k \in 1..(Len(buf) - complete) : TrailingBytes[k] = buf[complete + k]
    <2>1. \A k \in (complete + 1)..Len(buf) : buf[k] \in Byte
        BY <1>2, ElementOfSeq
    <2> DEFINE a == complete + 1
    <2>2. /\ Len(SubSeq(buf, a, Len(buf))) = IF a <= Len(buf) THEN Len(buf) - a + 1 ELSE 0
          /\ \A k \in 1..Len(buf) - a + 1 : SubSeq(buf, a, Len(buf))[k] = buf[a + k - 1]
        BY <1>2, <2>1, SubSeqProperties
    <2>3. Len(buf) - a + 1 = Len(buf) - complete
        BY <1>2
    <2>4. \A k \in 1..(Len(buf) - complete) : a + k - 1 = complete + k
        BY <1>2
    <2>5. a <= Len(buf) \/ Len(buf) - complete = 0
        BY <1>2
    <2>6. ~(a <= Len(buf)) => Len(buf) - complete = 0
        BY <1>2
    <2> HIDE DEF a
    <2> QED
        BY <2>2, <2>3, <2>4, <2>6 DEF TrailingBytes, a
<1>6. Held' = TrailingBytes /\ Taken' = Taken
    BY <1>1, <1>4 DEF Held, Taken, stream
<1>7. Base' = Base + complete
    <2>1. Base' = Taken - Len(TrailingBytes)
        BY <1>6 DEF Base
    <2>2. Base' = (Base + Len(buf)) - (Len(buf) - complete)
        BY <1>2, <1>5, <2>1
    <2>3. Base \in Nat /\ Len(buf) \in Nat /\ complete \in Nat
        BY <1>2
    <2> QED
        BY ONLY <2>2, <2>3
<1>8. Booked' /\ Still'
    BY <1>0, <1>1 DEF Booked, Still, Before, stream
<1>9. Kept'
    <2>1. Base' \in Nat
        BY <1>2, <1>7
    <2>2. ASSUME NEW k \in 1..Len(Held')
          PROVE  Held'[k] = Octet(emitted, ledger, Base' + k)
        <3>1. k \in 1..(Len(buf) - complete) /\ complete + k \in 1..Len(buf)
            BY <1>2, <1>5, <1>6
        <3>2. Held'[k] = buf[complete + k]
            BY <1>5, <1>6, <3>1
        <3>3. buf[complete + k] = Octet(emitted, ledger, Base + (complete + k))
            BY <1>0, <1>1, <3>1 DEF Kept, Held
        <3>4. Base + (complete + k) = Base' + k
            BY <1>2, <1>7
        <3> QED
            BY <3>2, <3>3, <3>4
    <2>3. \A k \in 1..Len(wire) : wire[k] = Octet(emitted, ledger, Taken + k)
        BY <1>0 DEF Kept
    <2> QED
        BY <1>1, <1>6, <2>1, <2>2, <2>3 DEF Kept, stream
<1>10. PICK j \in 0..Len(emitted) :
              /\ ScanAt(j, Base + complete)
              /\ reported = SubSeq(sent, 1, ledger[j].records)
              /\ errCount = ledger[j].errors
    BY DecodeComplete DEF Return
<1>11. /\ Base' + complete' = Base + complete /\ Base' + offset' = Base + complete
    BY <1>1, <1>2, <1>7
<1>12. DecodeAt(j, Base + complete)
    BY <1>10, NotFramedNotKnown DEF ScanAt, DecodeAt
<1>13. Scanned' /\ Delivered'
    BY <1>1, <1>10, <1>11, <1>12
    DEF Scanned, ScanAt, Delivered, DecodeAt, Before, stream
<1>14. NoneLeft'
    BY <1>0, <1>1, <1>6, <1>11 DEF NoneLeft, stream
<1>15. IInv'
    BY ReturnIInv DEF StreamInv
<1> QED
    BY <1>8, <1>9, <1>13, <1>14, <1>15 DEF StreamInv

---------------------------------------------------------------------------
(* Between calls. *)

\* One more frame in the books.
LEMMA EmitBooks ==
    ASSUME TypeOK, NEW e \in Emittable,
           emitted' = Append(emitted, e), Remember(e)
    PROVE  /\ Len(emitted') = Len(emitted) + 1
           /\ \A i \in 1..Len(emitted) : emitted'[i] = emitted[i]
           /\ emitted'[Len(emitted) + 1] = e
           /\ \A i \in 0..Len(emitted) : ledger'[i] = ledger[i]
           /\ ledger'[Len(emitted) + 1].end
                 = ledger[Len(emitted)].end + Len(Encode(e))
           /\ ledger'[Len(emitted) + 1].records
                 = ledger[Len(emitted)].records + (IF Reportable(e) THEN 1 ELSE 0)
           /\ ledger'[Len(emitted) + 1].errors
                 = ledger[Len(emitted)].errors + (IF Counted(e) THEN 1 ELSE 0)
<1> DEFINE n == Len(emitted)
           entry == [end |-> ledger[n].end + Len(Encode(e)),
                     records |-> ledger[n].records + (IF Reportable(e) THEN 1 ELSE 0),
                     errors |-> ledger[n].errors + (IF Counted(e) THEN 1 ELSE 0)]
<1>1. n \in Nat
    BY BooksType
<1>2. /\ Len(emitted') = n + 1
      /\ \A i \in 1..n : emitted'[i] = emitted[i]
      /\ emitted'[n + 1] = e
    BY AppendProperties DEF TypeOK
<1>3. ledger' = [i \in 0..(n + 1) |-> IF i <= n THEN ledger[i] ELSE entry]
    BY DEF Remember
<1> HIDE DEF entry
<1>4. ledger'[n + 1] = entry
    <2>1. n + 1 \in 0..(n + 1) /\ ~(n + 1 <= n)
        BY <1>1
    <2> QED
        BY <1>3, <2>1
<1>5. \A i \in 0..n : ledger'[i] = ledger[i]
    <2>1. \A i \in 0..n : i \in 0..(n + 1) /\ i <= n
        BY <1>1
    <2> QED
        BY <1>3, <2>1
<1> QED
    BY <1>2, <1>4, <1>5 DEF entry

LEMMA EmitBooked ==
    ASSUME TypeOK, Booked, Still, NEW e \in Emittable,
           emitted' = Append(emitted, e), Remember(e)
    PROVE  Booked' /\ Still'
<1> DEFINE n == Len(emitted)
<1>1. /\ n \in Nat /\ n \in 0..n
      /\ Len(emitted') = n + 1
      /\ \A i \in 1..n : emitted'[i] = emitted[i]
      /\ emitted'[n + 1] = e
      /\ \A i \in 0..n : ledger'[i] = ledger[i]
      /\ ledger'[n + 1].end = ledger[n].end + Len(Encode(e))
      /\ ledger'[n + 1].records = ledger[n].records + (IF Reportable(e) THEN 1 ELSE 0)
      /\ ledger'[n + 1].errors = ledger[n].errors + (IF Counted(e) THEN 1 ELSE 0)
    BY BooksType, EmitBooks
<1>2. /\ Len(Encode(e)) \in Nat /\ Len(Encode(e)) > 0
      /\ e.payload \in Seq(Byte)
    BY FrameType
<1>3. \A i \in 0..n : /\ ledger[i].end \in Nat /\ ledger[i].records \in Nat
                      /\ ledger[i].errors \in Nat
                      /\ ledger[i].end <= ledger[n].end
                      /\ ledger[i].records <= ledger[n].records
    BY <1>1, BooksType, Monotone
<1>4. /\ ledger[n].end \in Nat /\ ledger[n].records \in Nat
      /\ ledger[n].records = Len(sent)
    BY <1>1, <1>3 DEF Booked
<1>5. /\ ledger'[n + 1].end \in Nat /\ ledger[n].end < ledger'[n + 1].end
       /\ ledger'[n + 1].records \in Nat
       /\ ledger[n].records <= ledger'[n + 1].records
    BY <1>1, <1>2, <1>4
<1>6. /\ sent' = IF Reportable(e) THEN Append(sent, e.payload) ELSE sent
      /\ sent \in Seq(Seq(Byte))
    BY DEF Remember, TypeOK
<1>7. /\ Reportable(e) => /\ Len(sent') = Len(sent) + 1
                          /\ sent'[Len(sent) + 1] = e.payload
      /\ ~Reportable(e) => Len(sent') = Len(sent)
      /\ \A r \in 1..Len(sent) : sent'[r] = sent[r]
    BY <1>2, <1>6, AppendProperties
<1>8. ledger'[0] = [end |-> 0, records |-> 0, errors |-> 0]
    <2>1. 0 \in 0..n
        BY <1>1
    <2> QED
        BY <1>1, <2>1 DEF Booked
<1>9. ledger'[n + 1].records = Len(sent')
    BY <1>1, <1>4, <1>7
<1>10. ASSUME NEW i \in 1..(n + 1)
      PROVE  /\ ledger'[i].end = ledger'[i - 1].end + Len(Encode(emitted'[i]))
             /\ ledger'[i].records = ledger'[i - 1].records
                                       + (IF Reportable(emitted'[i]) THEN 1 ELSE 0)
             /\ ledger'[i].errors = ledger'[i - 1].errors
                                       + (IF Counted(emitted'[i]) THEN 1 ELSE 0)
             /\ Reportable(emitted'[i]) => sent'[ledger'[i].records] = emitted'[i].payload
    <2>1. CASE i = n + 1
        <3>1. (n + 1) - 1 = n
            BY <1>1
        <3> QED
            BY <1>1, <1>4, <1>7, <2>1, <3>1
    <2>2. CASE i # n + 1
        <3>1. i \in 1..n /\ i \in 0..n /\ i - 1 \in 0..n
            BY <1>1, <2>2
        <3>2. /\ ledger'[i] = ledger[i] /\ ledger'[i - 1] = ledger[i - 1]
              /\ emitted'[i] = emitted[i]
            BY <1>1, <3>1
        <3>3. /\ ledger[i].end = ledger[i - 1].end + Len(Encode(emitted[i]))
              /\ ledger[i].records = ledger[i - 1].records
                                       + (IF Reportable(emitted[i]) THEN 1 ELSE 0)
              /\ ledger[i].errors = ledger[i - 1].errors
                                       + (IF Counted(emitted[i]) THEN 1 ELSE 0)
              /\ Reportable(emitted[i]) => sent[ledger[i].records] = emitted[i].payload
            BY <3>1 DEF Booked
        <3>4. Reportable(emitted[i]) => ledger[i].records \in 1..Len(sent)
            <4>1. /\ ledger[i].records \in Nat /\ ledger[i - 1].records \in Nat
                  /\ ledger[i].records <= Len(sent)
                BY <1>3, <1>4, <3>1
            <4> QED
                BY <3>3, <4>1
        <3> QED
            BY <1>7, <3>2, <3>3, <3>4
    <2> QED
        BY <2>1, <2>2
<1>11. ASSUME NEW i \in 0..(n + 1), NEW j \in 0..(n + 1), i < j
       PROVE  /\ ledger'[i].end < ledger'[j].end
              /\ ledger'[i].records <= ledger'[j].records
    <2>1. i \in 0..n
        BY <1>1, <1>11
    <2>2. CASE j = n + 1
        <3>1. /\ ledger'[i] = ledger[i]
              /\ ledger[i].end \in Nat /\ ledger[i].end <= ledger[n].end
              /\ ledger[i].records \in Nat /\ ledger[i].records <= ledger[n].records
            BY <1>1, <1>3, <2>1
        <3>2. /\ ledger[n].end < ledger'[j].end /\ ledger[n].records <= ledger'[j].records
              /\ ledger'[j].end \in Nat /\ ledger'[j].records \in Nat
            BY <1>5, <2>2
        <3>3. ledger'[i].end < ledger'[j].end
            BY ONLY <1>4, <3>1, <3>2, SMTT(30)
        <3>4. ledger'[i].records <= ledger'[j].records
            BY ONLY <1>4, <3>1, <3>2, SMTT(30)
        <3> QED
            BY <3>3, <3>4
    <2>3. CASE j # n + 1
        <3>1. j \in 0..n
            BY <1>1, <2>3
        <3> QED
            BY <1>1, <1>11, <2>1, <3>1 DEF Booked
    <2> QED
        BY <2>2, <2>3
<1>12. ASSUME NEW p \in 0..ledger'[n + 1].end
       PROVE  \E i \in 0..(n + 1) :
                 /\ ledger'[i].end <= p
                 /\ i < n + 1 => p < ledger'[i + 1].end
    <2>0. p \in Nat /\ n + 1 \in 0..(n + 1) /\ n \in 0..(n + 1) /\ n < n + 1
        BY <1>1, <1>2, <1>4
    <2>1. CASE p = ledger'[n + 1].end
        BY <1>1, <2>0, <2>1
    <2>2. CASE ledger[n].end <= p /\ p < ledger'[n + 1].end
        BY <1>1, <2>0, <2>2
    <2>3. CASE p < ledger[n].end
        <3>1. p \in 0..ledger[n].end
            BY <1>4, <2>0, <2>3
        <3>2. PICK i \in 0..n : Before(i, p)
            BY <3>1 DEF Booked
        <3>3. i # n
            BY <1>4, <2>0, <2>3, <3>2 DEF Before
        <3>4. i + 1 \in 0..n /\ i < n /\ i \in 0..(n + 1)
            BY <1>1, <3>3
        <3> QED
            BY <1>1, <3>2, <3>4 DEF Before
    <2> QED
        BY <1>4, <1>5, <2>0, <2>1, <2>2, <2>3
<1>13. Booked'
    BY <1>1, <1>8, <1>9, <1>10, <1>11, <1>12 DEF Booked, Before
<1>14. ASSUME NEW i \in 0..(n + 1), NEW j \in 0..(n + 1), i <= j,
              \A k \in (i + 1)..j : ~Due(emitted'[k])
       PROVE  /\ ledger'[i].records = ledger'[j].records
              /\ ledger'[i].errors = ledger'[j].errors
    <2>1. CASE i = j
        BY <2>1
    <2>2. CASE i # j /\ j \in 0..n
        <3>1. i \in 0..n
            BY <1>1, <1>14, <2>2
        <3>2. \A k \in (i + 1)..j : k \in 1..n
            BY <1>1, <2>2, <3>1
        <3>3. \A k \in (i + 1)..j : ~Due(emitted[k])
            BY <1>1, <1>14, <3>2
        <3>4. /\ ledger[i].records = ledger[j].records
              /\ ledger[i].errors = ledger[j].errors
            BY <1>14, <2>2, <3>1, <3>3 DEF Still
        <3>5. ledger'[i] = ledger[i] /\ ledger'[j] = ledger[j]
            BY <1>1, <2>2, <3>1
        <3> QED
            BY <3>4, <3>5
    <2>3. CASE i # j /\ j = n + 1
        <3>1. i \in 0..n /\ i <= n /\ n + 1 \in (i + 1)..j
              /\ \A k \in (i + 1)..n : k \in 1..n /\ k \in (i + 1)..j
            BY <1>1, <1>14, <2>3
        <3>2. ~Due(e)
            BY <1>1, <1>14, <3>1
        <3>3. \A k \in (i + 1)..n : ~Due(emitted[k])
            BY <1>1, <1>14, <3>1
        <3>4. /\ ledger[i].records = ledger[n].records
              /\ ledger[i].errors = ledger[n].errors
            BY <1>1, <3>1, <3>3 DEF Still
        <3>5. ledger[n].errors \in Nat
            BY <1>1, <1>3
        <3> QED
            BY <1>1, <1>4, <2>3, <3>1, <3>2, <3>4, <3>5 DEF Due
    <2>4. j \in 0..n \/ j = n + 1
        BY <1>1
    <2> QED
        BY <2>1, <2>2, <2>3, <2>4
<1>15. Still'
    BY <1>1, <1>14 DEF Still
<1> QED
    BY <1>13, <1>15

LEMMA Offset ==
    ASSUME NEW a \in Nat, NEW b \in Nat, NEW p \in Nat, a <= p - 1, p - 1 < b
    PROVE  /\ p - a \in Nat /\ 0 < p - a /\ a + (p - a) = p
           /\ a + (p - a) <= b
    OBVIOUS

\* What was in the stream stays where it was.
LEMMA EmitOctet ==
    ASSUME TypeOK, Booked, Still, NEW e \in Emittable,
           emitted' = Append(emitted, e), Remember(e),
           NEW p \in Nat, 0 < p, p <= ledger[Len(emitted)].end
    PROVE  Octet(emitted', ledger', p) = Octet(emitted, ledger, p)
<1> DEFINE n == Len(emitted)
<1>1. /\ n \in Nat /\ n \in 0..n
      /\ Len(emitted') = n + 1
      /\ \A i \in 1..n : emitted'[i] = emitted[i]
      /\ \A i \in 0..n : ledger'[i] = ledger[i]
    BY BooksType, EmitBooks
<1>2. /\ emitted \in Seq(Emittable) /\ emitted' \in Seq(Emittable)
      /\ ledger \in [0..Len(emitted) -> [end : Nat, records : Nat, errors : Nat]]
      /\ ledger' \in [0..Len(emitted') -> [end : Nat, records : Nat, errors : Nat]]
    BY RememberType, AppendProperties DEF TypeOK
<1>3. /\ \A i, j \in 0..Len(emitted) : i < j => ledger[i].end < ledger[j].end
      /\ \A i, j \in 0..Len(emitted') : i < j => ledger'[i].end < ledger'[j].end
    BY EmitBooked DEF Booked
<1>4. ledger[n].end \in Nat
    BY <1>1, BooksType
<1>5. PICK j \in 0..n : Before(j, p - 1)
    <2>1. p - 1 \in 0..ledger[n].end
        BY <1>4
    <2> QED
        BY <2>1 DEF Booked
<1>6. j # n
    BY <1>4, <1>5 DEF Before
<1>7. j + 1 \in 1..n /\ j < n /\ j + 1 \in 0..n /\ (j + 1) - 1 = j /\ j + 1 \in 1..(n + 1)
    BY <1>1, <1>6
<1>8. ledger[j].end \in Nat /\ ledger[j + 1].end \in Nat
    BY <1>7, BooksType
<1>9. ledger[j].end <= p - 1 /\ p - 1 < ledger[j + 1].end
    BY <1>5, <1>7 DEF Before
<1> DEFINE k == p - ledger[j].end
<1>10. /\ k \in Nat /\ 0 < k /\ ledger[j].end + k = p
       /\ ledger[j].end + k <= ledger[j + 1].end
    BY <1>8, <1>9, Offset
<1> HIDE DEF k
<1>11. Octet(emitted, ledger, ledger[(j + 1) - 1].end + k) = Encode(emitted[j + 1])[k]
    <2>1. ledger[(j + 1) - 1].end + k <= ledger[j + 1].end
        BY <1>7, <1>10
    <2> QED
        BY <1>2, <1>3, <1>7, <1>10, <2>1, OctetIs
<1>12. Octet(emitted', ledger', ledger'[(j + 1) - 1].end + k) = Encode(emitted'[j + 1])[k]
    <2>1. ledger'[(j + 1) - 1].end + k <= ledger'[j + 1].end
        BY <1>1, <1>7, <1>10
    <2>2. j + 1 \in 1..Len(emitted')
        BY <1>1, <1>7
    <2> QED
        BY <1>2, <1>3, <1>10, <2>1, <2>2, OctetIs
<1>13. emitted'[j + 1] = emitted[j + 1] /\ ledger'[(j + 1) - 1] = ledger[(j + 1) - 1]
       /\ ledger[(j + 1) - 1].end + k = p
    BY <1>1, <1>7, <1>10
<1> QED
    BY <1>11, <1>12, <1>13

\* The places stay, too, when the stream grows behind them.
LEMMA EmitStream ==
    ASSUME StreamInv, Emit
    PROVE  StreamInv'
<1> DEFINE n == Len(emitted)
<1>0. TypeOK /\ Booked /\ Still /\ Kept /\ Scanned /\ Delivered /\ NoneLeft
    BY DEF StreamInv, IInv
<1>1. PICK e \in Emittable : /\ emitted' = Append(emitted, e)
                             /\ wire' = wire \o Encode(e)
                             /\ Remember(e)
    BY DEF Emit
<1>2. /\ pc = "idle" /\ UNCHANGED <<pc, carry, buf, complete, offset, errCount, reported>>
    BY DEF Emit, call
<1>3. /\ n \in Nat /\ n \in 0..n
      /\ Len(emitted') = n + 1
      /\ \A i \in 1..n : emitted'[i] = emitted[i]
      /\ emitted'[n + 1] = e
      /\ \A i \in 0..n : ledger'[i] = ledger[i]
      /\ ledger'[n + 1].end = ledger[n].end + Len(Encode(e))
    BY <1>0, <1>1, BooksType, EmitBooks
<1>4. /\ Len(Encode(e)) \in Nat /\ Len(Encode(e)) > 0 /\ Encode(e) \in Seq(Byte)
    BY FrameType, EncodeType
<1>5. Booked' /\ Still'
    BY <1>0, <1>1, EmitBooked
<1>6. /\ Base \in Nat /\ Len(Held) \in Nat /\ Len(wire) \in Nat /\ Taken \in Nat
      /\ Taken = Base + Len(Held) /\ Taken + Len(wire) = ledger[n].end
      /\ wire \in Seq(Byte)
    BY <1>0, StreamLength DEF TypeOK
<1>7. /\ Len(wire') = Len(wire) + Len(Encode(e))
      /\ \A k \in 1..(Len(wire) + Len(Encode(e))) :
            wire'[k] = IF k <= Len(wire) THEN wire[k] ELSE Encode(e)[k - Len(wire)]
    BY <1>1, <1>4, <1>6, ConcatProperties
<1>8. Held' = Held /\ Taken' = Taken /\ Base' = Base
    <2>1. Held' = Held
        BY <1>2 DEF Held
    <2>2. Taken' = Taken
        <3>1. Taken' = ledger'[n + 1].end - Len(wire')
            BY <1>3 DEF Taken
        <3>2. Taken' = (ledger[n].end + Len(Encode(e))) - (Len(wire) + Len(Encode(e)))
            BY <1>3, <1>7, <3>1
        <3>3. ledger[n].end \in Nat
            BY <1>0, <1>3, BooksType
        <3> QED
            BY <1>4, <1>6, <3>2, <3>3
    <2> QED
        BY <2>1, <2>2 DEF Base
<1>9. Kept'
    <2>1. ASSUME NEW k \in 1..Len(Held)
          PROVE  Held[k] = Octet(emitted', ledger', Base + k)
        <3>1. Base + k \in Nat /\ 0 < Base + k /\ Base + k <= ledger[n].end
            BY <1>6
        <3> QED
            BY <1>0, <1>1, <3>1, EmitOctet DEF Kept
    <2>2. ASSUME NEW k \in 1..Len(wire')
          PROVE  wire'[k] = Octet(emitted', ledger', Taken + k)
        <3>1. CASE k <= Len(wire)
            <4>1. Taken + k \in Nat /\ 0 < Taken + k /\ Taken + k <= ledger[n].end
                BY <1>6, <3>1
            <4>2. k \in 1..Len(wire) /\ wire'[k] = wire[k]
                BY <1>4, <1>6, <1>7, <3>1
            <4> QED
                BY <1>0, <1>1, <4>1, <4>2, EmitOctet DEF Kept
        <3>2. CASE Len(wire) < k
            <4> DEFINE m == k - Len(wire)
            <4>1. m \in Nat /\ 0 < m /\ m <= Len(Encode(e)) /\ Taken + k = ledger[n].end + m
                BY <1>4, <1>6, <1>7, <3>2
            <4>2. wire'[k] = Encode(e)[m]
                BY <1>4, <1>6, <1>7, <3>2
            <4> HIDE DEF m
            <4>3. /\ (n + 1) - 1 = n /\ n + 1 \in 1..Len(emitted')
                  /\ ledger'[(n + 1) - 1].end + m <= ledger'[n + 1].end
                <5>1. (n + 1) - 1 = n /\ n + 1 \in 1..Len(emitted')
                    BY <1>3
                <5>2. ledger[n].end \in Nat /\ ledger'[n] = ledger[n]
                    BY <1>0, <1>3, BooksType
                <5> QED
                    BY <1>3, <1>4, <4>1, <5>1, <5>2
            <4>4. /\ emitted' \in Seq(Emittable)
                  /\ ledger' \in [0..Len(emitted') -> [end : Nat, records : Nat, errors : Nat]]
                BY <1>0, <1>1, RememberType, AppendProperties DEF TypeOK
            <4>5. \A i, j \in 0..Len(emitted') : i < j => ledger'[i].end < ledger'[j].end
                BY <1>5 DEF Booked
            <4>6. Octet(emitted', ledger', ledger'[(n + 1) - 1].end + m)
                      = Encode(emitted'[n + 1])[m]
                BY <4>1, <4>3, <4>4, <4>5, OctetIs
            <4>7. ledger'[(n + 1) - 1].end + m = Taken + k
                BY <1>3, <4>1, <4>3
            <4> QED
                BY <1>3, <4>2, <4>6, <4>7
        <3> QED
            BY <1>4, <1>6, <1>7, <3>1, <3>2
    <2> QED
        BY <1>6, <1>8, <2>1, <2>2 DEF Kept
<1>10. ASSUME NEW i \in 0..n, NEW p \in Nat, p <= ledger[n].end, Before(i, p)
       PROVE  /\ i \in 0..Len(emitted') /\ ledger'[i] = ledger[i]
              /\ i < Len(emitted') => p < ledger'[i + 1].end
    <2>1. CASE i = n
        <3>1. ledger[n].end \in Nat
            BY <1>0, <1>3, BooksType
        <3> QED
            BY <1>3, <1>4, <1>10, <2>1, <3>1
    <2>2. CASE i # n
        <3>1. i < n /\ i + 1 \in 0..n /\ i \in 0..(n + 1)
            BY <1>3, <2>2
        <3> QED
            BY <1>3, <1>10, <3>1 DEF Before
    <2> QED
        BY <2>1, <2>2
<1>11. /\ complete = 0 /\ offset = 0
    BY <1>2 DEF StreamInv, IInv, IdleClean
<1>12. /\ Base + complete = Base /\ Base + offset = Base /\ Base <= ledger[n].end
    BY <1>6, <1>11
<1>13. Scanned'
    <2>1. PICK i \in 0..n : ScanAt(i, Base)
        BY <1>0, <1>12 DEF Scanned
    <2>2. Before(i, Base)
        BY <2>1 DEF ScanAt
    <2>3. /\ i \in 0..Len(emitted') /\ ledger'[i] = ledger[i]
          /\ i < Len(emitted') => Base < ledger'[i + 1].end
        BY <1>6, <1>10, <1>12, <2>2
    <2>4. Base # ledger[i].end =>
              i < Len(emitted') /\ ~Framed(emitted'[i + 1])
        <3>1. ASSUME Base # ledger[i].end
              PROVE  i < Len(emitted') /\ ~Framed(emitted'[i + 1])
            <4>1. i < n /\ ~Framed(emitted[i + 1])
                BY <2>1, <3>1 DEF ScanAt
            <4>2. i + 1 \in 1..n /\ i < n + 1
                BY <1>3, <4>1
            <4> QED
                BY <1>3, <4>1, <4>2
        <3> QED
            BY <3>1
    <2> QED
        BY <1>2, <1>8, <1>12, <2>2, <2>3, <2>4 DEF Scanned, ScanAt, Before
<1>14. Delivered'
    <2>1. PICK i \in 0..n : /\ DecodeAt(i, Base)
                            /\ reported = SubSeq(sent, 1, ledger[i].records)
                            /\ errCount = ledger[i].errors
        BY <1>0, <1>12 DEF Delivered
    <2>2. Before(i, Base)
        BY <2>1 DEF DecodeAt
    <2>3. /\ i \in 0..Len(emitted') /\ ledger'[i] = ledger[i]
          /\ i < Len(emitted') => Base < ledger'[i + 1].end
        BY <1>6, <1>10, <1>12, <2>2
    <2>4. Base # ledger[i].end =>
              i < Len(emitted') /\ ~Known(emitted'[i + 1])
        <3>1. ASSUME Base # ledger[i].end
              PROVE  i < Len(emitted') /\ ~Known(emitted'[i + 1])
            <4>1. i < n /\ ~Known(emitted[i + 1])
                BY <2>1, <3>1 DEF DecodeAt
            <4>2. i + 1 \in 1..n /\ i < n + 1
                BY <1>3, <4>1
            <4> QED
                BY <1>3, <4>1, <4>2
        <3> QED
            BY <3>1
    <2>5. SubSeq(sent', 1, ledger[i].records) = SubSeq(sent, 1, ledger[i].records)
        <3>1. sent \in Seq(Seq(Byte)) /\ Len(sent) \in Nat
            BY <1>0, LenProperties DEF TypeOK
        <3>2. /\ ledger[i].records \in Nat
              /\ ledger[i].records <= Len(sent)
            <4>1. i <= n /\ ledger[n].records = Len(sent)
                BY <1>0, <1>3 DEF Booked
            <4>2. ledger[i].records <= ledger[n].records
                BY <1>0, <1>3, <4>1, Monotone
            <4>3. ledger[i].records \in Nat
                BY <1>0, BooksType
            <4> QED
                BY <4>1, <4>2, <4>3
        <3>3. CASE Reportable(e)
            <4>1. sent' = Append(sent, e.payload) /\ e.payload \in Seq(Byte)
                BY <1>1, <3>3, FrameType DEF Remember
            <4> QED
                BY <3>1, <3>2, <4>1, PrefixOfAppend
        <3>4. CASE ~Reportable(e)
            BY <1>1, <3>4 DEF Remember
        <3> QED
            BY <3>3, <3>4
    <2> QED
        BY <1>2, <1>8, <1>12, <2>1, <2>2, <2>3, <2>4, <2>5
        DEF Delivered, DecodeAt, Before
<1>15. NoneLeft'
    <2>1. ASSUME NEW i \in 1..(n + 1), Base <= ledger'[i - 1].end, ledger'[i].end <= Taken
          PROVE  ~Framed(emitted'[i])
        <3>1. i # n + 1
            <4>1. ledger[n].end \in Nat
                BY <1>0, <1>3, BooksType
            <4> QED
                BY <1>3, <1>4, <1>6, <2>1, <4>1
        <3>2. i \in 1..n /\ i \in 0..n /\ i - 1 \in 0..n
            BY <1>3, <3>1
        <3> QED
            BY <1>0, <1>2, <1>3, <1>12, <2>1, <3>2 DEF NoneLeft
    <2> QED
        BY <1>2, <1>3, <1>8, <1>12, <2>1 DEF NoneLeft
<1>16. IInv'
    BY EmitIInv DEF StreamInv
<1> QED
    BY <1>5, <1>9, <1>13, <1>14, <1>15, <1>16 DEF StreamInv

\* A place k behind the c carried bytes is among the n taken from the wire.
LEMMA Behind ==
    ASSUME NEW k \in Nat, NEW c \in Nat, NEW n \in Nat, NEW w \in Nat, NEW b \in Nat,
           NEW t, t = b + c, c < k, k <= c + n, n <= w
    PROVE  k - c \in 1..w /\ t + (k - c) = b + k
    OBVIOUS

\* The carried bytes and the first n of the wire are the buffer.
LEMMA TransferStream ==
    ASSUME StreamInv, NEW n \in 0..Len(wire), Transfer(n)
    PROVE  StreamInv'
<1>0. TypeOK /\ Booked /\ Still /\ Kept /\ Scanned /\ Delivered
    BY DEF StreamInv, IInv
<1>1. /\ pc = "idle" /\ pc' = "scan"
      /\ wire' = SubSeq(wire, n + 1, Len(wire)) /\ buf' = Fill(n)
      /\ UNCHANGED <<stream, complete, offset, errCount, reported>>
    BY DEF Transfer
<1>2. /\ Base \in Nat /\ Len(carry) \in Nat /\ Len(wire) \in Nat /\ Taken \in Nat
      /\ Taken = Base + Len(carry)
      /\ Taken + Len(wire) = ledger[Len(emitted)].end
      /\ ledger[Len(emitted)].end \in Nat
      /\ wire \in Seq(Byte) /\ carry \in Seq(Byte) /\ n \in Nat /\ n <= Len(wire)
      /\ Held = carry
    <2>1. Len(emitted) \in Nat /\ Len(emitted) \in 0..Len(emitted)
        BY <1>0, LenProperties DEF TypeOK
    <2> QED
        BY <1>0, <1>1, <2>1, StreamLength, BooksType DEF TypeOK, Held
<1>3. /\ SubSeq(wire, 1, n) \in Seq(Byte) /\ Len(SubSeq(wire, 1, n)) = n
      /\ \A k \in 1..n : SubSeq(wire, 1, n)[k] = wire[k]
    BY <1>2, Part
<1>4. /\ Len(wire') = Len(wire) - n
      /\ \A k \in 1..(Len(wire) - n) : wire'[k] = wire[n + k]
    BY <1>1, <1>2, Rest
<1>5. /\ Len(buf') = Len(carry) + n
      /\ \A k \in 1..(Len(carry) + n) :
            buf'[k] = IF k <= Len(carry) THEN carry[k] ELSE wire[k - Len(carry)]
    <2>1. /\ Len(buf') = Len(carry) + Len(SubSeq(wire, 1, n))
          /\ \A k \in 1..Len(carry) + Len(SubSeq(wire, 1, n)) :
                buf'[k] = IF k <= Len(carry) THEN carry[k]
                          ELSE SubSeq(wire, 1, n)[k - Len(carry)]
        BY <1>1, <1>2, <1>3, ConcatProperties DEF Fill
    <2>2. ASSUME NEW k \in 1..(Len(carry) + n), ~(k <= Len(carry))
          PROVE  k - Len(carry) \in 1..n
        BY <1>2, <2>2
    <2> QED
        BY <1>3, <2>1, <2>2
<1>6. Held' = buf' /\ Taken' = Taken + n /\ Base' = Base
    <2>1. Held' = buf'
        BY <1>1 DEF Held
    <2>2. Taken' = ledger[Len(emitted)].end - Len(wire')
        BY <1>1 DEF Taken, stream
    <2>3. Taken' = Taken + n
        BY <1>2, <1>4, <2>2
    <2>4. Base' = Taken' - Len(buf')
        BY <2>1 DEF Base
    <2> QED
        BY <1>2, <1>5, <2>1, <2>3, <2>4
<1>7. Booked' /\ Still'
    BY <1>0, <1>1 DEF Booked, Still, Before, stream
<1>8. Kept'
    <2>1. ASSUME NEW k \in 1..(Len(carry) + n)
          PROVE  buf'[k] = Octet(emitted, ledger, Base + k)
        <3>1. CASE k <= Len(carry)
            <4>1. k \in 1..Len(Held) /\ buf'[k] = Held[k]
                BY <1>2, <1>5, <3>1
            <4> QED
                BY <1>0, <4>1 DEF Kept
        <3>2. CASE Len(carry) < k
            <4>1. k - Len(carry) \in 1..Len(wire) /\ Taken + (k - Len(carry)) = Base + k
                <5>1. /\ Base \in Nat /\ Len(carry) \in Nat /\ Len(wire) \in Nat
                      /\ n \in Nat /\ n <= Len(wire) /\ Taken = Base + Len(carry)
                    BY <1>2
                <5>2. k \in Nat /\ k <= Len(carry) + n
                    BY <5>1
                <5> QED
                    BY ONLY <3>2, <5>1, <5>2, Behind, SMTT(30)
            <4>2. buf'[k] = wire[k - Len(carry)]
                <5>1. ~(k <= Len(carry))
                    BY <1>2, <3>2
                <5> QED
                    BY <1>5, <5>1
            <4>3. wire[k - Len(carry)] = Octet(emitted, ledger, Taken + (k - Len(carry)))
                BY <1>0, <4>1 DEF Kept
            <4> QED
                BY <4>1, <4>2, <4>3
        <3> QED
            BY <1>2, <3>1, <3>2
    <2>2. ASSUME NEW k \in 1..(Len(wire) - n)
          PROVE  wire'[k] = Octet(emitted, ledger, (Taken + n) + k)
        <3>1. n + k \in 1..Len(wire) /\ Taken + (n + k) = (Taken + n) + k
            BY <1>2
        <3>2. wire[n + k] = Octet(emitted, ledger, Taken + (n + k))
            BY <1>0, <3>1 DEF Kept
        <3> QED
            BY <1>4, <3>1, <3>2
    <2> QED
        BY <1>1, <1>2, <1>4, <1>5, <1>6, <2>1, <2>2 DEF Kept, stream
<1>9. Scanned' /\ Delivered'
    BY <1>0, <1>1, <1>6 DEF Scanned, ScanAt, Delivered, DecodeAt, Before, stream
<1>10. NoneLeft'
    BY <1>1 DEF NoneLeft
<1>11. IInv'
    BY TransferIInv DEF StreamInv
<1> QED
    BY <1>7, <1>8, <1>9, <1>10, <1>11 DEF StreamInv

\* A step that leaves the bytes, the books and the places alone.
LEMMA NothingMoves ==
    ASSUME StreamInv, IInv',
           UNCHANGED <<stream, wire, pc, carry, buf, complete, offset, errCount, reported>>
    PROVE  StreamInv'
<1>0. Booked /\ Still /\ Kept /\ Scanned /\ Delivered /\ NoneLeft
    BY DEF StreamInv
<1>1. Held' = Held /\ Taken' = Taken
    BY DEF Held, Taken, stream
<1>2. Base' = Base
    BY <1>1 DEF Base
<1>3. Booked'
    BY <1>0 DEF Booked, Before, stream
<1>4. Still'
    BY <1>0 DEF Still, stream
<1>5. Kept'
    BY <1>0, <1>1, <1>2 DEF Kept, stream
<1>6. Scanned'
    BY <1>0, <1>2 DEF Scanned, ScanAt, Before, stream
<1>7. Delivered'
    BY <1>0, <1>2 DEF Delivered, DecodeAt, Before, stream
<1>8. NoneLeft'
    BY <1>0, <1>1, <1>2 DEF NoneLeft, stream
<1> QED
    BY <1>3, <1>4, <1>5, <1>6, <1>7, <1>8 DEF StreamInv

\* Without partial transfers, one that does not succeed has taken nothing.
LEMMA EarlyStream ==
    ASSUME StreamInv, Unambiguous,
           NEW n \in 0..Len(wire), NEW result \in Int, EndsEarly(n, result)
    PROVE  StreamInv'
<1>1. wire \in Seq(Byte) /\ Len(wire) \in Nat
    BY LenProperties DEF StreamInv, IInv, TypeOK
<1>2. n = 0
    BY <1>1 DEF EndsEarly, Unambiguous
<1>3. wire' = wire
    BY <1>1, <1>2, SubSeqFull DEF EndsEarly
<1>4. IInv'
    BY EarlyIInv DEF StreamInv
<1> QED
    BY <1>3, <1>4, NothingMoves DEF EndsEarly

LEMMA TimeoutStream ==
    ASSUME StreamInv, Unambiguous, NEW n \in 0..Len(wire), Timeout(n)
    PROVE  StreamInv'
    BY EarlyStream DEF Timeout

LEMMA TransferErrorStream ==
    ASSUME StreamInv, Unambiguous, NEW n \in 0..Len(wire), TransferError(n)
    PROVE  StreamInv'
    BY EarlyStream DEF TransferError

LEMMA InitStream == Init => StreamInv
<1> SUFFICES ASSUME Init PROVE StreamInv
    OBVIOUS
<1>1. IInv
    BY InitIInv
<1>2. /\ emitted = << >> /\ Len(emitted) = 0 /\ sent = << >> /\ Len(sent) = 0
      /\ wire = << >> /\ carry = << >> /\ pc = "idle" /\ Len(wire) = 0 /\ Len(carry) = 0
      /\ reported = << >> /\ complete = 0 /\ offset = 0 /\ errCount = 0
      /\ ledger[0] = [end |-> 0, records |-> 0, errors |-> 0]
    BY DEF Init
<1>3. 0..Len(emitted) = {0} /\ 1..Len(emitted) = {}
    BY <1>2
<1>4. Held = << >> /\ Len(Held) = 0 /\ Taken = 0 /\ Base = 0
    BY <1>2 DEF Held, Taken, Base
<1>5. /\ ledger[0].end = 0 /\ ledger[0].records = 0 /\ ledger[0].errors = 0
    BY <1>2
<1>6. Before(0, 0)
    BY <1>2, <1>5 DEF Before
<1>7. Booked
    <2>1. 0..0 = {0}
        OBVIOUS
    <2> QED
        BY <1>2, <1>3, <1>5, <1>6, <2>1 DEF Booked
<1>8. Still
    BY <1>3, <1>5 DEF Still
<1>9. Kept
    BY <1>2, <1>4 DEF Kept
<1>10. Scanned
    BY <1>2, <1>3, <1>4, <1>5, <1>6 DEF Scanned, ScanAt
<1>11. Delivered
    <2>1. SubSeq(sent, 1, 0) = << >>
        BY SubSeqEmpty
    <2> QED
        BY <1>2, <1>3, <1>4, <1>5, <1>6, <2>1 DEF Delivered, DecodeAt
<1>12. NoneLeft
    BY <1>3 DEF NoneLeft
<1> QED
    BY <1>1, <1>7, <1>8, <1>9, <1>10, <1>11, <1>12 DEF StreamInv

---------------------------------------------------------------------------
(* What the callback is given, for every stream that can be read in one way *)
(* only.                                                                    *)

LEMMA NextStream == Unambiguous /\ StreamInv /\ [Next]_vars => StreamInv'
<1> SUFFICES ASSUME Unambiguous, StreamInv, [Next]_vars PROVE StreamInv'
    OBVIOUS
<1>1. CASE UNCHANGED vars
    <2>1. IInv'
        BY NextIInv DEF StreamInv
    <2> QED
        BY <1>1, <2>1, NothingMoves DEF vars, call
<1>2. CASE Scan
    BY <1>2, ScanResyncStream, ScanFrameStream, ScanDoneStream DEF Scan
<1>3. CASE Decode
    BY <1>3, DecodeByteStream, DecodeStatusStream, DecodeShortStream,
       DecodeMarkedStream, DecodeBadChannelStream, DecodeReportStream,
       ReturnStream DEF Decode
<1> QED
    BY <1>1, <1>2, <1>3, EmitStream, TransferStream, TimeoutStream,
       TransferErrorStream DEF Next

LEMMA StreamInvariance == ASSUME Unambiguous PROVE Safety => []StreamInv
<1>1. StreamInv /\ [Next]_vars => StreamInv'
    BY NextStream
<1> QED
    BY <1>1, InitStream, PTL DEF Safety

\* Between calls, all that is due and was transferred whole has been read.
LEMMA AllRead ==
    ASSUME StreamInv, pc = "idle"
    PROVE  /\ reported = SubSeq(sent, 1, ledger[Transferred].records)
           /\ errCount = ledger[Transferred].errors
<1>0. /\ TypeOK /\ Booked /\ Still /\ Kept /\ Delivered /\ NoneLeft
      /\ complete = 0 /\ offset = 0
    BY DEF StreamInv, IInv, IdleClean
<1>1. /\ Base \in Nat /\ Taken \in Nat /\ Base <= Taken
      /\ Taken <= ledger[Len(emitted)].end
      /\ ledger[Len(emitted)].end \in Nat /\ Len(emitted) \in Nat
    <2>1. Len(emitted) \in Nat /\ Len(emitted) \in 0..Len(emitted)
        BY <1>0, LenProperties DEF TypeOK
    <2> QED
        BY <1>0, <2>1, StreamLength, BooksType
<1>2. Transferred \in 0..Len(emitted) /\ Before(Transferred, Taken)
    <2>1. Taken \in 0..ledger[Len(emitted)].end
        BY <1>1
    <2>2. \E i \in 0..Len(emitted) : Before(i, Taken)
        BY <1>0, <2>1 DEF Booked
    <2> QED
        BY <2>2 DEF Transferred, Before
<1>3. Base + complete = Base /\ Base + offset = Base
    BY <1>0, <1>1
<1>4. PICK i \in 0..Len(emitted) :
              /\ DecodeAt(i, Base)
              /\ reported = SubSeq(sent, 1, ledger[i].records)
              /\ errCount = ledger[i].errors
    BY <1>0, <1>3 DEF Delivered
<1>5. \A k \in 1..Len(emitted) :
         Base <= ledger[k - 1].end /\ ledger[k].end <= Taken => ~Framed(emitted[k])
    BY <1>0, <1>3 DEF NoneLeft
<1>6. /\ ledger[i].records = ledger[Transferred].records
      /\ ledger[i].errors = ledger[Transferred].errors
    BY <1>0, <1>1, <1>2, <1>4, <1>5, NothingBetween
<1> QED
    BY <1>4, <1>6

\* When wch_read_packets has returned, the callback has been given every
\* reportable frame that was transferred whole, in order and unaltered, and
\* nothing else: however the stream is cut, whatever stands between the frames
\* and however many frames there are.
THEOREM FramesDecoded == ASSUME Unambiguous PROVE Spec => []AllFramesDecoded
<1>1. StreamInv => AllFramesDecoded
    BY AllRead DEF AllFramesDecoded
<1> QED
    BY <1>1, StreamInvariance, PTL DEF Spec

\* And err_count has counted each status frame and each marked frame once.
THEOREM ErrorsCounted == ASSUME Unambiguous PROVE Spec => []ErrorsCountedOnce
<1>1. StreamInv => ErrorsCountedOnce
    BY AllRead DEF ErrorsCountedOnce
<1> QED
    BY <1>1, StreamInvariance, PTL DEF Spec

\* Nothing is held back: once every byte has been taken and the call is over, the
\* callback has been given all that was sent.  The carry never keeps a record.
THEOREM NothingHeldBack ==
    ASSUME Unambiguous
    PROVE  Spec => [](pc = "idle" /\ wire = << >> => reported = sent)
<1>1. ASSUME StreamInv, pc = "idle", wire = << >> PROVE reported = sent
    <2>0. TypeOK /\ Booked
        BY <1>1 DEF StreamInv, IInv
    <2>1. /\ Len(emitted) \in Nat /\ Len(emitted) \in 0..Len(emitted)
          /\ sent \in Seq(Seq(Byte))
        BY <2>0, LenProperties DEF TypeOK
    <2>2. ledger[Len(emitted)].end \in Nat
        BY <2>0, <2>1, BooksType
    <2>3. Taken = ledger[Len(emitted)].end
        BY <1>1, <2>2 DEF Taken
    <2>4. Before(Len(emitted), Taken)
        BY <2>2, <2>3 DEF Before
    <2>5. /\ Transferred \in 0..Len(emitted)
          /\ ledger[Transferred].end <= Taken
          /\ Transferred < Len(emitted) => Taken < ledger[Transferred + 1].end
        BY <2>1, <2>4 DEF Transferred, Before
    <2>6. Transferred = Len(emitted)
        <3> SUFFICES ASSUME Transferred < Len(emitted) PROVE FALSE
            BY <2>1, <2>5
        <3>1. /\ Transferred + 1 \in 0..Len(emitted)
              /\ Transferred + 1 = Len(emitted) \/ Transferred + 1 < Len(emitted)
            BY <2>1, <2>5
        <3>2. ledger[Transferred + 1].end <= ledger[Len(emitted)].end
            <4>1. CASE Transferred + 1 = Len(emitted)
                BY <2>2, <4>1
            <4>2. CASE Transferred + 1 < Len(emitted)
                <5>1. ledger[Transferred + 1].end < ledger[Len(emitted)].end
                    BY <2>0, <2>1, <3>1, <4>2 DEF Booked
                <5> QED
                    BY <2>0, <2>2, <3>1, <5>1, BooksType
            <4> QED
                BY <3>1, <4>1, <4>2
        <3>3. ledger[Transferred + 1].end \in Nat
            BY <2>0, <3>1, BooksType
        <3> QED
            BY <2>2, <2>3, <2>5, <3>2, <3>3
    <2>7. reported = SubSeq(sent, 1, Len(sent))
        BY <1>1, <2>0, <2>6, AllRead DEF Booked
    <2> QED
        BY <2>1, <2>7, SubSeqFull
<1>2. StreamInv => (pc = "idle" /\ wire = << >> => reported = sent)
    BY <1>1
<1> QED
    BY <1>2, StreamInvariance, PTL DEF Spec

\* No call of the callback is made up: at every moment the payloads given to it
\* are a prefix of those that the firmware owes it.
THEOREM ReportedWereSent == ASSUME Unambiguous PROVE Spec => []NothingInvented
<1>1. ASSUME StreamInv PROVE NothingInvented
    <2>0. TypeOK /\ Booked /\ Delivered
        BY <1>1 DEF StreamInv, IInv
    <2>1. PICK i \in 0..Len(emitted) : reported = SubSeq(sent, 1, ledger[i].records)
        BY <2>0 DEF Delivered
    <2>2. ledger[i].records \in Nat /\ ledger[i].records <= Len(sent)
        <3>1. /\ Len(emitted) \in 0..Len(emitted) /\ i <= Len(emitted)
              /\ ledger[i].records \in Nat
            BY <2>0, BooksType
        <3>2. ledger[i].records <= ledger[Len(emitted)].records
            BY <2>0, <3>1, Monotone
        <3>3. ledger[Len(emitted)].records = Len(sent)
            BY <2>0 DEF Booked
        <3> QED
            BY <3>1, <3>2, <3>3
    <2>3. sent \in Seq(Seq(Byte)) /\ Len(sent) \in Nat /\ DOMAIN sent = 1..Len(sent)
        BY <2>0, LenProperties DEF TypeOK
    <2>4. /\ reported \in Seq(Seq(Byte)) /\ Len(reported) = ledger[i].records
          /\ \A k \in 1..ledger[i].records : reported[k] = sent[k]
        BY <2>1, <2>2, <2>3, Part
    <2>5. DOMAIN reported = 1..ledger[i].records
        BY <2>4, LenProperties
    <2>6. \A k \in 1..ledger[i].records : k \in 1..Len(sent)
        BY <2>2, <2>3
    <2> QED
        BY <2>3, <2>4, <2>5, <2>6 DEF NothingInvented
<1> QED
    BY <1>1, StreamInvariance, PTL DEF Spec

\* Each step of the program is a step of the lossless FIFO channel or leaves it
\* alone: frames enter at its end when the firmware emits them and leave at its
\* front, one at a time, when the callback is called.
LEMMA ChannelStep ==
    ASSUME Unambiguous, StreamInv, [Next]_vars
    PROVE  [Channel!Next]_(Channel!vars)
<1>1. CASE Emit
    <2>1. PICK e \in Emittable : Remember(e)
        BY <1>1 DEF Emit
    <2>2. reported' = reported
        BY <1>1 DEF Emit, call
    <2>3. CASE Reportable(e)
        <3>1. sent' = Append(sent, e.payload)
            BY <2>1, <2>3 DEF Remember
        <3> QED
            BY <2>2, <3>1 DEF Channel!Next, Channel!Send
    <2>4. CASE ~Reportable(e)
        BY <2>1, <2>2, <2>4 DEF Remember, Channel!vars
    <2> QED
        BY <2>3, <2>4
<1>2. CASE DecodeReport
    <2>1. PICK i \in 0..Len(emitted) :
              /\ ledger[i + 1].records = ledger[i].records + 1
              /\ ledger[i + 1].records <= Len(sent)
              /\ Len(reported) = ledger[i].records
              /\ reported' = Append(reported, sent[ledger[i + 1].records])
        BY <1>2, ReportNext
    <2>2. Len(reported) \in Nat /\ Len(sent) \in Nat /\ sent' = sent
        BY <1>2, LenProperties DEF StreamInv, IInv, TypeOK, DecodeReport, stream
    <2>3. Len(reported) < Len(sent) /\ reported' = Append(reported, sent[Len(reported) + 1])
        BY <2>1, <2>2
    <2> QED
        BY <2>2, <2>3 DEF Channel!Next, Channel!Deliver
<1>3. CASE UNCHANGED vars
    BY <1>3 DEF vars, stream, call, Channel!vars
<1>4. CASE \E n \in 0..Len(wire) : Transfer(n)
    BY <1>4 DEF Transfer, stream, Channel!vars
<1>5. CASE \E n \in 0..Len(wire) : Timeout(n) \/ TransferError(n)
    BY <1>5 DEF Timeout, TransferError, EndsEarly, stream, Channel!vars
<1>6. CASE Scan
    BY <1>6 DEF Scan, ScanResync, ScanFrame, ScanDone, stream, Channel!vars
<1>7. CASE DecodeResync \/ DecodeUnknown \/ DecodeStatus
    BY <1>7 DEF DecodeResync, DecodeUnknown, DecodeStatus, Skip, stream, Channel!vars
<1>8. CASE DecodeShort \/ DecodeMarked \/ DecodeBadChannel
    BY <1>8 DEF DecodeShort, DecodeMarked, DecodeBadChannel, Skip, stream, Channel!vars
<1>9. CASE Return
    BY <1>9 DEF Return, stream, Channel!vars
<1> QED
    BY <1>1, <1>2, <1>3, <1>4, <1>5, <1>6, <1>7, <1>8, <1>9 DEF Next, Decode

\* The reader implements the safety part of the channel: no cut of the stream
\* into transfers loses, repeats, reorders, splices or invents a record.
THEOREM RefinesChannel == ASSUME Unambiguous PROVE Spec => Channel!Safety
<1>1. Init => Channel!Init
    BY DEF Init, Channel!Init
<1>2. StreamInv /\ [Next]_vars => [Channel!Next]_(Channel!vars)
    BY ChannelStep
<1> QED
    BY <1>1, <1>2, StreamInvariance, PTL DEF Spec, Safety, Channel!Safety
===========================================================================

------------------------- MODULE ReceivePathProofs -------------------------
(***************************************************************************)
(* Theorems about ReceivePath, for every clock period, every bound on time *)
(* and packets, and every set of connections.  The clock is proved as a    *)
(* component (ClockSpec) that ReceivePath refines; the link is proved by   *)
(* an invariant of its own.                                                *)
(***************************************************************************)
EXTENDS ReceivePath, Arithmetic

---------------------------------------------------------------------------
(* Arithmetic of a wrapping clock. *)

\* Between two times less than a period apart the 32-bit time decreases
\* exactly if a period boundary lies between them (HighPart).
LEMMA Wrap ==
    ASSUME NEW m \in Nat \ {0}, NEW a \in Nat, NEW b \in Nat, a <= b, b - a < m
    PROVE  b - (b % m) = IF (b % m) < (a % m) THEN a - (a % m) + m
                         ELSE a - (a % m)
<1> DEFINE p == a \div m
           q == b \div m
           r == a % m
           s == b % m
<1>1. /\ r \in 0..(m-1) /\ s \in 0..(m-1) /\ p \in Nat /\ q \in Nat
      /\ a = m * p + r /\ b = m * q + s
  BY DivMod
<1> SUFFICES b - s = IF s < r THEN a - r + m ELSE a - r
  OBVIOUS
<1> HIDE DEF p, q, r, s
<1>2. m * (q - p) = m * q - m * p
  BY <1>1, SMT
<1>3. m * (q - p) = b - s - (a - r)
  BY <1>1, <1>2
<1>4. CASE q - p >= 2
  <2>1. m * (q - p - 1) >= m
    BY <1>1, <1>4, Multiple
  <2>2. m * (q - p - 1) = m * (q - p) - m
    BY <1>1, SMT
  <2> QED BY <1>1, <1>3, <2>1, <2>2
<1>5. CASE q - p <= -1
  <2>1. m * (p - q) >= m
    BY <1>1, <1>5, Multiple
  <2>2. m * (p - q) = - (m * (q - p))
    BY <1>1, SMT
  <2> QED BY <1>1, <1>3, <2>1, <2>2
<1>6. CASE q - p = 0
  <2>1. m * (q - p) = 0
    BY <1>6, SMT
  <2> QED BY <1>1, <1>3, <2>1
<1>7. CASE q - p = 1
  <2>1. m * (q - p) = m
    BY <1>7, SMT
  <2> QED BY <1>1, <1>3, <2>1
<1> QED BY <1>1, <1>4, <1>5, <1>6, <1>7

---------------------------------------------------------------------------
(* The clock. *)

\* The 32-bit time kept is the last record's, and the extended time is made
\* of the two parts.
Split ==
    /\ ts_prev_extended_us = ts_hi_us + ts_prev_us
    /\ lastAt <= now
    /\ anyRecord => ts_prev_us = lastAt % ClockPeriod
    /\ ~anyRecord => ts_prev_extended_us = 0

ClockInv == ClockTypeOK /\ Split /\ ClockExact

LEMMA ClockStart == ClockInit => ClockInv
<1> SUFFICES ASSUME ClockInit PROVE ClockInv
  OBVIOUS
<1>1. ClockTypeOK
  <2>1. 0 \in 0..(ClockPeriod - 1) /\ 0 \in 0..MaxTime
    BY ClockAssumption
  <2> QED BY <2>1 DEF ClockInit, ClockTypeOK
<1>2. Split
  BY ClockAssumption DEF ClockInit, Split
<1>3. ClockExact
  BY DEF ClockInit, ClockExact
<1> QED BY <1>1, <1>2, <1>3 DEF ClockInv

\* What one record does to the clock.
LEMMA StampStep ==
    ASSUME ClockInv, Stamp
    PROVE  /\ ClockInv'
           /\ ts_prev_extended_us' >= ts_prev_extended_us
           /\ lastAt' = now
           /\ (anyRecord /\ now - lastAt < ClockPeriod)
                 => interval_us' = now - lastAt
<1> DEFINE t == now % ClockPeriod
<1>1. /\ ClockPeriod \in Nat \ {0} /\ now \in Nat /\ lastAt \in Nat
      /\ lastAt <= now
  BY ClockAssumption DEF ClockInv, ClockTypeOK, Split
<1>2. /\ t \in 0..(ClockPeriod - 1) /\ t <= now
  BY <1>1, DivMod, ModAtMost
<1>3. (anyRecord /\ now - lastAt < ClockPeriod)
         => now - t = IF t < ts_prev_us THEN lastAt - ts_prev_us + ClockPeriod
                      ELSE lastAt - ts_prev_us
  <2> SUFFICES ASSUME anyRecord, now - lastAt < ClockPeriod
               PROVE  now - t = IF t < ts_prev_us
                                THEN lastAt - ts_prev_us + ClockPeriod
                                ELSE lastAt - ts_prev_us
    OBVIOUS
  <2>1. ts_prev_us = lastAt % ClockPeriod
    BY DEF ClockInv, Split
  <2>2. now - t = IF t < (lastAt % ClockPeriod)
                  THEN lastAt - (lastAt % ClockPeriod) + ClockPeriod
                  ELSE lastAt - (lastAt % ClockPeriod)
    BY <1>1, Wrap
  <2> QED BY <2>1, <2>2
<1>4. /\ anyRecord' = TRUE
      /\ ts_prev_us' = t
      /\ ts_hi_us' = HighPart(t)
      /\ ts_prev_extended_us' = HighPart(t) + t
      /\ interval_us' = IntervalTo(HighPart(t) + t)
      /\ lastAt' = now
      /\ base' = IF anyRecord THEN base ELSE now - t
      /\ slipped' = (slipped \/ (anyRecord /\ now - lastAt >= ClockPeriod))
      /\ now' = now
  BY DEF Stamp
<1> HIDE DEF t
<1>5. /\ ts_hi_us \in Nat /\ ts_prev_us \in 0..(ClockPeriod - 1)
      /\ ts_prev_extended_us = ts_hi_us + ts_prev_us /\ base \in Nat
      /\ interval_us \in Nat /\ now \in 0..MaxTime
  BY DEF ClockInv, ClockTypeOK, Split
<1>6. /\ HighPart(t) \in Nat
      /\ HighPart(t) + t >= ts_prev_extended_us
  BY <1>1, <1>2, <1>5 DEF HighPart, Wraps, ClockInv, Split
<1>7. (anyRecord /\ now - lastAt < ClockPeriod) => interval_us' = now - lastAt
  BY <1>1, <1>2, <1>3, <1>4, <1>5 DEF HighPart, Wraps, IntervalTo
<1>8. ClockTypeOK'
  BY <1>1, <1>2, <1>4, <1>5, <1>6 DEF ClockTypeOK, IntervalTo
<1>9. Split'
  BY <1>1, <1>2, <1>4 DEF Split, t
<1>10. ClockExact'
  <2>1. CASE anyRecord /\ ~slipped /\ now - lastAt < ClockPeriod
    BY <2>1, <1>1, <1>2, <1>3, <1>4, <1>5
       DEF ClockExact, ClockInv, HighPart, Wraps
  <2>2. CASE ~anyRecord
    BY <2>2, <1>1, <1>2, <1>4, <1>5
       DEF ClockExact, ClockInv, ClockTypeOK, Split, HighPart, Wraps
  <2>3. CASE anyRecord /\ (slipped \/ now - lastAt >= ClockPeriod)
    BY <2>3, <1>4 DEF ClockExact
  <2> QED BY <1>1, <2>1, <2>2, <2>3
<1> QED BY <1>4, <1>6, <1>7, <1>8, <1>9, <1>10 DEF ClockInv

LEMMA ClockStep == ClockInv /\ [ClockNext]_clockVars => ClockInv'
<1> SUFFICES ASSUME ClockInv, [ClockNext]_clockVars PROVE ClockInv'
  OBVIOUS
<1>1. CASE Elapse
  BY <1>1, ClockAssumption
     DEF Elapse, clock, past, ClockInv, ClockTypeOK, Split, ClockExact
<1>2. CASE Stamp
  BY <1>2, StampStep
<1>3. CASE UNCHANGED clockVars
  BY <1>3 DEF clockVars, clock, past, ClockInv, ClockTypeOK, Split, ClockExact
<1> QED BY <1>1, <1>2, <1>3 DEF ClockNext

THEOREM ClockCorrect == ClockSpec => []ClockInv
BY ClockStart, ClockStep, PTL DEF ClockSpec

---------------------------------------------------------------------------
(* Every step of ReceivePath is a step of the clock. *)

LEMMA PathInit == Init => ClockInit
BY DEF Init

LEMMA PathStep == [Next]_vars => [ClockNext]_clockVars
<1> SUFFICES ASSUME [Next]_vars PROVE ClockNext \/ UNCHANGED clockVars
  OBVIOUS
<1>1. CASE Elapse /\ UNCHANGED pathVars
  BY <1>1 DEF ClockNext
<1>2. CASE Advertise
  BY <1>2 DEF Advertise, DecodeAdvertising, ClockNext
<1>3. ASSUME NEW c \in Connections, Connect(c)
      PROVE  ClockNext \/ UNCHANGED clockVars
  BY <1>3 DEF Connect, DecodeAdvertising, ClockNext, clockVars
<1>4. CASE Disconnect
  BY <1>4 DEF Disconnect, clockVars
<1>5. CASE NextEvent
  BY <1>5 DEF NextEvent, clockVars
<1>6. CASE CentralSends
  BY <1>6 DEF CentralSends, Capture, Miss, DecodeData, ClockNext, clockVars
<1>7. CASE PeripheralSends
  BY <1>7 DEF PeripheralSends, Capture, Miss, DecodeData, ClockNext, clockVars
<1>8. CASE UNCHANGED vars
  BY <1>8 DEF vars
<1> QED BY <1>1, <1>2, <1>3, <1>4, <1>5, <1>6, <1>7, <1>8 DEF Next

\* The receive path refines the clock.
THEOREM RefinesClock == Spec => ClockSpec
BY PathInit, PathStep, PTL DEF Spec, ClockSpec

\* As long as no two records are a whole period apart, the extended time of
\* every record is its true time less the periods before the first record.
THEOREM TimeExact == Spec => []ClockExact
<1>1. ClockInv => ClockExact
  BY DEF ClockInv
<1> QED BY <1>1, RefinesClock, ClockCorrect, PTL

\* The extended time never runs backwards, whatever the gaps.
THEOREM TimeNeverBack == Spec => StampsNeverDecrease
<1>1. ClockInv /\ [ClockNext]_clockVars
         => [ts_prev_extended_us' >= ts_prev_extended_us]_clockVars
  <2> SUFFICES ASSUME ClockInv, ClockNext
               PROVE  ts_prev_extended_us' >= ts_prev_extended_us
    OBVIOUS
  <2>1. CASE Elapse
    BY <2>1 DEF Elapse, clock, ClockInv, ClockTypeOK
  <2>2. CASE Stamp
    BY <2>2, StampStep
  <2> QED BY <2>1, <2>2 DEF ClockNext
<1> QED
  BY <1>1, RefinesClock, ClockCorrect, PTL DEF ClockSpec, StampsNeverDecrease

\* The interval reported with a record is the true one, whenever it is less
\* than a period.
THEOREM IntervalsExact == Spec => IntervalExact
<1> DEFINE A == (anyRecord /\ lastAt' # lastAt /\ lastAt' - lastAt < ClockPeriod)
                   => interval_us' = lastAt' - lastAt
<1>1. ClockInv /\ [ClockNext]_clockVars => [A]_clockVars
  <2> SUFFICES ASSUME ClockInv, ClockNext PROVE A
    OBVIOUS
  <2>1. CASE Elapse
    BY <2>1 DEF Elapse, past
  <2>2. CASE Stamp
    BY <2>2, StampStep
  <2> QED BY <2>1, <2>2 DEF ClockNext
<1> QED
  BY <1>1, RefinesClock, ClockCorrect, PTL DEF ClockSpec, IntervalExact
---------------------------------------------------------------------------
(* The link. *)

\* Parities alternate.
LEMMA BitFacts ==
    \A n \in Nat : Bit(n) \in {0, 1} /\ Bit(n + 1) = 1 - Bit(n)
BY SMT DEF Bit

LinkTypes ==
    /\ connection_active \in BOOLEAN
    /\ connection \in Connections \cup {NoConn}
    /\ previous_event_phase \in {0, 1, NoPhase}
    /\ direction_state \in {0, 1}
    /\ previous_nesn \in {0, 1}
    /\ previous_sn \in {0, 1}
    /\ hdr \in [link : {"none", "advertising", "data"},
                conn : Connections \cup {NoConn},
                direction : {"unknown", "initiator_to_advertiser",
                             "advertiser_to_initiator"},
                class : 0..3]
    /\ followed \in Connections \cup {NoConn}
    /\ used \subseteq Connections
    /\ phase \in {0, 1}
    /\ turn \in Peers \cup {"none"}
    /\ sC \in Nat /\ rC \in Nat /\ sP \in Nat /\ rP \in Nat
    /\ tracked \in BOOLEAN
    /\ lastPhase \in {0, 1, NoPhase}
    /\ anchored \in BOOLEAN
    /\ heard \in Peers \cup {"none"}
    /\ truth \in [sender : Peers \cup {"none"}, adjacent : BOOLEAN, acks : BOOLEAN]

\* Where the alternating-bit exchange can stand: nothing has arrived, or the
\* central has the peripheral's packet, or the peripheral has the central's.
Exchange ==
    \/ sC = 0 /\ rC = 0 /\ sP = 0 /\ rP = 0
    \/ rP = sC /\ rC = sP + 1
    \/ rP = sC + 1 /\ rC = sP

\* An anchored state is the central's NESN-SN parity, which the exchange keeps.
Parity ==
    anchored => /\ Synced(rC, rP)
                /\ connection_active
                /\ direction_state = Differ(Bit(rC), Bit(sC))

\* The classifier's last packet is what the peer just heard has sent.
Replies ==
    connection_active =>
        /\ heard = "central" => previous_sn = Bit(sC) /\ previous_nesn = Bit(rC)
        /\ heard = "peripheral" => previous_sn = Bit(sP) /\ previous_nesn = Bit(rP)

\* The classifier remembers the phase of the packet before, and only of one
\* of the same connection.
Remembers == previous_event_phase = lastPhase

Follows ==
    tracked => /\ connection_active
               /\ followed # NoConn => connection = followed

LinkInv ==
    /\ LinkTypes
    /\ Exchange
    /\ Parity
    /\ Replies
    /\ Remembers
    /\ Follows
    /\ DirectionFaithful
    /\ ClassTellsDelivery
    /\ DataAttributed

LEMMA LinkStart == Init => LinkInv
<1> SUFFICES ASSUME Init PROVE LinkInv
  OBVIOUS
<1>1. LinkTypes
  <2>1. hdr \in [link : {"none", "advertising", "data"},
                conn : Connections \cup {NoConn},
                direction : {"unknown", "initiator_to_advertiser",
                             "advertiser_to_initiator"},
                class : 0..3]
    BY DEF Init, NoHeader
  <2>2. truth \in [sender : Peers \cup {"none"}, adjacent : BOOLEAN, acks : BOOLEAN]
    BY DEF Init, NoTruth
  <2> QED BY <2>1, <2>2 DEF Init, LinkTypes
<1>2. Exchange /\ Parity /\ Replies /\ Remembers /\ Follows
  BY DEF Init, Exchange, Parity, Replies, Remembers, Follows
<1>3. DirectionFaithful /\ ClassTellsDelivery /\ DataAttributed
  BY DEF Init, NoHeader, NoTruth, DirectionFaithful, ClassTellsDelivery,
         DataAttributed
<1> QED BY <1>1, <1>2, <1>3 DEF LinkInv

\* Steps that neither decode a data packet nor move the exchange.
LEMMA QuietStep ==
    ASSUME LinkInv,
           \/ Elapse /\ UNCHANGED pathVars
           \/ Advertise
           \/ Disconnect
           \/ NextEvent
           \/ UNCHANGED vars
    PROVE  LinkInv'
<1> USE DEF LinkInv
<1>1. CASE (Elapse /\ UNCHANGED pathVars) \/ UNCHANGED vars
  BY <1>1 DEF pathVars, vars, tracking, classifier, peers, ghosts, LinkTypes,
     Exchange, Parity, Replies, Remembers, Follows, DirectionFaithful, ClassTellsDelivery,
     DataAttributed
<1>2. CASE Advertise
  <2>1. LinkTypes'
    BY <1>2 DEF Advertise, DecodeAdvertising, NoHeader, NoTruth, Peers,
       LinkTypes, tracking, classifier, peers
  <2>2. Exchange' /\ Parity' /\ Replies' /\ Remembers' /\ Follows'
    BY <1>2 DEF Advertise, Exchange, Parity, Replies, Remembers, Follows, tracking,
       classifier, peers
  <2>3. DirectionFaithful' /\ ClassTellsDelivery' /\ DataAttributed'
    BY <1>2 DEF Advertise, DecodeAdvertising, NoHeader, NoTruth,
       DirectionFaithful, ClassTellsDelivery, DataAttributed
  <2> QED BY <2>1, <2>2, <2>3
<1>3. CASE Disconnect
  BY <1>3 DEF Disconnect, tracking, classifier, peers, ghosts, LinkTypes,
     Exchange, Parity, Replies, Remembers, Follows, DirectionFaithful, ClassTellsDelivery,
     DataAttributed
<1>4. CASE NextEvent
  BY <1>4 DEF NextEvent, tracking, classifier, Peers, LinkTypes,
     Exchange, Parity, Replies, Remembers, Follows, DirectionFaithful, ClassTellsDelivery,
     DataAttributed
<1> QED BY <1>1, <1>2, <1>3, <1>4

LEMMA ConnectStep ==
    ASSUME LinkInv, NEW c \in Connections, Connect(c)
    PROVE  LinkInv'
<1>1. LinkTypes'
  <2>1. hdr' \in [link : {"none", "advertising", "data"},
                conn : Connections \cup {NoConn},
                direction : {"unknown", "initiator_to_advertiser",
                             "advertiser_to_initiator"},
                class : 0..3]
    BY DEF LinkInv, LinkTypes, Connect, DecodeAdvertising, NoHeader
  <2>2. truth' \in [sender : Peers \cup {"none"}, adjacent : BOOLEAN, acks : BOOLEAN]
    BY DEF Connect, NoTruth
  <2>3. /\ connection_active' \in BOOLEAN
        /\ connection' \in Connections \cup {NoConn}
        /\ previous_event_phase' \in {0, 1, NoPhase}
        /\ direction_state' \in {0, 1}
        /\ previous_nesn' \in {0, 1}
        /\ previous_sn' \in {0, 1}
    BY DEF LinkInv, LinkTypes, Connect, Accept, tracking, classifier
  <2> QED BY <2>1, <2>2, <2>3 DEF LinkInv, LinkTypes, Connect, Peers
<1>2. Exchange' /\ Parity' /\ Replies' /\ Remembers' /\ Follows'
  <2>1. Exchange' /\ Parity' /\ Replies'
    BY DEF LinkInv, LinkTypes, Connect, Accept, Exchange, Parity, Replies
  <2>2. Remembers'
    BY DEF LinkInv, Connect, Accept, classifier, Remembers
  <2>3. Follows'
    BY DEF LinkInv, Connect, Accept, tracking, Follows
  <2> QED BY <2>1, <2>2, <2>3
<1>3. DirectionFaithful' /\ ClassTellsDelivery' /\ DataAttributed'
  BY DEF Connect, NoTruth, DirectionFaithful, ClassTellsDelivery, DataAttributed
<1> QED BY <1>1, <1>2, <1>3 DEF LinkInv

\* What is reported of a captured packet of x.
LEMMA CaptureReports ==
    ASSUME NEW x, NEW sn, NEW nesn, NEW acks, Capture(x, sn, nesn, acks)
    PROVE  /\ truth'.sender = x
           /\ truth'.adjacent = (heard = Other(x))
           /\ truth'.acks = acks
           /\ connection_active =>
                 /\ hdr'.link = "data"
                 /\ hdr'.conn = connection
                 /\ hdr'.direction = IF Reverse(sn, nesn) # 0
                                     THEN "advertiser_to_initiator"
                                     ELSE "initiator_to_advertiser"
                 /\ hdr'.class = SequenceClass(sn, nesn)
           /\ ~connection_active => hdr'.link = "advertising"
<1>1. truth' = [sender |-> x, adjacent |-> heard = Other(x), acks |-> acks]
  BY DEF Capture
<1>2. CASE connection_active
  BY <1>1, <1>2 DEF Capture, DecodeData
<1>3. CASE ~connection_active
  BY <1>1, <1>3 DEF Capture, DecodeData, NoHeader
<1> QED BY <1>2, <1>3

\* What a captured packet leaves behind has its type.
CaptureTyped ==
    /\ previous_event_phase' \in {0, 1, NoPhase}
    /\ direction_state' \in {0, 1}
    /\ previous_nesn' \in {0, 1}
    /\ previous_sn' \in {0, 1}
    /\ hdr' \in [link : {"none", "advertising", "data"},
                 conn : Connections \cup {NoConn},
                 direction : {"unknown", "initiator_to_advertiser",
                              "advertiser_to_initiator"},
                 class : 0..3]
    /\ heard' \in Peers \cup {"none"}
    /\ truth' \in [sender : Peers \cup {"none"}, adjacent : BOOLEAN,
                   acks : BOOLEAN]
    /\ anchored' \in BOOLEAN
    /\ lastPhase' \in {0, 1, NoPhase}

\* A captured packet of x, whatever becomes of it at the other peer.
LEMMA CaptureTypes ==
    ASSUME LinkTypes, NEW x \in Peers, NEW sn \in {0, 1}, NEW nesn \in {0, 1},
           NEW acks \in BOOLEAN, Capture(x, sn, nesn, acks)
    PROVE  CaptureTyped
<1>1. SequenceClass(sn, nesn) \in 0..3
  BY DEF SequenceClass
<1>2. DirectionState(sn, nesn) \in {0, 1}
  BY DEF LinkTypes, DirectionState, Differ
<1>3. CASE connection_active
  <2>1. hdr' = [link |-> "data", conn |-> connection,
                direction |-> IF Reverse(sn, nesn) # 0
                              THEN "advertiser_to_initiator"
                              ELSE "initiator_to_advertiser",
                class |-> SequenceClass(sn, nesn)]
    BY <1>3 DEF Capture, DecodeData
  <2>2. /\ previous_event_phase' = phase
        /\ direction_state' = DirectionState(sn, nesn)
        /\ previous_nesn' = nesn
        /\ previous_sn' = sn
    BY <1>3 DEF Capture, DecodeData, Classify
  <2>3. hdr' \in [link : {"none", "advertising", "data"},
                  conn : Connections \cup {NoConn},
                  direction : {"unknown", "initiator_to_advertiser",
                               "advertiser_to_initiator"},
                  class : 0..3]
    BY <1>1, <2>1 DEF LinkTypes
  <2>4. /\ heard' = x
        /\ truth' = [sender |-> x, adjacent |-> heard = Other(x), acks |-> acks]
        /\ anchored' \in BOOLEAN
        /\ lastPhase' \in {0, 1, NoPhase}
    BY DEF LinkTypes, Capture
  <2> QED BY <1>2, <2>2, <2>3, <2>4 DEF LinkTypes, CaptureTyped
<1>4. CASE ~connection_active
  BY <1>4 DEF LinkTypes, Capture, DecodeData, NoHeader, classifier, CaptureTyped
<1> QED BY <1>3, <1>4

\* A packet of the central.
LEMMA CentralStep ==
    ASSUME LinkInv, CentralSends
    PROVE  LinkInv'
<1> USE DEF LinkInv
<1>1. /\ sC \in Nat /\ rC \in Nat /\ sP \in Nat /\ rP \in Nat
      /\ sC' = sC /\ rC' = rC
      /\ rP' = rP \/ (rP' = rP + 1 /\ Bit(sC) = Bit(rP))
      /\ sP' = sP \/ (sP' = sP + 1 /\ Bit(rC) # Bit(sP))
      /\ (rP' = rP + 1 /\ Bit(rC) # Bit(sP)) => sP' = sP + 1
      /\ (sP' = sP + 1 /\ Bit(sC) = Bit(rP)) => rP' = rP + 1
      /\ followed' = followed /\ used' = used /\ phase' = phase
      /\ turn' \in Peers \cup {"none"}
  BY DEF LinkTypes, CentralSends, Peers, Fates
<1>2. Exchange'
  BY <1>1, BitFacts DEF Exchange
<1>3. Bit(sC) \in {0, 1} /\ Bit(rC) \in {0, 1}
  BY <1>1, BitFacts
<1>4. CASE Miss
  <2>1. LinkTypes'
    BY <1>1, <1>4 DEF Miss, LinkTypes, tracking, classifier, Peers
  <2>2. Synced(rC, rP) => Synced(rC', rP')
    BY <1>1 DEF Synced
  <2>3. Parity' /\ Replies' /\ Remembers' /\ Follows'
    BY <1>1, <1>4, <2>2 DEF Miss, tracking, classifier, Parity, Replies, Remembers, Follows
  <2>4. DirectionFaithful' /\ ClassTellsDelivery' /\ DataAttributed'
    BY <1>1, <1>4 DEF Miss, DirectionFaithful, ClassTellsDelivery, DataAttributed
  <2> QED BY <1>2, <2>1, <2>3, <2>4
<1>5. CASE Capture("central", Bit(sC), Bit(rC), rC > sP)
  <2>1. LinkTypes'
    <3>1. "central" \in Peers /\ (rC > sP) \in BOOLEAN
      BY <1>1 DEF Peers
    <3>2. /\ connection_active' = connection_active /\ connection' = connection
          /\ tracked' = tracked
      BY <1>5 DEF Capture, tracking
    <3>3. rP' \in Nat /\ sP' \in Nat
      BY <1>1
    <3>4. CaptureTyped
      BY <1>3, <1>5, <3>1, CaptureTypes
    <3>5. LinkTypes
      OBVIOUS
    <3> QED BY <1>1, <3>2, <3>3, <3>4, <3>5 DEF LinkTypes, CaptureTyped
  <2>2. Follows'
    BY <1>1, <1>5 DEF Capture, tracking, Follows
  <2>3. Replies' /\ Remembers'
    BY <1>1, <1>5
       DEF Capture, tracking, classifier, DecodeData, Classify, Replies, Remembers
  <2>4. Synced(rC, rP) => Synced(rC', rP')
    BY <1>1 DEF Synced
  <2>5. Parity'
    <3>1. CASE connection_active /\ NewEvent
      BY <1>1, <1>5, <3>1
         DEF Capture, NewEvent, Remembers, tracking, DecodeData, Classify, DirectionState, Parity, Differ
    <3>2. CASE ~(connection_active /\ NewEvent)
      BY <1>1, <1>5, <2>4, <3>2
         DEF Capture, NewEvent, Remembers, tracking, classifier, DecodeData, Classify, DirectionState,
             Parity
    <3> QED BY <3>1, <3>2
  <2>6. DirectionFaithful'
    <3>1. CASE connection_active
      <4>1. anchored' => Reverse(Bit(sC), Bit(rC)) = 0
        BY <1>5, <3>1 DEF Capture, NewEvent, Remembers, Reverse, Parity, Differ
      <4> QED BY <1>5, <3>1, <4>1, CaptureReports DEF DirectionFaithful
    <3>2. CASE ~connection_active
      BY <1>5, <3>2, CaptureReports DEF DirectionFaithful
    <3> QED BY <3>1, <3>2
  <2>7. ClassTellsDelivery'
    <3>1. CASE connection_active /\ heard = "peripheral"
      <4>1. previous_sn = Bit(sP)
        BY <3>1 DEF Replies
      <4>2. (Bit(sP) # Bit(rC)) <=> rC > sP
        BY <1>1, BitFacts DEF Exchange
      <4>3. (SequenceClass(Bit(sC), Bit(rC)) \in {0, 1}) <=> (rC > sP)
        BY <4>1, <4>2 DEF SequenceClass
      <4>4. /\ hdr'.class = SequenceClass(Bit(sC), Bit(rC))
            /\ truth'.acks = (rC > sP)
        BY <1>5, <3>1, CaptureReports
      <4>5. (hdr'.class \in {0, 1}) <=> truth'.acks
        BY <4>3, <4>4, Zenon
      <4> QED BY <4>5 DEF ClassTellsDelivery
    <3>2. CASE ~connection_active
      BY <1>5, <3>2, CaptureReports DEF ClassTellsDelivery
    <3>3. CASE heard # "peripheral"
      BY <1>5, <3>3, CaptureReports DEF Other, ClassTellsDelivery
    <3> QED BY <3>1, <3>2, <3>3
  <2>8. DataAttributed'
    BY <1>1, <1>5 DEF Capture, tracking, DecodeData, Follows, DataAttributed
  <2> QED BY <1>2, <2>1, <2>2, <2>3, <2>5, <2>6, <2>7, <2>8
<1> QED BY <1>4, <1>5 DEF CentralSends

\* A packet of the peripheral: the parity of its NESN and SN is the other one.
LEMMA PeripheralStep ==
    ASSUME LinkInv, PeripheralSends
    PROVE  LinkInv'
<1> USE DEF LinkInv
<1>1. /\ sC \in Nat /\ rC \in Nat /\ sP \in Nat /\ rP \in Nat
      /\ sP' = sP /\ rP' = rP
      /\ rC' = rC \/ (rC' = rC + 1 /\ Bit(sP) = Bit(rC))
      /\ sC' = sC \/ (sC' = sC + 1 /\ Bit(rP) # Bit(sC))
      /\ (rC' = rC + 1 /\ Bit(rP) # Bit(sC)) => sC' = sC + 1
      /\ (sC' = sC + 1 /\ Bit(sP) = Bit(rC)) => rC' = rC + 1
      /\ followed' = followed /\ used' = used /\ phase' = phase
      /\ turn' \in Peers \cup {"none"}
  BY DEF LinkTypes, PeripheralSends, Peers, Fates
<1>2. Exchange'
  BY <1>1, BitFacts DEF Exchange
<1>3. Bit(sP) \in {0, 1} /\ Bit(rP) \in {0, 1}
  BY <1>1, BitFacts
<1>4. Synced(rC, rP) => /\ Synced(rC', rP')
                        /\ Differ(Bit(rC'), Bit(sC')) = Differ(Bit(rC), Bit(sC))
                        /\ Differ(Bit(rP), Bit(sP)) # Differ(Bit(rC), Bit(sC))
  BY <1>1, BitFacts DEF Synced, Differ, Exchange
<1>5. CASE Miss
  <2>1. LinkTypes'
    BY <1>1, <1>5 DEF Miss, LinkTypes, tracking, classifier, Peers
  <2>2. Parity' /\ Replies' /\ Remembers' /\ Follows'
    BY <1>1, <1>4, <1>5 DEF Miss, tracking, classifier, Parity, Replies, Remembers, Follows
  <2>3. DirectionFaithful' /\ ClassTellsDelivery' /\ DataAttributed'
    BY <1>1, <1>5 DEF Miss, DirectionFaithful, ClassTellsDelivery, DataAttributed
  <2> QED BY <1>2, <2>1, <2>2, <2>3
<1>6. CASE Capture("peripheral", Bit(sP), Bit(rP), rP > sC)
  <2>1. LinkTypes'
    <3>1. "peripheral" \in Peers /\ (rP > sC) \in BOOLEAN
      BY <1>1 DEF Peers
    <3>2. /\ connection_active' = connection_active /\ connection' = connection
          /\ tracked' = tracked
      BY <1>6 DEF Capture, tracking
    <3>3. rC' \in Nat /\ sC' \in Nat
      BY <1>1
    <3>4. CaptureTyped
      BY <1>3, <1>6, <3>1, CaptureTypes
    <3>5. LinkTypes
      OBVIOUS
    <3> QED BY <1>1, <3>2, <3>3, <3>4, <3>5 DEF LinkTypes, CaptureTyped
  <2>2. Follows'
    BY <1>1, <1>6 DEF Capture, tracking, Follows
  <2>3. Replies' /\ Remembers'
    BY <1>1, <1>6
       DEF Capture, tracking, classifier, DecodeData, Classify, Replies, Remembers
  <2>4. Parity'
    <3>1. CASE connection_active /\ NewEvent
      BY <1>6, <3>1 DEF Capture, NewEvent, Remembers, Parity
    <3>2. CASE ~(connection_active /\ NewEvent)
      BY <1>1, <1>4, <1>6, <3>2
         DEF Capture, NewEvent, Remembers, tracking, classifier, DecodeData, Classify, DirectionState,
             Parity
    <3> QED BY <3>1, <3>2
  <2>5. DirectionFaithful'
    <3>1. CASE connection_active
      <4>1. anchored' => Reverse(Bit(sP), Bit(rP)) = 1
        BY <1>4, <1>6, <3>1 DEF Capture, NewEvent, Remembers, Reverse, Parity, Differ
      <4> QED BY <1>6, <3>1, <4>1, CaptureReports DEF DirectionFaithful
    <3>2. CASE ~connection_active
      BY <1>6, <3>2, CaptureReports DEF DirectionFaithful
    <3> QED BY <3>1, <3>2
  <2>6. ClassTellsDelivery'
    <3>1. CASE connection_active /\ heard = "central"
      <4>1. previous_sn = Bit(sC)
        BY <3>1 DEF Replies
      <4>2. (Bit(sC) # Bit(rP)) <=> rP > sC
        BY <1>1, BitFacts DEF Exchange
      <4>3. (SequenceClass(Bit(sP), Bit(rP)) \in {0, 1}) <=> (rP > sC)
        BY <4>1, <4>2 DEF SequenceClass
      <4>4. /\ hdr'.class = SequenceClass(Bit(sP), Bit(rP))
            /\ truth'.acks = (rP > sC)
        BY <1>6, <3>1, CaptureReports
      <4>5. (hdr'.class \in {0, 1}) <=> truth'.acks
        BY <4>3, <4>4, Zenon
      <4> QED BY <4>5 DEF ClassTellsDelivery
    <3>2. CASE ~connection_active
      BY <1>6, <3>2, CaptureReports DEF ClassTellsDelivery
    <3>3. CASE heard # "central"
      BY <1>6, <3>3, CaptureReports DEF Other, ClassTellsDelivery
    <3> QED BY <3>1, <3>2, <3>3
  <2>7. DataAttributed'
    BY <1>1, <1>6 DEF Capture, tracking, DecodeData, Follows, DataAttributed
  <2> QED BY <1>2, <2>1, <2>2, <2>3, <2>4, <2>5, <2>6, <2>7
<1> QED BY <1>5, <1>6 DEF PeripheralSends

THEOREM LinkCorrect == Spec => []LinkInv
<1>1. LinkInv /\ [Next]_vars => LinkInv'
  BY QuietStep, ConnectStep, CentralStep, PeripheralStep DEF Next
<1> QED BY <1>1, LinkStart, PTL DEF Spec

\* Every variable keeps its type.
THEOREM TypeCorrect == Spec => []TypeOK
<1>1. ClockInv /\ LinkInv => TypeOK
  BY DEF ClockInv, LinkInv, LinkTypes, TypeOK
<1> QED BY <1>1, LinkCorrect, RefinesClock, ClockCorrect, PTL

\* Once a central's packet was the first one captured of an event, every
\* direction reported is the true one, whatever is lost and missed and whatever
\* connections came before.
THEOREM DirectionsTrue == Spec => []DirectionFaithful
<1>1. LinkInv => DirectionFaithful
  BY DEF LinkInv
<1> QED BY <1>1, LinkCorrect, PTL

\* The class of an answer tells whether it acknowledges what it answers.
THEOREM ClassesTrue == Spec => []ClassTellsDelivery
<1>1. LinkInv => ClassTellsDelivery
  BY DEF LinkInv
<1> QED BY <1>1, LinkCorrect, PTL

\* Data is reported with the parameters of its own connection.
THEOREM Attribution == Spec => []DataAttributed
<1>1. LinkInv => DataAttributed
  BY DEF LinkInv
<1> QED BY <1>1, LinkCorrect, PTL
============================================================================

----------------------- MODULE ConnectionFollowProofs -----------------------
(***************************************************************************)
(* Theorems about ConnectionFollow: for every set of CONNECT_INDs, every   *)
(* width of the clock and of the event counter, every choice of times and  *)
(* guards, and every pseudo-random number of 16 bits.                      *)
(***************************************************************************)
EXTENDS ConnectionFollow, Arithmetic, FiniteSetTheorems

---------------------------------------------------------------------------
(* Channel maps. *)

Maps == SUBSET (0..39)

LEMMA MapFinite ==
    ASSUME NEW S \in Maps, NEW c \in Nat
    PROVE  /\ IsFiniteSet(S)
           /\ IsFiniteSet({d \in S : d < c})
           /\ Rank(S, c) \in Nat
<1>1. IsFiniteSet(0..39)
  <2>1. 0 \in Int /\ 39 \in Int
    OBVIOUS
  <2> QED BY <2>1, FS_Interval
<1>2. S \subseteq 0..39 /\ {d \in S : d < c} \subseteq 0..39
  BY DEF Maps
<1>3. IsFiniteSet(S) /\ IsFiniteSet({d \in S : d < c})
  BY <1>1, <1>2, FS_Subset
<1> QED BY <1>3, FS_CardinalityType DEF Rank

\* No channel is below channel 0.
LEMMA RankZero ==
    ASSUME NEW S \in Maps
    PROVE  Rank(S, 0) = 0
<1>1. \A d \in S : d \in 0..39
  BY DEF Maps
<1>2. \A d \in S : ~(d < 0)
  BY <1>1
<1>3. {d \in S : d < 0} = {}
  BY <1>2
<1> QED BY <1>3, FS_EmptySet DEF Rank

\* What one turn of the loop adds.
LEMMA RankNext ==
    ASSUME NEW S \in Maps, NEW c \in Nat
    PROVE  Rank(S, c + 1) = IF c \in S THEN Rank(S, c) + 1 ELSE Rank(S, c)
<1> DEFINE B == {d \in S : d < c}
<1>0. \A d \in S : d \in Nat
  BY DEF Maps
<1>1. CASE c \in S
  <2>0. \A d \in S : d < c + 1 <=> d < c \/ d = c
    BY <1>0
  <2>1. {d \in S : d < c + 1} = B \cup {c} /\ c \notin B
    <3>1. c \notin B
      BY <1>0
    <3>2. {d \in S : d < c + 1} = B \cup {c}
      BY <1>1, <2>0, Zenon
    <3> QED BY <3>1, <3>2
  <2>2. IsFiniteSet(B)
    BY MapFinite
  <2> HIDE DEF B
  <2>3. Cardinality(B \cup {c}) = Cardinality(B) + 1
    BY <2>1, <2>2, FS_AddElement
  <2> QED BY <1>1, <2>1, <2>3 DEF Rank, B
<1>2. CASE c \notin S
  <2>0. \A d \in S : d < c + 1 <=> d < c
    BY <1>0, <1>2
  <2>1. {d \in S : d < c + 1} = B
    BY <2>0, Zenon
  <2> QED BY <1>2, <2>1 DEF Rank
<1> QED BY <1>1, <1>2

\* All used channels are below 37.
LEMMA RankAll ==
    ASSUME NEW S \in Maps, S \cap 37..39 = {}
    PROVE  Rank(S, 37) = Cardinality(S)
<1>1. \A d \in S : d \in 0..39 /\ d \notin 37..39
  BY DEF Maps
<1>2. \A d \in S : d < 37
  BY <1>1
<1>3. {d \in S : d < 37} = S
  BY <1>2, Zenon
<1> QED BY <1>3 DEF Rank

---------------------------------------------------------------------------
(* Hopping. *)

\* The closed form takes one hop more for the next event.
LEMMA StepNext ==
    ASSUME NEW n \in Nat
    PROVE  /\ event_step(n) \in 0..36
           /\ event_step(n + 1) = IF event_step(n) = 36 THEN 0
                                  ELSE event_step(n) + 1
BY SMT DEF event_step

LEMMA HopNext ==
    ASSUME NEW n \in Nat, NEW h \in Nat
    PROVE  (event_step(n + 1) * h) % 37 = (((event_step(n) * h) % 37) + h) % 37
<1> DEFINE s == event_step(n)
           p == s * h
<1>1. s \in 0..36 /\ event_step(n + 1) = IF s = 36 THEN 0 ELSE s + 1
  BY StepNext
<1> HIDE DEF s
<1>2. p \in Nat
  BY <1>1, SMT
<1>3. CASE s = 36
  <2>1. p = 36 * h
    BY <1>3
  <2> HIDE DEF p
  <2>2. (((p % 37) + h) % 37) = (p + h) % 37
    BY <1>2, SMT
  <2>3. (p + h) % 37 = 0
    <3>1. 37 \in Nat \ {0} /\ p + h \in Nat /\ h \in Int /\ 0 \in 0..(37 - 1)
          /\ p + h = 37 * h + 0
      BY <1>2, <2>1
    <3> QED BY <3>1, ModUnique
  <2>4. event_step(n + 1) * h = 0
    BY <1>1, <1>3
  <2> QED BY <2>2, <2>3, <2>4 DEF p, s
<1>4. CASE s # 36
  <2>1. event_step(n + 1) * h = p + h
    BY <1>1, <1>4, SMT
  <2> HIDE DEF p
  <2>2. (((p % 37) + h) % 37) = (p + h) % 37
    BY <1>2, SMT
  <2> QED BY <2>1, <2>2 DEF p, s
<1> QED BY <1>3, <1>4

---------------------------------------------------------------------------
(* The remapping index is inside the table. *)

Scaled(N, prn) == (N * prn) \div 65536

LEMMA IndexInTable ==
    ASSUME NEW N \in Nat \ {0}, NEW prn \in UInt16
    PROVE  Scaled(N, prn) \in 0..(N - 1)
<1>0. prn \in Nat /\ prn <= 65535
  BY SMT DEF UInt16
<1>2. N * (65535 - prn) \in Nat /\ N * prn \in Nat
  BY <1>0, ProductNat
<1>3. N * (65535 - prn) = 65535 * N - N * prn
  BY <1>0, SMT
<1> DEFINE p == N * prn
<1>4. p \in Nat /\ p <= 65535 * N
  BY <1>2, <1>3
<1> HIDE DEF p
<1>5. p \div 65536 \in 0..(N - 1)
  BY <1>4, SMT
<1> QED BY <1>5 DEF p, Scaled

---------------------------------------------------------------------------
(* Arithmetic of 64 bits. *)

LEMMA WrapFacts ==
    ASSUME NEW t \in Nat
    PROVE  /\ Wrap(t) \in 0..MaxTime
           /\ t <= MaxTime => Wrap(t) = t
<1>1. MaxTime + 1 \in Nat \ {0}
  BY FollowAssumption
<1> DEFINE m == MaxTime + 1
<1>2. t % m \in 0..(m - 1)
  BY <1>1, DivMod
<1>3. t <= MaxTime => t \in 0..(m - 1)
  BY FollowAssumption
<1>4. t <= MaxTime => t % m = t
  BY <1>1, <1>3, ModSmall
<1>5. MaxTime = m - 1
  BY FollowAssumption
<1> QED BY <1>2, <1>4, <1>5 DEF Wrap

\* The overflow test is exact, and what passes it is not wrapped.
LEMMA AnchorFacts ==
    ASSUME NEW n \in Nat, params.interval_units \in Nat, first \in 0..MaxTime
    PROVE  /\ Anchor(n) \in 0..MaxTime
           /\ first + n * params.interval_units \in Nat
           /\ IF AnchorOverflows(n)
              THEN first + n * params.interval_units > MaxTime
              ELSE Anchor(n) = first + n * params.interval_units
<1> DEFINE i == params.interval_units
           x == n * i
<1>1. x \in Nat
  BY ProductNat
<1>2. MaxTime \in Nat /\ first \in Nat /\ MaxTime - first \in Nat
  BY FollowAssumption
<1>3. n # 0 => (AnchorOverflows(n) <=> x > MaxTime - first)
  BY <1>2, DivisionTest DEF AnchorOverflows
<1>4. n = 0 => ~AnchorOverflows(n) /\ x = 0
  BY DEF AnchorOverflows
<1>5. Wrap(x) \in 0..MaxTime /\ (x <= MaxTime => Wrap(x) = x)
  BY <1>1, WrapFacts
<1>6. Anchor(n) = Wrap(first + Wrap(x))
  BY DEF Anchor
<1> HIDE DEF x
<1>7. first + Wrap(x) \in Nat
  BY <1>2, <1>5
<1>8. /\ Anchor(n) \in 0..MaxTime
      /\ first + Wrap(x) <= MaxTime => Anchor(n) = first + Wrap(x)
  BY <1>6, <1>7, WrapFacts
<1>9. AnchorOverflows(n) => first + x > MaxTime
  BY <1>1, <1>2, <1>3, <1>4
<1>10. ~AnchorOverflows(n) => x <= MaxTime - first
  BY <1>1, <1>2, <1>3, <1>4
<1>11. ~AnchorOverflows(n) => Anchor(n) = first + x
  BY <1>1, <1>2, <1>5, <1>8, <1>10
<1>12. first + x \in Nat
  BY <1>1, <1>2
<1> QED BY <1>8, <1>9, <1>11, <1>12 DEF x

---------------------------------------------------------------------------
(* The invariant. *)

\* The connection followed is the one the parameters are of.
Kept ==
    /\ conn = params
    /\ params # NoParams => ParseStatus(params) = "ok"
    /\ params = NoParams => event.status = "none" /\ window.status = "none"

Settled ==
    (params # NoParams /\ channel_algorithm_resolved) =>
        channel_algorithm = IF params.chsel /\ advertiser_chsel THEN 2 ELSE 1

\* The closed form is where step-by-step hopping has come to.
InStep ==
    params # NoParams =>
        /\ counter = ordinal % CounterPeriod
        /\ unmapped = (event_step(ordinal) * params.hop_increment) % 37

\* The table holds the used channels below the cursor, in order.
Tabled ==
    /\ pc = "idle" => cursor = 0 /\ table = <<>>
    /\ params # NoParams =>
          /\ Len(table) = Rank(params.channel_map, cursor)
          /\ \A i \in 1..Len(table) :
                /\ table[i] \in params.channel_map
                /\ Rank(params.channel_map, table[i]) = i - 1

\* A scan is under way only for an event that can be computed.
Asked ==
    pc = "scan" => /\ params # NoParams
                   /\ EarlyStatus(ordinal, guard[2]) = "ok"

FollowInv ==
    /\ TypeOK
    /\ Kept
    /\ Settled
    /\ InStep
    /\ Tabled
    /\ Asked
    /\ OnTheLinksChannel
    /\ TimesExact
    /\ WindowExact
    /\ AcceptedIsSchedulable

\* What the parser has checked.
LEMMA CheckedFacts ==
    ASSUME NEW p \in ConnectInds
    PROVE  /\ p.interval_units \in Nat
           /\ p.win_offset_units \in Nat
           /\ p.win_size_units \in Nat
           /\ p.hop_increment \in Nat
           /\ p.channel_map \in Maps
           /\ p.chsel \in BOOLEAN
           /\ ParseStatus(p) = "ok" =>
                 /\ p.hop_increment \in 5..16
                 /\ p.channel_map \cap 37..39 = {}
                 /\ Cardinality(p.channel_map) >= 2
<1>1. IsPdu(p)
  BY FollowAssumption
<1>2. /\ p.interval_units \in Nat
      /\ p.win_offset_units \in Nat
      /\ p.win_size_units \in 0..255
      /\ p.hop_increment \in 0..31
      /\ p.chsel \in BOOLEAN
  BY <1>1 DEF IsPdu
<1>5. p.channel_map \in Maps
  BY <1>1 DEF IsPdu, Maps
<1>3. ASSUME ParseStatus(p) = "ok"
      PROVE  /\ p.hop_increment \in 5..16
             /\ p.channel_map \cap 37..39 = {}
             /\ ~(Cardinality(p.channel_map) < 2)
  <2>1. validate_params(p) = "ok"
    BY <1>3 DEF ParseStatus
  <2>2. ~HopOutOfRange(p)
    BY <2>1 DEF validate_params
  <2>3. p.channel_map \cap 37..39 = {}
    BY <2>1 DEF validate_params
  <2>4. ~(Cardinality(p.channel_map) < 2)
    BY <2>1 DEF validate_params
  <2>5. p.hop_increment \in 5..16
    BY <2>2 DEF HopOutOfRange
  <2> QED BY <2>3, <2>4, <2>5
<1>4. Cardinality(p.channel_map) \in Nat
  <2>1. IsFiniteSet(p.channel_map)
    <3>1. 0 \in Nat
      OBVIOUS
    <3> QED BY <1>5, <3>1, MapFinite
  <2> QED BY <2>1, FS_CardinalityType
<1>7. p.win_size_units \in Nat /\ p.hop_increment \in Nat
  BY <1>2
<1>8. ParseStatus(p) = "ok" => Cardinality(p.channel_map) >= 2
  BY <1>3, <1>4
<1> QED BY <1>2, <1>3, <1>5, <1>7, <1>8

LEMMA FollowStart == Init => FollowInv
<1> SUFFICES ASSUME Init PROVE FollowInv
  OBVIOUS
<1>0. /\ 0 \in 0..MaxTime /\ 0 \in 0..MaxOrdinal /\ 0 \in 0..(CounterPeriod - 1)
      /\ 0 \in Channels /\ 0 \in 0..BLE_DATA_CHANNEL_COUNT
  BY FollowAssumption DEF Channels, BLE_DATA_CHANNEL_COUNT
<1>1. TypeOK
  <2>1. event \in [status : Statuses, counter : 0..(CounterPeriod - 1),
                  channel : Channels, anchor : 0..MaxTime, start : 0..MaxTime,
                  end : 0..MaxTime]
    BY <1>0 DEF Init, NoEvent, Statuses
  <2>2. window \in [status : {"none", "ok", "overflow"}, start : 0..MaxTime,
                   end : 0..MaxTime]
    BY <1>0 DEF Init, NoWindow
  <2>3. table \in Seq(Channels)
    BY DEF Init
  <2>4. guard \in (0..MaxTime) \X (0..MaxTime)
    BY <1>0 DEF Init
  <2> QED BY <1>0, <2>1, <2>2, <2>3, <2>4 DEF Init, TypeOK
<1>2. Kept /\ Settled /\ InStep /\ Tabled /\ Asked
  BY DEF Init, Kept, Settled, InStep, Tabled, Asked, NoEvent, NoWindow
<1>3. OnTheLinksChannel /\ TimesExact /\ WindowExact /\ AcceptedIsSchedulable
  BY DEF Init, NoEvent, NoWindow, OnTheLinksChannel, TimesExact, WindowExact,
         AcceptedIsSchedulable
<1> QED BY <1>1, <1>2, <1>3 DEF FollowInv

\* The facts every step starts from.
LEMMA InvFacts ==
    ASSUME FollowInv
    PROVE  /\ first \in 0..MaxTime /\ sentAt \in 0..MaxTime /\ ordinal \in Nat
           /\ MaxTime \in Nat /\ CounterPeriod \in Nat \ {0}
           /\ params # NoParams =>
                 /\ params \in ConnectInds
                 /\ params.interval_units \in Nat
                 /\ params.win_offset_units \in Nat
                 /\ params.win_size_units \in Nat
                 /\ params.channel_map \in Maps
                 /\ params.hop_increment \in 5..16
                 /\ params.channel_map \cap 37..39 = {}
                 /\ Cardinality(params.channel_map) >= 2
<1>1. params # NoParams => params \in ConnectInds /\ ParseStatus(params) = "ok"
  BY DEF FollowInv, TypeOK, Kept
<1> QED
  BY <1>1, CheckedFacts, FollowAssumption DEF FollowInv, TypeOK

\* What was computed stays true while the connection stays put.
LEMMA ChannelFrame ==
    ASSUME OnTheLinksChannel, UNCHANGED <<event, link>>
    PROVE  OnTheLinksChannel'
<1>1. /\ event' = event /\ conn' = conn /\ counter' = counter
      /\ advertiser_chsel' = advertiser_chsel /\ unmapped' = unmapped
  BY DEF link
<1>2. UsesCsa2' = UsesCsa2 /\ LinkPrn' = LinkPrn
  BY <1>1 DEF UsesCsa2, LinkPrn
<1>3. LinkUnmapped' = LinkUnmapped
  BY <1>1, <1>2 DEF LinkUnmapped
<1>4. LinkIndex' = LinkIndex
  BY <1>1, <1>2, SMT DEF LinkIndex
<1> QED BY <1>1, <1>3, <1>4 DEF OnTheLinksChannel, OnChannel, Rank

LEMMA TimesFrame ==
    ASSUME TimesExact, UNCHANGED <<event, guard, link>>
    PROVE  TimesExact'
<1>1. /\ event' = event /\ guard' = guard /\ conn' = conn /\ first' = first
      /\ ordinal' = ordinal
  BY DEF link
<1> QED BY <1>1, Zenon DEF TimesExact

LEMMA WindowFrame ==
    ASSUME WindowExact, UNCHANGED <<window, conn, sentAt>>
    PROVE  WindowExact'
BY Zenon DEF WindowExact

LEMMA Frame ==
    ASSUME FollowInv, UNCHANGED <<event, guard, window, link>>
    PROVE  OnTheLinksChannel' /\ TimesExact' /\ WindowExact' /\ AcceptedIsSchedulable'
<1>1. AcceptedIsSchedulable'
  BY DEF FollowInv, AcceptedIsSchedulable
<1>2. conn' = conn /\ sentAt' = sentAt
  BY DEF link
<1> QED BY <1>1, <1>2, ChannelFrame, TimesFrame, WindowFrame DEF FollowInv

LEMMA StutterStep ==
    ASSUME FollowInv, UNCHANGED vars
    PROVE  FollowInv'
<1>1. TypeOK'
  BY DEF FollowInv, vars, algorithm, call, link, TypeOK
<1>2. Kept' /\ Settled' /\ InStep' /\ Tabled' /\ Asked'
  BY DEF FollowInv, vars, algorithm, call, link, Kept, Settled, InStep, Tabled,
     Asked, EarlyStatus, AnchorOverflows, Anchor
<1>3. OnTheLinksChannel' /\ TimesExact' /\ WindowExact' /\ AcceptedIsSchedulable'
  BY Frame DEF FollowInv, vars, call
<1> QED BY <1>1, <1>2, <1>3 DEF FollowInv

\* A good CONNECT_IND starts everything anew; a bad one changes nothing.
LEMMA HearStep ==
    ASSUME FollowInv, NEW p \in ConnectInds, Hear(p)
    PROVE  FollowInv'
<1> USE DEF FollowInv
<1>0. /\ 0 \in 0..MaxTime /\ 0 \in 0..MaxOrdinal /\ 0 \in 0..(CounterPeriod - 1)
      /\ 0 \in Channels /\ CounterPeriod \in Nat \ {0}
  BY FollowAssumption DEF Channels, BLE_DATA_CHANNEL_COUNT
<1>1. CASE ParseStatus(p) # "ok"
  <2>1. UNCHANGED vars
    BY <1>1 DEF Hear, Parsed, vars
  <2> QED BY <2>1, StutterStep
<1>2. CASE ParseStatus(p) = "ok"
  <2>1. /\ pc = "idle"
        /\ params' = p /\ conn' = p
        /\ channel_algorithm' = IF p.chsel THEN 2 ELSE 1
        /\ channel_algorithm_resolved' = ~p.chsel
        /\ advertiser_chsel' \in BOOLEAN
        /\ sentAt' \in Times /\ first' \in Times
        /\ ordinal' = 0 /\ counter' = 0
        /\ unmapped' = p.hop_increment % 37
        /\ window' = NoWindow /\ event' = NoEvent
        /\ pc' = pc /\ cursor' = cursor /\ table' = table /\ guard' = guard
    BY <1>2 DEF Hear, Parsed, call
  <2>2. p.hop_increment \in Nat /\ p.channel_map \in Maps /\ p.chsel \in BOOLEAN
    BY CheckedFacts
  <2>3. TypeOK'
    <3>1. event' \in [status : Statuses, counter : 0..(CounterPeriod - 1),
                  channel : Channels, anchor : 0..MaxTime, start : 0..MaxTime,
                  end : 0..MaxTime]
      BY <1>0, <2>1 DEF NoEvent, Statuses
    <3>2. window' \in [status : {"none", "ok", "overflow"}, start : 0..MaxTime,
                   end : 0..MaxTime]
      BY <1>0, <2>1 DEF NoWindow
    <3>3. sentAt' \in 0..MaxTime /\ first' \in 0..MaxTime
      BY <2>1, FollowAssumption
    <3>4. unmapped' \in Channels
      BY <2>1, <2>2 DEF Channels, BLE_DATA_CHANNEL_COUNT
    <3>5. /\ channel_algorithm' \in {1, 2}
          /\ channel_algorithm_resolved' \in BOOLEAN
      BY <2>1, <2>2
    <3> QED BY <1>0, <2>1, <3>1, <3>2, <3>3, <3>4, <3>5 DEF TypeOK
  <2>4. Kept'
    BY <1>2, <2>1 DEF Kept, NoEvent, NoWindow
  <2>5. Settled'
    BY <2>1, <2>2 DEF Settled
  <2>6. InStep'
    <3>1. 0 % CounterPeriod = 0
      BY <1>0, ModSmall
    <3>2. event_step(0) = 1
      BY DEF event_step
    <3>3. 1 * p.hop_increment = p.hop_increment
      BY <2>2
    <3> QED BY <2>1, <3>1, <3>2, <3>3 DEF InStep
  <2>7. Tabled'
    <3>1. Len(<<>>) = 0 /\ 1..0 = {}
      OBVIOUS
    <3> QED BY <2>1, <2>2, <3>1, RankZero DEF Tabled
  <2>8. Asked'
    BY <2>1 DEF Asked
  <2>9. OnTheLinksChannel' /\ TimesExact' /\ WindowExact' /\ AcceptedIsSchedulable'
    BY <2>1 DEF OnTheLinksChannel, TimesExact, WindowExact,
       AcceptedIsSchedulable, NoEvent, NoWindow
  <2> QED BY <2>3, <2>4, <2>5, <2>6, <2>7, <2>8, <2>9
<1> QED BY <1>1, <1>2

LEMMA ResolveStep ==
    ASSUME FollowInv, ble_conn_resolve_channel_algorithm
    PROVE  FollowInv'
<1> USE DEF FollowInv, ble_conn_resolve_channel_algorithm
<1>1. TypeOK'
  BY DEF TypeOK, call, link
<1>2. Kept' /\ Settled' /\ InStep' /\ Tabled' /\ Asked'
  BY DEF call, link, Kept, Settled, InStep, Tabled, Asked
<1>3. OnTheLinksChannel' /\ TimesExact' /\ WindowExact' /\ AcceptedIsSchedulable'
  BY Frame DEF call
<1> QED BY <1>1, <1>2, <1>3

LEMMA WindowStep ==
    ASSUME FollowInv, ble_conn_initial_window_us
    PROVE  FollowInv'
<1> USE DEF FollowInv
<1> DEFINE offset == 1 + params.win_offset_units
           size == params.win_size_units
           sum == sentAt + offset
           start == Wrap(sum)
<1>1. /\ params # NoParams /\ conn = params
      /\ window' = IF sentAt > MaxTime - offset \/ EndOverflows(start, size)
                   THEN [NoWindow EXCEPT !.status = "overflow"]
                   ELSE [status |-> "ok", start |-> start, end |-> Wrap(start + size)]
      /\ UNCHANGED <<params, algorithm, call, event, link>>
  BY DEF ble_conn_initial_window_us, Kept
<1>2. /\ offset \in Nat /\ size \in Nat /\ sentAt \in Nat /\ MaxTime \in Nat
      /\ sum \in Nat
  BY <1>1, InvFacts
<1>3. start \in 0..MaxTime /\ (sum <= MaxTime => start = sum)
  BY <1>2, WrapFacts
<1>4. start + size \in Nat
  BY <1>2, <1>3
<1>5. /\ Wrap(start + size) \in 0..MaxTime
      /\ start + size <= MaxTime => Wrap(start + size) = start + size
  BY <1>4, WrapFacts
<1>6. /\ window' \in [status : {"none", "ok", "overflow"}, start : 0..MaxTime,
                      end : 0..MaxTime]
      /\ window'.status = "ok" =>
            /\ ~(sentAt > MaxTime - offset) /\ ~EndOverflows(start, size)
            /\ window'.start = start /\ window'.end = Wrap(start + size)
      /\ window'.status = "overflow" =>
            sentAt > MaxTime - offset \/ EndOverflows(start, size)
  <2>1. 0 \in 0..MaxTime
    BY <1>2
  <2>2. CASE sentAt > MaxTime - offset \/ EndOverflows(start, size)
    <3>1. window' = [status |-> "overflow", start |-> 0, end |-> 0]
      BY <1>1, <2>2 DEF NoWindow
    <3> QED BY <2>1, <2>2, <3>1
  <2>3. CASE ~(sentAt > MaxTime - offset \/ EndOverflows(start, size))
    <3>1. window' = [status |-> "ok", start |-> start, end |-> Wrap(start + size)]
      BY <1>1, <2>3
    <3> HIDE DEF start
    <3> QED BY <1>3, <1>5, <2>3, <3>1
  <2> QED BY <2>2, <2>3
<1>7. WindowExact'
  <2>1. conn' = params /\ sentAt' = sentAt
    BY <1>1 DEF link
  <2>2. /\ sum = sentAt + 1 + params.win_offset_units
        /\ sum = sentAt + offset
        /\ size = params.win_size_units
    <3>1. params.win_offset_units \in Nat
      BY <1>1, InvFacts
    <3> QED BY <1>2, <3>1
  <2> HIDE DEF start, sum, size, offset
  <2>3. window'.status = "ok" =>
            window'.start = sum /\ window'.end = sum + size
    BY <1>2, <1>3, <1>5, <1>6, <2>2, InvFacts, <1>1 DEF EndOverflows
  <2>4. window'.status = "overflow" => sum + size > MaxTime
    BY <1>2, <1>3, <1>5, <1>6, <2>2, InvFacts, <1>1 DEF EndOverflows
  <2> QED BY <2>1, <2>2, <2>3, <2>4 DEF WindowExact
<1>8. TypeOK'
  BY <1>1, <1>6 DEF TypeOK, algorithm, call, link
<1>9. Kept' /\ Settled' /\ InStep' /\ Tabled' /\ Asked'
  BY <1>1 DEF algorithm, call, link, Kept, Settled, InStep, Tabled, Asked,
     EarlyStatus, AnchorOverflows, Anchor
<1>10. OnTheLinksChannel' /\ TimesExact' /\ AcceptedIsSchedulable'
  BY <1>1, ChannelFrame, TimesFrame DEF call, AcceptedIsSchedulable
<1> QED BY <1>7, <1>8, <1>9, <1>10

\* A request is refused for a reason that holds, or starts a scan.
LEMMA RequestStep ==
    ASSUME FollowInv, NEW g \in Guards, ble_conn_make_radio_event(g)
    PROVE  FollowInv'
<1> USE DEF FollowInv
<1> DEFINE status == EarlyStatus(ordinal, g[2])
<1>1. /\ pc = "idle" /\ params # NoParams /\ guard' = g
      /\ \/ /\ status # "ok"
            /\ event' = [NoEvent EXCEPT !.status = status]
            /\ UNCHANGED <<pc, cursor, table>>
         \/ /\ status = "ok"
            /\ pc' = "scan" /\ event' = NoEvent
            /\ UNCHANGED <<cursor, table>>
      /\ UNCHANGED <<params, algorithm, window, link>>
  BY DEF ble_conn_make_radio_event
<1>2. /\ g \in (0..MaxTime) \X (0..MaxTime)
      /\ 0 \in 0..MaxTime /\ 0 \in 0..(CounterPeriod - 1) /\ 0 \in Channels
  BY FollowAssumption DEF Channels, BLE_DATA_CHANNEL_COUNT
<1>3. g[2] \in 0..MaxTime
  BY <1>2
<1>4. /\ params.hop_increment \in 5..16 /\ params.interval_units \in Nat
      /\ first \in 0..MaxTime /\ ordinal \in Nat /\ MaxTime \in Nat
  BY <1>1, InvFacts
<1>5. status \in {"ok", "overflow", "csa unresolved"}
  BY <1>4 DEF EarlyStatus
<1>6. status = "overflow" =>
         first + ordinal * params.interval_units + g[2] > MaxTime
  <2>1. status = "overflow" =>
           AnchorOverflows(ordinal) \/ Anchor(ordinal) > MaxTime - g[2]
    BY DEF EarlyStatus
  <2> DEFINE a == first + ordinal * params.interval_units
  <2>2. /\ Anchor(ordinal) \in 0..MaxTime /\ a \in Nat
        /\ IF AnchorOverflows(ordinal) THEN a > MaxTime ELSE Anchor(ordinal) = a
    BY <1>4, AnchorFacts
  <2> HIDE DEF a, status
  <2>3. status = "overflow" => a + g[2] > MaxTime
    BY <1>3, <1>4, <2>1, <2>2
  <2> QED BY <2>3 DEF a
<1> HIDE DEF status
<1>7. /\ event' \in [status : Statuses, counter : 0..(CounterPeriod - 1),
                  channel : Channels, anchor : 0..MaxTime, start : 0..MaxTime,
                  end : 0..MaxTime]
      /\ event'.status \in {"none", "overflow", "csa unresolved"}
      /\ event'.status = "overflow" => status = "overflow"
  <2>1. CASE status = "ok"
    <3>1. event' = [status |-> "none", counter |-> 0, channel |-> 0,
                    anchor |-> 0, start |-> 0, end |-> 0]
      BY <1>1, <2>1 DEF NoEvent
    <3> QED BY <1>2, <3>1 DEF Statuses
  <2>2. CASE status # "ok"
    <3>1. event' = [status |-> status, counter |-> 0, channel |-> 0,
                    anchor |-> 0, start |-> 0, end |-> 0]
      BY <1>1, <2>2 DEF NoEvent
    <3> QED BY <1>2, <1>5, <2>2, <3>1 DEF Statuses
  <2> QED BY <2>1, <2>2
<1>8. TypeOK'
  BY <1>1, <1>2, <1>7 DEF TypeOK, algorithm, link
<1>9. Kept' /\ Settled' /\ InStep' /\ Tabled'
  BY <1>1 DEF algorithm, link, Kept, Settled, InStep, Tabled, Asked
<1>10. Asked'
  <2>1. EarlyStatus(ordinal, g[2])' = EarlyStatus(ordinal, g[2])
    BY <1>1 DEF EarlyStatus, AnchorOverflows, Anchor, algorithm, link
  <2>2. pc' = "scan" => status = "ok"
    BY <1>1
  <2> QED BY <1>1, <2>1, <2>2 DEF Asked, status, link
<1>11. TimesExact'
  <2>1. conn = params /\ conn' = conn /\ first' = first /\ ordinal' = ordinal
    BY <1>1 DEF Kept, link
  <2> QED BY <1>1, <1>6, <1>7, <2>1 DEF TimesExact
<1>12. OnTheLinksChannel' /\ AcceptedIsSchedulable'
  BY <1>7 DEF OnTheLinksChannel, AcceptedIsSchedulable
<1>13. WindowExact'
  BY <1>1, WindowFrame DEF link
<1> QED BY <1>8, <1>9, <1>10, <1>11, <1>12, <1>13

\* One turn of the loop puts the next used channel at the table's end.
LEMMA LoopStep ==
    ASSUME FollowInv, build_remapping_table
    PROVE  FollowInv'
<1> USE DEF FollowInv
<1> DEFINE S == params.channel_map
<1>1. /\ pc = "scan" /\ cursor < 37 /\ cursor' = cursor + 1
      /\ table' = IF cursor \in S THEN Append(table, cursor) ELSE table
      /\ UNCHANGED <<params, algorithm, pc, guard, window, event, link>>
  BY DEF build_remapping_table, BLE_DATA_CHANNEL_COUNT
<1>2. params # NoParams
  BY <1>1 DEF Asked
<1>3. S \in Maps /\ table \in Seq(Channels) /\ cursor \in 0..37
  BY <1>2, InvFacts DEF TypeOK, BLE_DATA_CHANNEL_COUNT
<1>4. cursor \in Channels /\ cursor \in Nat
  BY <1>1, <1>3 DEF Channels, BLE_DATA_CHANNEL_COUNT
<1>5. TypeOK'
  <2>1. table' \in Seq(Channels)
    BY <1>1, <1>3, <1>4
  <2>2. cursor' \in 0..BLE_DATA_CHANNEL_COUNT
    BY <1>1, <1>3 DEF BLE_DATA_CHANNEL_COUNT
  <2> QED BY <1>1, <2>1, <2>2 DEF TypeOK, algorithm, link
<1>6. Tabled'
  <2>1. /\ Len(table) = Rank(S, cursor) /\ Len(table) \in Nat
        /\ \A i \in 1..Len(table) : table[i] \in S /\ Rank(S, table[i]) = i - 1
    BY <1>2, <1>3 DEF Tabled
  <2>2. Rank(S, cursor + 1) = IF cursor \in S THEN Rank(S, cursor) + 1
                              ELSE Rank(S, cursor)
    BY <1>3, <1>4, RankNext
  <2>3. params' = params
    BY <1>1
  <2> HIDE DEF S
  <2>4. CASE cursor \in S
    <3>1. /\ Len(table') = Len(table) + 1
          /\ table'[Len(table) + 1] = cursor
          /\ \A i \in 1..Len(table) : table'[i] = table[i]
      BY <1>1, <1>3, <1>4, <2>4
    <3>2. Len(table') = Rank(S, cursor')
      BY <1>1, <2>1, <2>2, <2>4, <3>1
    <3>3. ASSUME NEW i \in 1..Len(table')
          PROVE  table'[i] \in S /\ Rank(S, table'[i]) = i - 1
      <4>1. CASE i = Len(table) + 1
        BY <2>1, <2>4, <3>1, <4>1
      <4>2. CASE i # Len(table) + 1
        <5>1. i \in 1..Len(table)
          BY <2>1, <3>1, <4>2
        <5> QED BY <2>1, <3>1, <5>1
      <4> QED BY <4>1, <4>2
    <3> QED BY <1>1, <2>3, <3>2, <3>3 DEF Tabled, S
  <2>5. CASE cursor \notin S
    <3>1. table' = table
      BY <1>1, <2>5
    <3>2. Len(table') = Rank(S, cursor')
      BY <1>1, <2>1, <2>2, <2>5, <3>1
    <3> QED BY <1>1, <2>1, <2>3, <3>1, <3>2 DEF Tabled, S
  <2> QED BY <2>4, <2>5
<1>7. Kept' /\ Settled' /\ InStep'
  BY <1>1 DEF algorithm, link, Kept, Settled, InStep
<1>8. Asked'
  BY <1>1 DEF Asked, EarlyStatus, AnchorOverflows, Anchor, algorithm, link
<1>9. OnTheLinksChannel' /\ TimesExact' /\ WindowExact' /\ AcceptedIsSchedulable'
  BY <1>1, Frame
<1> QED BY <1>5, <1>6, <1>7, <1>8, <1>9

\* The connection's next event is one more hop of both.
LEMMA NextEventStep ==
    ASSUME FollowInv, Hop
    PROVE  FollowInv'
<1> USE DEF FollowInv
<1>1. /\ pc = "idle" /\ conn # NoParams /\ ordinal < MaxOrdinal
      /\ ordinal' = ordinal + 1
      /\ counter' = (counter + 1) % CounterPeriod
      /\ unmapped' = (unmapped + conn.hop_increment) % 37
      /\ event' = NoEvent
      /\ UNCHANGED <<params, algorithm, call, window, conn, advertiser_chsel,
                     sentAt, first>>
  BY DEF Hop
<1>2. conn = params /\ params # NoParams
  BY <1>1 DEF Kept
<1>3. /\ ordinal \in Nat /\ CounterPeriod \in Nat \ {0} /\ MaxOrdinal \in Nat
      /\ params.hop_increment \in 5..16 /\ params.hop_increment \in Nat
      /\ 0 \in 0..MaxTime /\ 0 \in 0..(CounterPeriod - 1) /\ 0 \in Channels
  BY <1>2, InvFacts, FollowAssumption DEF Channels, BLE_DATA_CHANNEL_COUNT
<1>4. /\ counter = ordinal % CounterPeriod
      /\ unmapped = (event_step(ordinal) * params.hop_increment) % 37
  BY <1>2 DEF InStep
<1>5. InStep'
  <2>1. counter' = (ordinal + 1) % CounterPeriod
    BY <1>1, <1>3, <1>4, ModNext
  <2>2. unmapped' = (event_step(ordinal + 1) * params.hop_increment) % 37
    BY <1>1, <1>2, <1>3, <1>4, HopNext
  <2> QED BY <1>1, <2>1, <2>2 DEF InStep
<1>6. TypeOK'
  <2>1. event' \in [status : Statuses, counter : 0..(CounterPeriod - 1),
                  channel : Channels, anchor : 0..MaxTime, start : 0..MaxTime,
                  end : 0..MaxTime]
    BY <1>1, <1>3 DEF NoEvent, Statuses
  <2>2. counter' \in 0..(CounterPeriod - 1)
    <3>1. counter + 1 \in Nat
      BY <1>3 DEF TypeOK
    <3> QED BY <1>1, <1>3, <3>1, DivMod
  <2>3. unmapped' \in Channels
    <3>0. unmapped \in 0..36
      BY DEF TypeOK, Channels, BLE_DATA_CHANNEL_COUNT
    <3>1. unmapped + conn.hop_increment \in Nat
      BY <1>2, <1>3, <3>0
    <3> QED BY <1>1, <3>1 DEF Channels, BLE_DATA_CHANNEL_COUNT
  <2>4. ordinal' \in 0..MaxOrdinal
    BY <1>1, <1>3
  <2> QED BY <1>1, <2>1, <2>2, <2>3, <2>4 DEF TypeOK, algorithm, call
<1>7. Kept' /\ Settled' /\ Tabled' /\ Asked'
  BY <1>1, <1>2 DEF algorithm, call, Kept, Settled, Tabled, Asked, NoEvent
<1>8. OnTheLinksChannel' /\ TimesExact' /\ AcceptedIsSchedulable'
  BY <1>1 DEF OnTheLinksChannel, TimesExact, AcceptedIsSchedulable, NoEvent
<1>9. WindowExact'
  BY <1>1, WindowFrame
<1> QED BY <1>5, <1>6, <1>7, <1>8, <1>9

\* At the end of the scan the table is the whole map, so the channel that is
\* selected is the link's.
LEMMA ChannelIsTheLinks ==
    ASSUME FollowInv, pc = "scan", cursor = 37
    PROVE  /\ Len(table) >= 2
           /\ Channel(ordinal) \in Channels
           /\ OnChannel(Channel(ordinal))
<1> USE DEF FollowInv
<1> DEFINE S == params.channel_map
           N == Len(table)
           prn == ble_csa2_prn_e(params.access_address, EventCounter(ordinal))
<1>1. params # NoParams /\ conn = params
  BY DEF Asked, Kept
<1>2. /\ params \in ConnectInds /\ S \in Maps /\ S \cap 37..39 = {}
      /\ Cardinality(S) >= 2 /\ ordinal \in Nat /\ CounterPeriod \in Nat \ {0}
      /\ params.hop_increment \in 5..16
  BY <1>1, InvFacts
<1>3. /\ N = Cardinality(S) /\ N \in Nat /\ N >= 2
      /\ \A i \in 1..N : table[i] \in S /\ Rank(S, table[i]) = i - 1
  <2>1. /\ N = Rank(S, 37)
        /\ \A i \in 1..N : table[i] \in S /\ Rank(S, table[i]) = i - 1
    BY <1>1 DEF Tabled
  <2>2. Rank(S, 37) = Cardinality(S)
    BY <1>2, RankAll
  <2>3. N \in Nat
    BY DEF TypeOK
  <2> QED BY <1>2, <2>1, <2>2, <2>3
<1>4. counter = EventCounter(ordinal)
      /\ unmapped = (event_step(ordinal) * params.hop_increment) % 37
  BY <1>1 DEF InStep, EventCounter
<1>5. EventCounter(ordinal) \in 0..(CounterPeriod - 1)
  BY <1>2, DivMod DEF EventCounter
<1>6. prn \in UInt16
  BY <1>2, <1>5, PrnAssumption
<1>7. channel_algorithm = IF UsesCsa2 THEN 2 ELSE 1
  <2>1. channel_algorithm_resolved
    BY DEF Asked, EarlyStatus
  <2> QED BY <1>1, <2>1 DEF Settled, UsesCsa2
<1>8. LinkPrn = prn
  BY <1>1, <1>4 DEF LinkPrn
<1>9. Unmapped(ordinal) = LinkUnmapped
  BY <1>4, <1>7, <1>8 DEF Unmapped, LinkUnmapped
<1>10. RemappingIndex(ordinal) = LinkIndex
  <2>1. CASE UsesCsa2
    <3>1. RemappingIndex(ordinal) = Scaled(N, prn)
      BY <1>7, <2>1 DEF RemappingIndex, Scaled
    <3>2. LinkIndex = Scaled(N, prn)
      BY <1>1, <1>3, <1>8, <2>1 DEF LinkIndex, Scaled
    <3> QED BY <3>1, <3>2
  <2>2. CASE ~UsesCsa2
    <3>1. RemappingIndex(ordinal) = Unmapped(ordinal) % N
      BY <1>7, <2>2, SMT DEF RemappingIndex
    <3>2. LinkIndex = unmapped % N
      BY <1>1, <1>3, <2>2, SMT DEF LinkIndex
    <3>3. LinkUnmapped = unmapped
      BY <2>2 DEF LinkUnmapped
    <3> QED BY <1>9, <3>1, <3>2, <3>3
  <2> QED BY <2>1, <2>2
<1>11. Unmapped(ordinal) \in 0..36
  <2>1. unmapped \in 0..36
    BY DEF TypeOK, Channels, BLE_DATA_CHANNEL_COUNT
  <2>2. prn % 37 \in 0..36
    <3> HIDE DEF prn
    <3> QED BY <1>6, SMT DEF UInt16
  <2> QED BY <1>8, <1>9, <2>1, <2>2 DEF LinkUnmapped
<1>12. RemappingIndex(ordinal) \in 0..(N - 1)
  <2>1. N \in Nat \ {0} /\ Unmapped(ordinal) \in Nat
    <3> HIDE DEF N
    <3>1. N \in Nat \ {0}
      BY <1>3
    <3>2. Unmapped(ordinal) \in Nat
      BY <1>11
    <3> QED BY <3>1, <3>2
  <2>2. CASE channel_algorithm = 1
    <3>1. RemappingIndex(ordinal) = Unmapped(ordinal) % N
      BY <2>2 DEF RemappingIndex
    <3> HIDE DEF N
    <3>2. Unmapped(ordinal) % N \in 0..(N - 1)
      BY <2>1, DivMod
    <3> QED BY <3>1, <3>2
  <2>3. CASE channel_algorithm # 1
    <3>1. RemappingIndex(ordinal) = Scaled(N, prn)
      BY <2>3 DEF RemappingIndex, Scaled
    <3> HIDE DEF N, prn
    <3>2. Scaled(N, prn) \in 0..(N - 1)
      BY <1>6, <2>1, IndexInTable
    <3> QED BY <3>1, <3>2
  <2> QED BY <2>2, <2>3
<1> DEFINE u == Unmapped(ordinal)
           k == RemappingIndex(ordinal)
<1>13. Channel(ordinal) = IF u \in S THEN u ELSE table[k + 1]
  BY DEF Channel
<1>14. S \subseteq Channels
  BY <1>2 DEF Maps, Channels, BLE_DATA_CHANNEL_COUNT
<1> HIDE DEF u, k, N
<1>15. k + 1 \in 1..N
  BY <1>3, <1>12 DEF k
<1>16. table[k + 1] \in S /\ Rank(S, table[k + 1]) = (k + 1) - 1
  BY <1>3, <1>15
<1>17. Rank(S, table[k + 1]) = k
  BY <1>3, <1>12, <1>16 DEF k
<1>18. OnChannel(Channel(ordinal))
  <2>1. CASE u \in S
    BY <1>1, <1>9, <1>13, <2>1 DEF OnChannel, u
  <2>2. CASE u \notin S
    BY <1>1, <1>9, <1>10, <1>13, <1>16, <1>17, <2>2 DEF OnChannel, u, k
  <2> QED BY <2>1, <2>2
<1>19. Channel(ordinal) \in Channels
  BY <1>13, <1>14, <1>16
<1> QED BY <1>3, <1>18, <1>19 DEF N

\* The times of the event that is selected are exact.
LEMMA TimesAreTheLinks ==
    ASSUME FollowInv, pc = "scan"
    PROVE  LET anchor == first + ordinal * conn.interval_units
               out == RadioEvent(ordinal)
           IN  /\ out.anchor = anchor /\ anchor \in 0..MaxTime
               /\ out.end = anchor + guard[2] /\ out.end \in 0..MaxTime
               /\ out.start = IF anchor > guard[1] THEN anchor - guard[1] ELSE 0
               /\ out.start \in 0..MaxTime
<1> USE DEF FollowInv
<1> DEFINE a == first + ordinal * conn.interval_units
<1>1. params # NoParams /\ conn = params /\ EarlyStatus(ordinal, guard[2]) = "ok"
  BY DEF Asked, Kept
<1>2. /\ params.interval_units \in Nat /\ first \in 0..MaxTime /\ ordinal \in Nat
      /\ MaxTime \in Nat
  BY <1>1, InvFacts
<1>3. guard[1] \in 0..MaxTime /\ guard[2] \in 0..MaxTime
  BY DEF TypeOK
<1>4. ~AnchorOverflows(ordinal) /\ ~(Anchor(ordinal) > MaxTime - guard[2])
  BY <1>1 DEF EarlyStatus
<1>5. Anchor(ordinal) = a /\ a \in 0..MaxTime
  BY <1>1, <1>2, <1>4, AnchorFacts
<1> HIDE DEF a
<1>6. a + guard[2] \in 0..MaxTime /\ a + guard[2] \in Nat
  BY <1>2, <1>3, <1>4, <1>5
<1>7. Wrap(a + guard[2]) = a + guard[2]
  BY <1>6, WrapFacts
<1>8. /\ RadioEvent(ordinal).anchor = a
      /\ RadioEvent(ordinal).end = a + guard[2]
      /\ RadioEvent(ordinal).start = IF a > guard[1] THEN a - guard[1] ELSE 0
  BY <1>5, <1>7 DEF RadioEvent
<1>9. (IF a > guard[1] THEN a - guard[1] ELSE 0) \in 0..MaxTime
  BY <1>2, <1>3, <1>5
<1> QED BY <1>5, <1>6, <1>8, <1>9 DEF a

LEMMA SelectStep ==
    ASSUME FollowInv, Select
    PROVE  FollowInv'
<1> USE DEF FollowInv
<1>1. /\ pc = "scan" /\ cursor = 37
      /\ pc' = "idle" /\ cursor' = 0 /\ table' = <<>>
      /\ UNCHANGED <<params, algorithm, guard, window, link>>
  BY DEF Select, BLE_DATA_CHANNEL_COUNT
<1>2. event' = RadioEvent(ordinal)
  <2>1. ~(Len(table) < 2)
    <3>1. Len(table) >= 2
      BY <1>1, ChannelIsTheLinks
    <3>2. Len(table) \in Nat
      BY DEF TypeOK
    <3> QED BY <3>1, <3>2
  <2> QED BY <2>1 DEF Select
<1>3. params # NoParams /\ conn = params /\ ordinal \in Nat
      /\ CounterPeriod \in Nat \ {0} /\ params.channel_map \in Maps
  BY <1>1, InvFacts DEF Asked, Kept
<1>4. /\ event'.status = "ok" /\ event'.channel = Channel(ordinal)
      /\ event'.counter = EventCounter(ordinal)
  BY <1>2 DEF RadioEvent
<1>5. EventCounter(ordinal) \in 0..(CounterPeriod - 1)
  BY <1>3, DivMod DEF EventCounter
<1> DEFINE a == first + ordinal * conn.interval_units
<1>6. /\ event'.anchor = a /\ a \in 0..MaxTime
      /\ event'.end = a + guard[2] /\ event'.end \in 0..MaxTime
      /\ event'.start = IF a > guard[1] THEN a - guard[1] ELSE 0
      /\ event'.start \in 0..MaxTime
  BY <1>1, <1>2, TimesAreTheLinks
<1>7. event' \in [status : Statuses, counter : 0..(CounterPeriod - 1),
                  channel : Channels, anchor : 0..MaxTime, start : 0..MaxTime,
                  end : 0..MaxTime]
  <2>1. event' = [status |-> event'.status, counter |-> event'.counter,
                  channel |-> event'.channel, anchor |-> event'.anchor,
                  start |-> event'.start, end |-> event'.end]
    BY <1>2 DEF RadioEvent
  <2>2. event'.channel \in Channels
    BY <1>1, <1>4, ChannelIsTheLinks
  <2>3. event'.status \in Statuses
    BY <1>4 DEF Statuses
  <2>4. event'.anchor \in 0..MaxTime
    BY <1>6
  <2> HIDE DEF a
  <2> QED BY <1>4, <1>5, <1>6, <2>1, <2>2, <2>3, <2>4
<1>8. TypeOK'
  <2>1. cursor' \in 0..BLE_DATA_CHANNEL_COUNT /\ table' \in Seq(Channels)
    BY <1>1 DEF BLE_DATA_CHANNEL_COUNT
  <2> QED BY <1>1, <1>7, <2>1 DEF TypeOK, algorithm, link
<1>9. Kept' /\ Settled' /\ InStep' /\ Asked'
  BY <1>1, <1>3 DEF algorithm, link, Kept, Settled, InStep, Asked
<1>10. Tabled'
  <2>1. Len(<<>>) = 0 /\ 1..0 = {}
    OBVIOUS
  <2>2. Rank(params.channel_map, 0) = 0
    BY <1>3, RankZero
  <2> QED BY <1>1, <2>1, <2>2 DEF Tabled
<1>11. OnTheLinksChannel'
  <2>1. OnChannel(Channel(ordinal))
    BY <1>1, ChannelIsTheLinks
  <2>2. conn' = conn /\ UsesCsa2' = UsesCsa2 /\ LinkPrn' = LinkPrn /\ unmapped' = unmapped
    BY <1>1 DEF link, UsesCsa2, LinkPrn
  <2>3. LinkUnmapped' = LinkUnmapped
    BY <2>2 DEF LinkUnmapped
  <2>4. LinkIndex' = LinkIndex
    BY <2>2, SMT DEF LinkIndex
  <2> QED BY <1>4, <2>1, <2>2, <2>3, <2>4 DEF OnTheLinksChannel, OnChannel, Rank
<1>12. TimesExact'
  <2>1. (first + ordinal * conn.interval_units)' = a /\ guard' = guard
    BY <1>1 DEF link
  <2>2. guard[1] \in 0..MaxTime
    BY DEF TypeOK
  <2> HIDE DEF a
  <2>3. /\ event'.start <= a
        /\ event'.start > 0 => event'.start = a - guard[1]
        /\ event'.start = 0 => a <= guard[1]
    BY <1>6, <2>2
  <2> QED BY <1>4, <1>6, <2>1, <2>3 DEF TimesExact
<1>13. WindowExact' /\ AcceptedIsSchedulable'
  BY <1>1, <1>4, WindowFrame DEF link, AcceptedIsSchedulable
<1> QED BY <1>8, <1>9, <1>10, <1>11, <1>12, <1>13

THEOREM FollowCorrect == Spec => []FollowInv
<1>1. FollowInv /\ [Next]_vars => FollowInv'
  BY HearStep, ResolveStep, WindowStep, RequestStep, LoopStep, SelectStep,
     NextEventStep, StutterStep DEF Next
<1> QED BY <1>1, FollowStart, PTL DEF Spec

\* Every variable keeps its type; the remapping table is never overrun.
THEOREM FollowTypes == Spec => []TypeOK
<1>1. FollowInv => TypeOK
  BY DEF FollowInv
<1> QED BY <1>1, FollowCorrect, PTL

\* Every computed event is on the channel that the connection is on: CSA#1's
\* closed form is the hopping, for every event and however often its counter
\* has wrapped.
THEOREM FollowsTheHops == Spec => []OnTheLinksChannel
<1>1. FollowInv => OnTheLinksChannel
  BY DEF FollowInv
<1> QED BY <1>1, FollowCorrect, PTL

\* Event times never wrap and are refused only when they do not fit.
THEOREM EventTimesExact == Spec => []TimesExact
<1>1. FollowInv => TimesExact
  BY DEF FollowInv
<1> QED BY <1>1, FollowCorrect, PTL

\* Nor do the times of the first transmit window.
THEOREM FirstWindowExact == Spec => []WindowExact
<1>1. FollowInv => WindowExact
  BY DEF FollowInv
<1> QED BY <1>1, FollowCorrect, PTL

\* What the parser accepts, the scheduler never rejects.
THEOREM AcceptedSchedulable == Spec => []AcceptedIsSchedulable
<1>1. FollowInv => AcceptedIsSchedulable
  BY DEF FollowInv
<1> QED BY <1>1, FollowCorrect, PTL
============================================================================

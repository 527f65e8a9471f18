-------------------------- MODULE ConnectionFollow --------------------------
(***************************************************************************)
(* ble_connection_follow.c: a CONNECT_IND is checked and kept, the channel *)
(* selection algorithm is settled once the advertiser's ChSel is known,    *)
(* and the radio event of any connection event can then be computed.       *)
(*                                                                         *)
(* Beside it runs the connection itself, which hops from event to event as *)
(* the Link Layer specification says: step by step, with a 16-bit counter. *)
(* Times are in units of 1.25 ms; MaxTime stands for UINT64_MAX.           *)
(***************************************************************************)
EXTENDS Integers, Sequences, FiniteSets

CONSTANTS
    ConnectInds,        \* PDUs that are given to the parser
    MaxTime,            \* UINT64_MAX
    CounterPeriod,      \* 2^16, the period of connEventCounter
    MaxOrdinal,         \* bound on the events of a connection
    Times,              \* times of CONNECT_INDs and of first anchors
    Guards,             \* listening margins: pairs early, late
    ble_csa2_prn_e(_, _)

BLE_DATA_CHANNEL_COUNT == 37
BLE_CONNECT_IND_PAYLOAD_LEN == 34
UnitsPer10ms == 8

Channels == 0..(BLE_DATA_CHANNEL_COUNT - 1)

UInt16 == 0..65535

\* A captured PDU: octets captured, header fields, and the LLData that
\* matters.  channel_map is the set of bits that are set in its five octets;
\* access_address is whatever ble_csa2_prn_e takes.
IsPdu(p) ==
    /\ p.available \in Nat
    /\ p.type \in 0..15
    /\ p.payload_len \in 0..63
    /\ p.win_size_units \in 0..255
    /\ p.win_offset_units \in Nat
    /\ p.interval_units \in Nat
    /\ p.peripheral_latency \in Nat
    /\ p.supervision_timeout_units \in Nat
    /\ p.channel_map \subseteq 0..39
    /\ p.hop_increment \in 0..31
    /\ p.chsel \in BOOLEAN

ASSUME FollowAssumption ==
    /\ \A p \in ConnectInds : IsPdu(p)
    /\ MaxTime \in Nat
    /\ CounterPeriod \in Nat \ {0}
    /\ MaxOrdinal \in Nat
    /\ Times \subseteq 0..MaxTime
    /\ Guards \subseteq (0..MaxTime) \X (0..MaxTime)

ASSUME PrnAssumption ==
    \A pdu \in ConnectInds, n \in 0..(CounterPeriod - 1) :
        ble_csa2_prn_e(pdu.access_address, n) \in UInt16

VARIABLES
    (* The caller's ble_conn_params_t. *)
    params,
    channel_algorithm,
    channel_algorithm_resolved,

    (* A ble_conn_make_radio_event in progress. *)
    pc,
    cursor, table,      \* build_remapping_table: next channel, table so far
    guard,              \* its early_guard_us and late_guard_us

    (* What the calls returned. *)
    window,             \* of ble_conn_initial_window_us
    event,              \* of ble_conn_make_radio_event, for the current event

    (* The connection. *)
    conn,               \* its CONNECT_IND
    advertiser_chsel,   \* ChSel of the advertisement it answered
    sentAt,             \* when the CONNECT_IND ended
    first,              \* anchor of its first event
    ordinal,            \* of the current event
    counter,            \* connEventCounter
    unmapped            \* unmappedChannel of CSA#1

algorithm == <<channel_algorithm, channel_algorithm_resolved>>
call == <<pc, cursor, table, guard>>
link == <<conn, advertiser_chsel, sentAt, first, ordinal, counter, unmapped>>
vars == <<params, algorithm, call, window, event, link>>

NoParams == [type |-> 0]

NoWindow == [status |-> "none", start |-> 0, end |-> 0]

NoEvent == [status |-> "none", counter |-> 0, channel |-> 0, anchor |-> 0,
            start |-> 0, end |-> 0]

Init ==
    /\ params = NoParams
    /\ channel_algorithm = 1
    /\ channel_algorithm_resolved = FALSE
    /\ pc = "idle"
    /\ cursor = 0
    /\ table = <<>>
    /\ guard = <<0, 0>>
    /\ window = NoWindow
    /\ event = NoEvent
    /\ conn = NoParams
    /\ advertiser_chsel = FALSE
    /\ sentAt = 0 /\ first = 0
    /\ ordinal = 0 /\ counter = 0 /\ unmapped = 0

---------------------------------------------------------------------------
(* ble_conn_parse_connect_ind. *)

\* The products stay below 2^32 and are made in 64 bits.
TimeoutTooShort(p) ==
    p.supervision_timeout_units * UnitsPer10ms
        <= (p.peripheral_latency + 1) * p.interval_units * 2

\* Fault: the longest hop is 17.
HopUpTo17(p) == p.hop_increment \notin 5..17

HopOutOfRange(p) == p.hop_increment \notin 5..16

validate_params(p) ==
    IF p.win_size_units \notin 1..8 THEN "window"
    ELSE IF p.interval_units \notin 6..3200 THEN "interval"
    ELSE IF p.win_offset_units > p.interval_units
            \/ p.win_size_units > p.interval_units - 1 THEN "window"
    ELSE IF p.peripheral_latency > 499 THEN "latency"
    ELSE IF p.supervision_timeout_units \notin 10..3200
            \/ TimeoutTooShort(p) THEN "timeout"
    ELSE IF p.channel_map \cap 37..39 # {}
            \/ Cardinality(p.channel_map) < 2 THEN "channel map"
    ELSE IF HopOutOfRange(p) THEN "hop"
    ELSE "ok"

ParseStatus(p) ==
    IF p.available < 2 THEN "truncated"
    ELSE IF p.type # 5 THEN "pdu type"
    ELSE IF p.payload_len # BLE_CONNECT_IND_PAYLOAD_LEN THEN "pdu length"
    ELSE IF p.available < p.payload_len + 2 THEN "truncated"
    ELSE validate_params(p)

\* What the parser leaves in *out.
Parsed(p) == IF ParseStatus(p) = "ok" THEN p ELSE params

\* A CONNECT_IND is heard and parsed.  If it is good, it starts a connection,
\* and the caller drops what it had computed for the last one.  If not, the
\* caller goes on with the connection it has.
Hear(p) ==
    /\ pc = "idle"
    /\ params' = Parsed(p)
    /\ \/ /\ ParseStatus(p) = "ok"
          /\ channel_algorithm' = IF p.chsel THEN 2 ELSE 1
          /\ channel_algorithm_resolved' = ~p.chsel
          /\ conn' = p
          /\ advertiser_chsel' \in BOOLEAN
          /\ sentAt' \in Times
          /\ first' \in Times
          /\ ordinal' = 0
          /\ counter' = 0
          /\ unmapped' = p.hop_increment % 37
          /\ window' = NoWindow
          /\ event' = NoEvent
       \/ /\ ParseStatus(p) # "ok"
          /\ UNCHANGED <<algorithm, link, window, event>>
    /\ UNCHANGED call

---------------------------------------------------------------------------
(* The other calls. *)

\* The caller has found the advertisement that the CONNECT_IND answered.
ble_conn_resolve_channel_algorithm ==
    /\ pc = "idle" /\ params # NoParams
    /\ channel_algorithm' = IF params.chsel /\ advertiser_chsel THEN 2 ELSE 1
    /\ channel_algorithm_resolved' = TRUE
    /\ UNCHANGED <<params, call, window, event, link>>

\* What is left of a sum in 64 bits.
Wrap(t) == t % (MaxTime + 1)

\* Fault: only the start is checked.
StartChecked(start, size) == FALSE

EndOverflows(start, size) == start > MaxTime - size

ble_conn_initial_window_us ==
    /\ pc = "idle" /\ params # NoParams
    /\ LET offset == 1 + params.win_offset_units
           size == params.win_size_units
           start == Wrap(sentAt + offset)
       IN  window' = IF sentAt > MaxTime - offset \/ EndOverflows(start, size)
                     THEN [NoWindow EXCEPT !.status = "overflow"]
                     ELSE [status |-> "ok", start |-> start,
                           end |-> Wrap(start + size)]
    /\ UNCHANGED <<params, algorithm, call, event, link>>

---------------------------------------------------------------------------
(* ble_conn_make_radio_event. *)

\* Fault: the product is compared after it has wrapped.
ComparedWrapped(n) ==
    Wrap(n * params.interval_units) > MaxTime - first

AnchorOverflows(n) ==
    n # 0 /\ params.interval_units > (MaxTime - first) \div n

Anchor(n) == Wrap(first + Wrap(n * params.interval_units))

\* The checks up to the remapping table, in their order.
EarlyStatus(n, late) ==
    IF AnchorOverflows(n) \/ Anchor(n) > MaxTime - late THEN "overflow"
    ELSE IF ~channel_algorithm_resolved THEN "csa unresolved"
    ELSE IF channel_algorithm = 1 /\ params.hop_increment \notin 5..16 THEN "hop"
    ELSE "ok"

\* The caller asks for the current event.
ble_conn_make_radio_event(g) ==
    /\ pc = "idle" /\ params # NoParams
    /\ guard' = g
    /\ LET status == EarlyStatus(ordinal, g[2])
       IN  \/ /\ status # "ok"
              /\ event' = [NoEvent EXCEPT !.status = status]
              /\ UNCHANGED <<pc, cursor, table>>
           \/ /\ status = "ok"
              /\ pc' = "scan"
              /\ event' = NoEvent
              /\ UNCHANGED <<cursor, table>>
    /\ UNCHANGED <<params, algorithm, window, link>>

\* One turn of the loop of build_remapping_table.
build_remapping_table ==
    /\ pc = "scan" /\ cursor < BLE_DATA_CHANNEL_COUNT
    /\ cursor' = cursor + 1
    /\ table' = IF cursor \in params.channel_map THEN Append(table, cursor)
                ELSE table
    /\ UNCHANGED <<params, algorithm, pc, guard, window, event, link>>

\* Fault: the 16-bit counter takes the ordinal's place.
StepOfCounter(n) == (((n % CounterPeriod) % 37) + 1) % 37

event_step(n) == ((n % 37) + 1) % 37

\* Fault: the counter is not truncated.
CounterOfOrdinal(n) == n

EventCounter(n) == n % CounterPeriod

\* ble_csa1_channel and ble_csa2_channel after the table.
Unmapped(n) ==
    IF channel_algorithm = 1 THEN (event_step(n) * params.hop_increment) % 37
    ELSE ble_csa2_prn_e(params.access_address, EventCounter(n)) % 37

RemappingIndex(n) ==
    IF channel_algorithm = 1 THEN Unmapped(n) % Len(table)
    ELSE (Len(table) * ble_csa2_prn_e(params.access_address, EventCounter(n)))
            \div 65536

Channel(n) ==
    IF Unmapped(n) \in params.channel_map THEN Unmapped(n)
    ELSE table[RemappingIndex(n) + 1]

RadioEvent(n) ==
    [status |-> "ok",
     counter |-> EventCounter(n),
     channel |-> Channel(n),
     anchor |-> Anchor(n),
     start |-> IF Anchor(n) > guard[1] THEN Anchor(n) - guard[1] ELSE 0,
     end |-> Wrap(Anchor(n) + guard[2])]

Select ==
    /\ pc = "scan" /\ cursor = BLE_DATA_CHANNEL_COUNT
    /\ pc' = "idle" /\ cursor' = 0 /\ table' = <<>>     \* locals
    /\ event' = IF Len(table) < 2 THEN [NoEvent EXCEPT !.status = "channel map"]
                ELSE RadioEvent(ordinal)
    /\ UNCHANGED <<params, algorithm, guard, window, link>>

---------------------------------------------------------------------------
(* The connection goes on to its next event. *)

Hop ==
    /\ pc = "idle" /\ conn # NoParams /\ ordinal < MaxOrdinal
    /\ ordinal' = ordinal + 1
    /\ counter' = (counter + 1) % CounterPeriod
    /\ unmapped' = (unmapped + conn.hop_increment) % 37
    /\ event' = NoEvent
    /\ UNCHANGED <<params, algorithm, call, window, conn, advertiser_chsel,
                   sentAt, first>>

Next ==
    \/ \E p \in ConnectInds : Hear(p)
    \/ ble_conn_resolve_channel_algorithm
    \/ ble_conn_initial_window_us
    \/ \E g \in Guards : ble_conn_make_radio_event(g)
    \/ build_remapping_table
    \/ Select
    \/ Hop

Spec == Init /\ [][Next]_vars

---------------------------------------------------------------------------
(* Properties. *)

Statuses == {"none", "ok", "overflow", "csa unresolved", "hop", "channel map"}

TypeOK ==
    /\ params \in ConnectInds \cup {NoParams}
    /\ channel_algorithm \in {1, 2}
    /\ channel_algorithm_resolved \in BOOLEAN
    /\ pc \in {"idle", "scan"}
    /\ cursor \in 0..BLE_DATA_CHANNEL_COUNT
    /\ table \in Seq(Channels)
    /\ guard \in (0..MaxTime) \X (0..MaxTime)
    /\ window \in [status : {"none", "ok", "overflow"}, start : 0..MaxTime,
                   end : 0..MaxTime]
    /\ event \in [status : Statuses, counter : 0..(CounterPeriod - 1),
                  channel : Channels, anchor : 0..MaxTime, start : 0..MaxTime,
                  end : 0..MaxTime]
    /\ conn \in ConnectInds \cup {NoParams}
    /\ advertiser_chsel \in BOOLEAN
    /\ sentAt \in 0..MaxTime
    /\ first \in 0..MaxTime
    /\ ordinal \in 0..MaxOrdinal
    /\ counter \in 0..(CounterPeriod - 1)
    /\ unmapped \in Channels

\* The used channels below c.
Rank(S, c) == Cardinality({d \in S : d < c})

\* The channel that the connection is on, as the Link Layer specification
\* defines it: the unmapped channel if it is used, else the used channel at
\* the remapping index in ascending order.
UsesCsa2 == conn.chsel /\ advertiser_chsel

LinkPrn == ble_csa2_prn_e(conn.access_address, counter)

LinkUnmapped == IF UsesCsa2 THEN LinkPrn % 37 ELSE unmapped

LinkIndex ==
    LET N == Cardinality(conn.channel_map)
    IN  IF UsesCsa2 THEN (N * LinkPrn) \div 65536 ELSE unmapped % N

OnChannel(c) ==
    /\ c \in conn.channel_map
    /\ IF LinkUnmapped \in conn.channel_map THEN c = LinkUnmapped
       ELSE Rank(conn.channel_map, c) = LinkIndex

\* Every radio event that is computed is on the channel that the connection
\* itself has hopped to: CSA#1's closed form agrees with hopping event by
\* event past every wrap of the counter, CSA#2's with the counter, remapping
\* with any channel map, and refused CONNECT_INDs heard in between leave no
\* trace.
OnTheLinksChannel == event.status = "ok" => OnChannel(event.channel)

\* The anchor and the window of a computed event are exact, and it is refused
\* for overflow only if it really ends after the last time there is.
TimesExact ==
    LET anchor == first + ordinal * conn.interval_units
    IN  /\ event.status = "ok" =>
              /\ event.anchor = anchor
              /\ event.end = anchor + guard[2]
              /\ event.start <= anchor
              /\ event.start > 0 => event.start = anchor - guard[1]
              /\ event.start = 0 => anchor <= guard[1]
        /\ event.status = "overflow" => anchor + guard[2] > MaxTime

\* The first transmit window is the specification's, one unit after the end
\* of the CONNECT_IND and its offset, and is refused only if it does not fit.
WindowExact ==
    LET start == sentAt + 1 + conn.win_offset_units
        end == start + conn.win_size_units
    IN  /\ window.status = "ok" => window.start = start /\ window.end = end
        /\ window.status = "overflow" => end > MaxTime

\* A connection that the parser has accepted can be followed for good: its
\* events are refused only for overflow, and before ChSel is resolved.  The
\* later calls never find a hop or a channel map to reject.
AcceptedIsSchedulable ==
    event.status \in {"none", "ok", "overflow", "csa unresolved"}
============================================================================

---------------------------- MODULE DeviceClock ----------------------------
(***************************************************************************)
(* The clock of one radio as the host reconstructs it: the firmware stamps *)
(* a record with a 32-bit count of microseconds since its boot, and        *)
(* wch_decode_transfer extends it to 64 bits by counting decreases.        *)
(***************************************************************************)
EXTENDS Integers

CONSTANTS
    ClockPeriod,    \* 2^32 microseconds
    MaxTime         \* bound on the time that passes

ASSUME ClockAssumption ==
    /\ ClockPeriod \in Nat \ {0}
    /\ MaxTime \in Nat

VARIABLES
    anyRecord,              \* pkt_seq # 0
    ts_prev_us,
    ts_hi_us,
    ts_prev_extended_us,    \* also hdr.timestamp_us of the last record
    interval_us,            \* hdr.interval_us of the last record

    (* The outside world and what the properties remember of it. *)
    now,                    \* time since the firmware's boot
    lastAt,                 \* when the last record was stamped
    base,                   \* the whole periods before the first record
    slipped                 \* two records were a whole period apart

clock == <<anyRecord, ts_prev_us, ts_hi_us, ts_prev_extended_us, interval_us>>
past == <<lastAt, base, slipped>>
clockVars == <<clock, now, past>>

\* wch_open_device; the radio may have been running for any time.
ClockInit ==
    /\ anyRecord = FALSE
    /\ ts_prev_us = 0
    /\ ts_hi_us = 0
    /\ ts_prev_extended_us = 0
    /\ interval_us = 0
    /\ now \in 0..MaxTime
    /\ lastAt = 0
    /\ base = 0
    /\ slipped = FALSE

Elapse ==
    /\ now' \in (now + 1)..MaxTime
    /\ UNCHANGED <<clock, past>>

\* Fault: two records in the same microsecond count as a wrap.
WrapsOnTie(ts32) == anyRecord /\ ts32 <= ts_prev_us

Wraps(ts32) == anyRecord /\ ts32 < ts_prev_us

\* Fault: the period is added to the time but not kept.
HighPartForgotten(ts32) == ts_hi_us

\* ts_hi_us after a record stamped ts32.
HighPart(ts32) == IF Wraps(ts32) THEN ts_hi_us + ClockPeriod ELSE ts_hi_us

\* Fault: the interval is taken from the 32-bit time of the record before.
IntervalFrom32(ts64) == IF anyRecord THEN ts64 - ts_prev_us ELSE 0

IntervalTo(ts64) == IF anyRecord THEN ts64 - ts_prev_extended_us ELSE 0

\* What the handler does with the time of every record it reports.
Stamp ==
    LET ts32 == now % ClockPeriod
        ts64 == HighPart(ts32) + ts32
    IN  /\ anyRecord' = TRUE
        /\ ts_prev_us' = ts32
        /\ ts_hi_us' = HighPart(ts32)
        /\ ts_prev_extended_us' = ts64
        /\ interval_us' = IntervalTo(ts64)
        /\ lastAt' = now
        /\ base' = IF anyRecord THEN base ELSE now - ts32
        /\ slipped' = (slipped \/ (anyRecord /\ now - lastAt >= ClockPeriod))
        /\ UNCHANGED now

ClockNext == Elapse \/ Stamp

ClockSpec == ClockInit /\ [][ClockNext]_clockVars

---------------------------------------------------------------------------
(* Properties. *)

ClockTypeOK ==
    /\ anyRecord \in BOOLEAN
    /\ ts_prev_us \in 0..(ClockPeriod - 1)
    /\ ts_hi_us \in Nat
    /\ ts_prev_extended_us \in Nat
    /\ interval_us \in Nat
    /\ now \in 0..MaxTime
    /\ lastAt \in 0..MaxTime
    /\ base \in Nat
    /\ slipped \in BOOLEAN

\* As long as no two records are a whole period (71.6 minutes) apart, the
\* extended time of every record is its true time, less the whole periods
\* before the first record: no wrap is missed and none is counted twice.
ClockExact ==
    (anyRecord /\ ~slipped) => ts_prev_extended_us = lastAt - base

\* The interval reported with a record less than a period after the one
\* before it is the true time between them, across wraps, and whatever wraps
\* were missed earlier.
IntervalExact ==
    [][(anyRecord /\ lastAt' # lastAt /\ lastAt' - lastAt < ClockPeriod)
          => interval_us' = lastAt' - lastAt]_clockVars

\* The extended time never runs backwards, however long the radio was
\* silent: a missed wrap makes it late, not early.
StampsNeverDecrease ==
    [][ts_prev_extended_us' >= ts_prev_extended_us]_clockVars
============================================================================

-------------------------- MODULE CaptureLoopProofs --------------------------
(***************************************************************************)
(* For any number of radios, drains and tolerated errors: types, the       *)
(* bookkeeping of started radios and of read errors, the honest exit       *)
(* status, the bound on reads after a stop request, and the clean end.     *)
(***************************************************************************)
EXTENDS CaptureLoop, FiniteSetTheorems, TLAPS

---------------------------------------------------------------------------
(* The inductive invariant. *)

\* started counts the radios that capture; each has its channel.
Counted ==
    /\ started = Cardinality(Started)
    /\ \A d \in Mcus : captureStarted[d] => channel[d] # 0

\* What has not been reached yet is as it was at first.
Fresh ==
    /\ pc \in {"find", "open"} => \A d \in Mcus : channel[d] = 0
    /\ pc = "find" => i = 1 /\ \A d \in Mcus : ~isOpen[d]
    /\ pc = "open" => \A d \in Mcus : d >= i => ~isOpen[d]
    /\ pc = "start" => \A d \in Mcus : d >= i => channel[d] = 0
    /\ pc \in {"find", "open", "start"} => \A d \in Mcus : ~hasBuf[d]
    /\ pc \in {"find", "open"} => pcap = "none"
    /\ pc \in {"find", "open", "start"} => \A d \in Mcus : errs[d] = 0

\* Devices in use.
InUse ==
    /\ \A d \in Mcus : isOpen[d] => d <= ndev
    /\ \A d \in Mcus : hasBuf[d] => isOpen[d]
    /\ \A d \in Mcus : channel[d] # 0 => d <= ndev
    /\ pc \notin {"cleanup", "exited"} =>
           \A d \in Mcus : captureStarted[d] => isOpen[d]
    /\ pc = "alloc" => \A d \in Mcus : captureStarted[d] /\ d < i => hasBuf[d]
    /\ InLoop /\ ~gStop => \A d \in Mcus : captureStarted[d] => hasBuf[d]
    /\ pc = "cleanup" =>
           \A d \in Mcus : IF d < i THEN ~isOpen[d]
                           ELSE captureStarted[d] => isOpen[d]

\* A radio is read only while it captures, and has read errors to spare.
ErrorsBounded ==
    /\ ~gStop => \A d \in Mcus : captureStarted[d] => errs[d] < MaxReadErrors
    /\ Reading => i <= ndev /\ captureStarted[i] /\ errs[i] < MaxReadErrors

\* No read begins after a stop, except in the drain under way.
StopBounded ==
    /\ ~gStop => readsAfterStop = 0
    /\ pc = "drainRead" => readsAfterStop <= drains
    /\ pc = "waitRead" => readsAfterStop = 0
    /\ readsAfterStop <= MaxDrains

Before == {"find", "open", "start"}

\* Why the program stops, and with what status.
Honest ==
    /\ gStop /\ exitStatus = 0 => signalled
    /\ pc = "cleanup" => gStop
    /\ pc = "exited" /\ exitStatus = 0 => gStop
    /\ pc \notin Before /\ exitStatus = 0 => \E d \in Mcus : captureStarted[d]
    /\ (pc = "alloc" \/ InLoop) /\ ~gStop => \E d \in Mcus : captureStarted[d]
    /\ exitStatus = 0 => \A d \in Mcus : channel[d] # 0 => captureStarted[d]

\* The program's count of read errors is the true one.
Streak == errs = failsInRow

\* A radio that does not capture any more was given up after too many errors;
\* one that goes on after its clean-up had its stop fail.
Blamed ==
    /\ \A d \in Mcus :
           channel[d] # 0 /\ ~captureStarted[d] => errs[d] = MaxReadErrors
    /\ pc = "cleanup" => \A d \in Mcus :
           d < i /\ captureStarted[d] /\ streaming[d] => stopFailed[d]

\* With one channel per radio, slot counts the channels given out.
Covered ==
    fixedChannel = 0 =>
        /\ slot = Cardinality(Assigned)
        /\ {channel[d] : d \in Assigned} = {AdvChannel(n) : n \in 0..(slot - 1)}

IInv == /\ TypeOK /\ Counted /\ Fresh /\ InUse /\ ErrorsBounded /\ StopBounded
        /\ Streak /\ Honest /\ Blamed /\ QuietExit /\ Covered

---------------------------------------------------------------------------
(* Helpers. *)

LEMMA FirstInRange == \A n \in Nat : 1 \in 1..(n + 1)
    OBVIOUS

LEMMA AdvChannelType == \A n \in Nat : AdvChannel(n) \in {37, 38, 39}
    BY DEF AdvChannel

\* The set of radios that a table marks.
Marked(f) == {d \in Mcus : f[d]}

LEMMA MarkedFinite ==
    ASSUME NEW f \in [Mcus -> BOOLEAN]
    PROVE  IsFiniteSet(Marked(f)) /\ Cardinality(Marked(f)) \in Nat
<1>1. IsFiniteSet(Mcus)
    BY ConstantsAssumption, FS_Interval DEF Mcus
<1>2. Marked(f) \in SUBSET Mcus
    BY DEF Marked
<1> QED
    BY <1>1, <1>2, FS_Subset, FS_CardinalityType

LEMMA MarkedNone ==
    ASSUME NEW f \in [Mcus -> BOOLEAN]
    PROVE  Cardinality(Marked(f)) = 0 <=> \A d \in Mcus : ~f[d]
<1>1. Cardinality(Marked(f)) = 0 <=> Marked(f) = {}
    BY MarkedFinite, FS_EmptySet
<1> QED
    BY <1>1 DEF Marked

LEMMA MarkOne ==
    ASSUME NEW f \in [Mcus -> BOOLEAN], NEW d \in Mcus, ~f[d]
    PROVE  Cardinality(Marked([f EXCEPT ![d] = TRUE]))
               = Cardinality(Marked(f)) + 1
<1>1. Marked([f EXCEPT ![d] = TRUE]) = Marked(f) \cup {d} /\ d \notin Marked(f)
    BY DEF Marked
<1> QED
    BY <1>1, MarkedFinite, FS_AddElement

LEMMA UnmarkOne ==
    ASSUME NEW f \in [Mcus -> BOOLEAN], NEW d \in Mcus, f[d]
    PROVE  /\ Cardinality(Marked([f EXCEPT ![d] = FALSE]))
                  = Cardinality(Marked(f)) - 1
           /\ Cardinality(Marked(f)) > 0
<1>1. Marked([f EXCEPT ![d] = FALSE]) = Marked(f) \ {d} /\ d \in Marked(f)
    BY DEF Marked
<1>2. Marked(f) # {}
    BY <1>1
<1>3. IsFiniteSet(Marked(f)) /\ Cardinality(Marked(f)) \in Nat
    BY MarkedFinite
<1>4. Cardinality(Marked(f)) # 0
    BY <1>2, <1>3, FS_EmptySet
<1>5. Cardinality(Marked(f) \ {d}) = Cardinality(Marked(f)) - 1
    BY <1>1, <1>3, FS_RemoveElement
<1>6. Cardinality(Marked([f EXCEPT ![d] = FALSE])) = Cardinality(Marked(f)) - 1
    BY <1>1, <1>5
<1>7. Cardinality(Marked(f)) > 0
    BY <1>3, <1>4
<1> QED
    BY <1>6, <1>7

LEMMA StartedMarked ==
    /\ Started = Marked(captureStarted)
    /\ Started' = Marked(captureStarted')
    BY DEF Started, Marked

LEMMA AssignedFinite == IsFiniteSet(Assigned)
<1>1. IsFiniteSet(Mcus) /\ Assigned \in SUBSET Mcus
    BY ConstantsAssumption, FS_Interval DEF Mcus, Assigned
<1> QED
    BY <1>1, FS_Subset

---------------------------------------------------------------------------
(* Every step preserves each part of the invariant. *)

\* Types: an error count stays below its cap while its radio is read, and
\* started never falls below zero.
LEMMA TypeStep ==
    ASSUME TypeOK, Counted, Fresh, ErrorsBounded, Streak, [Next]_vars
    PROVE  TypeOK'
<1> USE ConstantsAssumption DEF TypeOK, Streak, Mcus,
           config, loop, radios, outcome, world
<1>1. CASE FindNone
    BY <1>1 DEF FindNone, Exit
<1>2. CASE Find
    <2>1. i = 1
        BY <1>2 DEF Fresh, Find
    <2>2. ndev' \in 0..MaxDevices /\ ndev' \in Nat
        BY <1>2 DEF Find
    <2>3. i' \in 1..(ndev' + 1)
        BY <1>2, <2>1, <2>2, FirstInRange DEF Find
    <2>4. pc' = "open"
        BY <1>2 DEF Find
    <2> QED
        BY <1>2, <2>2, <2>3, <2>4 DEF Find
<1>3. CASE Open
    BY <1>3 DEF Open
<1>4. CASE OpenedNone
    BY <1>4 DEF OpenedNone, Exit, None
<1>5. CASE OpenFile
    BY <1>5 DEF OpenFile, None
<1>6. CASE OpenFileFails
    BY <1>6 DEF OpenFileFails, Exit, None
<1>7. CASE SkipClosed
    BY <1>7 DEF SkipClosed, Starting
<1>8. CASE StartSucceeds
    <2>1. AdvChannel(slot) \in {37, 38, 39}
        BY AdvChannelType
    <2> QED
        BY <1>8, <2>1 DEF StartSucceeds, Starting, NextSlot
<1>9. CASE StartFails
    BY <1>9 DEF StartFails, Starting, NextSlot
<1>10. CASE AllStarted
    BY <1>10 DEF AllStarted
<1>11. CASE Alloc
    BY <1>11 DEF Alloc
<1>12. CASE OutOfMemory
    BY <1>12 DEF OutOfMemory
<1>13. CASE Allocated
    BY <1>13 DEF Allocated
<1>14. CASE NewPass
    <2>1. anyData' \in BOOLEAN
        BY <1>14 DEF NewPass
    <2> QED
        BY <1>14, <2>1 DEF NewPass
<1>15. CASE LeaveLoop
    BY <1>15 DEF LeaveLoop
<1>16. CASE NextRadio
    BY <1>16 DEF NextRadio, MoreRadios
<1>17. CASE BeginDrain
    BY <1>17 DEF BeginDrain, MoreRadios, Active
<1>18. CASE BeginWait
    BY <1>18 DEF BeginWait, MoreRadios, Active
<1>19. CASE DrainsDone
    BY <1>19 DEF DrainsDone, MoreRadios
<1>20. CASE WaitsDone
    BY <1>20 DEF WaitsDone, MoreRadios
<1>21. CASE ReadRecords
    <2>1. i <= ndev /\ errs[i] < MaxReadErrors
        BY <1>21 DEF ReadRecords, GoodRead, ErrorsBounded
    <2> QED
        BY <1>21, <2>1, SMTT(30)
        DEF ReadRecords, GoodRead, ErrsAfterGoodRead, Reading, DrainAgain,
            DrainsAfter, ToNextRadio, CountRead
<1>22. CASE ReadNothing
    <2>1. i <= ndev /\ errs[i] < MaxReadErrors
        BY <1>22 DEF ReadNothing, GoodRead, ErrorsBounded
    <2> QED
        BY <1>22, <2>1 DEF ReadNothing, GoodRead, ErrsAfterGoodRead, Reading,
       ToNextRadio, CountRead
<1>23. CASE ReadNoDevice
    <2>1. i <= ndev /\ errs[i] < MaxReadErrors
        BY <1>23 DEF ReadNoDevice, ReadFails, ErrorsBounded
    <2> QED
        BY <1>23, <2>1 DEF ReadNoDevice, ReadFails, Reading, ToNextRadio,
           CountRead, LossStatus
<1>24. CASE ReadErrorRetry
    <2>1. i <= ndev /\ errs[i] < MaxReadErrors
        BY <1>24 DEF ReadErrorRetry, ReadFails, ErrorsBounded
    <2> QED
        BY <1>24, <2>1 DEF ReadErrorRetry, ReadFails, Reading, ToNextRadio,
           CountRead, Persistent
<1>25. CASE ReadErrorDisable
    <2>1. /\ i \in Mcus
          /\ captureStarted[i]
          /\ i <= ndev
          /\ captureStarted' = [captureStarted EXCEPT ![i] = FALSE]
        BY <1>25 DEF ReadErrorDisable, ReadFails, Reading, ErrorsBounded
    <2>2. started > 0
        BY <2>1, UnmarkOne, StartedMarked DEF Counted
    <2>3. errs[i] < MaxReadErrors
        BY <1>25 DEF ReadErrorDisable, ReadFails, ErrorsBounded
    <2>4. started' \in Nat
        BY <1>25, <2>2 DEF ReadErrorDisable, StartedAfterLoss
    <2>5. gStop' \in BOOLEAN /\ exitStatus' \in {0, 1}
        BY <1>25 DEF ReadErrorDisable, LossStatus
    <2>6. /\ errs' \in [Mcus -> 0..MaxReadErrors]
          /\ failsInRow' \in [Mcus -> 0..MaxReadErrors]
        BY <1>25, <2>1, <2>3 DEF ReadErrorDisable, ReadFails
    <2>7. readsAfterStop' \in 0..(MaxDrains + 1)
        BY <1>25 DEF ReadErrorDisable, ReadFails, CountRead
    <2> QED
        BY <1>25, <2>1, <2>4, <2>5, <2>6, <2>7
        DEF ReadErrorDisable, ReadFails, ToNextRadio
<1>26. CASE SkipCleanup
    BY <1>26 DEF SkipCleanup
<1>27. CASE CleanUp
    <2>1. \/ streaming' = streaming /\ stopFailed' = stopFailed
          \/ /\ streaming' = [streaming EXCEPT ![i] = FALSE]
             /\ stopFailed' = stopFailed
          \/ /\ stopFailed' = [stopFailed EXCEPT ![i] = TRUE]
             /\ \E on \in BOOLEAN : streaming' = [streaming EXCEPT ![i] = on]
        BY ONLY <1>27, Zenon DEF CleanUp
    <2>2. streaming \in [Mcus -> BOOLEAN] /\ stopFailed \in [Mcus -> BOOLEAN]
        OBVIOUS
    <2>3. /\ streaming' \in [Mcus -> BOOLEAN]
          /\ stopFailed' \in [Mcus -> BOOLEAN]
        BY ONLY <2>1, <2>2
    <2> QED
        BY <1>27, <2>3 DEF CleanUp
<1>28. CASE Finish
    BY <1>28 DEF Finish
<1>29. CASE Signal
    BY <1>29 DEF Signal
<1>30. CASE UNCHANGED vars
    BY <1>30 DEF vars
<1> QED
    BY <1>1, <1>2, <1>3, <1>4, <1>5, <1>6, <1>7, <1>8, <1>9, <1>10, <1>11,
       <1>12, <1>13, <1>14, <1>15, <1>16, <1>17, <1>18, <1>19, <1>20, <1>21,
       <1>22, <1>23, <1>24, <1>25, <1>26, <1>27, <1>28, <1>29, <1>30 DEF Next,
       Main, Read, Exited

\* Only a start and a disabled radio change what started counts.
LEMMA RadiosKept ==
    ASSUME [Next]_vars, ~StartSucceeds, ~ReadErrorDisable
    PROVE  UNCHANGED <<captureStarted, started, channel>>
    BY DEF Next, Main, Read, Exited, vars, config, loop, radios, outcome,
       world, FindNone, Exit, Find, Open, OpenedNone, OpenFile, OpenFileFails,
       SkipClosed, StartFails, NextSlot, AllStarted, Alloc, OutOfMemory,
       Allocated, NewPass, LeaveLoop, NextRadio, BeginDrain, BeginWait,
       DrainsDone, WaitsDone, ReadRecords, GoodRead, ToNextRadio, ReadNothing,
       ReadNoDevice, ReadFails, ReadErrorRetry, SkipCleanup, CleanUp, Finish,
       Signal

LEMMA CountedStep ==
    ASSUME TypeOK, Counted, Fresh, ErrorsBounded, [Next]_vars
    PROVE  Counted'
<1> USE DEF TypeOK, Mcus, Reading,
           config, loop, radios, outcome, world
<1>1. CASE ~StartSucceeds /\ ~ReadErrorDisable
    <2>1. UNCHANGED <<captureStarted, started, channel>>
        BY <1>1, RadiosKept
    <2>2. UNCHANGED Started
        BY <2>1 DEF Started
    <2> QED
        BY <2>1, <2>2 DEF Counted
<1>2. CASE StartSucceeds
    <2>1. /\ i \in Mcus
          /\ ~captureStarted[i]
          /\ captureStarted' = [captureStarted EXCEPT ![i] = TRUE]
          /\ started' = started + 1
        <3>1. i \in Mcus /\ pc = "start"
            BY <1>2, ConstantsAssumption DEF StartSucceeds, Starting
        <3>2. channel[i] = 0
            BY <3>1 DEF Fresh
        <3> QED
            BY <1>2, <3>1, <3>2 DEF StartSucceeds, Counted
    <2>2. started' = Cardinality(Started')
        BY <2>1, MarkOne, StartedMarked DEF Counted
    <2>3. channel' = [channel EXCEPT ![i] = channel'[i]] /\ channel'[i] # 0
        <3>1. (IF fixedChannel = 0 THEN AdvChannel(slot) ELSE fixedChannel) # 0
            BY AdvChannelType
        <3> QED
            BY <1>2, <2>1, <3>1 DEF StartSucceeds
    <2> QED
        BY <2>1, <2>2, <2>3 DEF Counted
<1>3. CASE ReadErrorDisable
    <2>1. /\ i \in Mcus
          /\ captureStarted[i]
          /\ captureStarted' = [captureStarted EXCEPT ![i] = FALSE]
          /\ started' = started - 1
          /\ UNCHANGED channel
        <3>1. i \in Mcus /\ captureStarted[i]
            BY <1>3, ConstantsAssumption
            DEF ReadErrorDisable, ReadFails, ErrorsBounded
        <3> QED
            BY <1>3, <3>1 DEF ReadErrorDisable, ReadFails, StartedAfterLoss
    <2>2. started' = Cardinality(Started')
        BY <2>1, UnmarkOne, StartedMarked DEF Counted
    <2> QED
        BY <2>1, <2>2 DEF Counted
<1> QED
    BY <1>1, <1>2, <1>3

\* What the program has not reached is untouched.
LEMMA FreshStep ==
    ASSUME TypeOK, Fresh, [Next]_vars
    PROVE  Fresh'
<1> USE DEF TypeOK, Mcus, Fresh,
           config, loop, radios, outcome, world
<1>1. CASE FindNone
    BY <1>1 DEF FindNone, Exit
<1>2. CASE Find
    BY <1>2 DEF Find
<1>3. CASE Open
    BY <1>3 DEF Open
<1>4. CASE OpenedNone
    BY <1>4 DEF OpenedNone, Exit, None
<1>5. CASE OpenFile
    BY <1>5 DEF OpenFile, None
<1>6. CASE OpenFileFails
    BY <1>6 DEF OpenFileFails, Exit, None
<1>7. CASE SkipClosed
    BY <1>7 DEF SkipClosed, Starting
<1>8. CASE StartSucceeds
    BY <1>8 DEF StartSucceeds, Starting, NextSlot, AdvChannel
<1>9. CASE StartFails
    BY <1>9 DEF StartFails, Starting, NextSlot
<1>10. CASE AllStarted
    BY <1>10 DEF AllStarted
<1>11. CASE Alloc
    BY <1>11 DEF Alloc
<1>12. CASE OutOfMemory
    BY <1>12 DEF OutOfMemory
<1>13. CASE Allocated
    BY <1>13 DEF Allocated
<1>14. CASE NewPass
    BY <1>14 DEF NewPass
<1>15. CASE LeaveLoop
    BY <1>15 DEF LeaveLoop
<1>16. CASE NextRadio
    BY <1>16 DEF NextRadio, MoreRadios
<1>17. CASE BeginDrain
    BY <1>17 DEF BeginDrain, MoreRadios, Active
<1>18. CASE BeginWait
    BY <1>18 DEF BeginWait, MoreRadios, Active
<1>19. CASE DrainsDone
    BY <1>19 DEF DrainsDone, MoreRadios
<1>20. CASE WaitsDone
    BY <1>20 DEF WaitsDone, MoreRadios
<1>21. CASE ReadRecords
    BY <1>21 DEF ReadRecords, GoodRead, ErrsAfterGoodRead, Reading, DrainAgain,
       DrainsAfter, ToNextRadio, CountRead
<1>22. CASE ReadNothing
    BY <1>22 DEF ReadNothing, GoodRead, ErrsAfterGoodRead, Reading,
       ToNextRadio, CountRead
<1>23. CASE ReadNoDevice
    BY <1>23 DEF ReadNoDevice, ReadFails, Reading, ToNextRadio, CountRead,
       LossStatus
<1>24. CASE ReadErrorRetry
    BY <1>24 DEF ReadErrorRetry, ReadFails, Reading, ToNextRadio, CountRead,
       Persistent
<1>25. CASE ReadErrorDisable
    BY <1>25 DEF ReadErrorDisable, ReadFails, Reading, ToNextRadio, CountRead,
       Persistent, LossStatus, StartedAfterLoss
<1>26. CASE SkipCleanup
    BY <1>26 DEF SkipCleanup
<1>27. CASE CleanUp
    BY <1>27 DEF CleanUp, Stoppable
<1>28. CASE Finish
    BY <1>28 DEF Finish
<1>29. CASE Signal
    BY <1>29 DEF Signal
<1>30. CASE UNCHANGED vars
    BY <1>30 DEF vars
<1> QED
    BY <1>1, <1>2, <1>3, <1>4, <1>5, <1>6, <1>7, <1>8, <1>9, <1>10, <1>11,
       <1>12, <1>13, <1>14, <1>15, <1>16, <1>17, <1>18, <1>19, <1>20, <1>21,
       <1>22, <1>23, <1>24, <1>25, <1>26, <1>27, <1>28, <1>29, <1>30 DEF Next,
       Main, Read, Exited

\* Open radios, buffers and the radios that capture stay nested.
LEMMA InUseStep ==
    ASSUME TypeOK, Fresh, InUse, ErrorsBounded, [Next]_vars
    PROVE  InUse'
<1> USE DEF TypeOK, Mcus, InUse, InLoop, Fresh,
           config, loop, radios, outcome, world
<1>1. CASE FindNone
    BY <1>1 DEF FindNone, Exit
<1>2. CASE Find
    BY <1>2 DEF Find
<1>3. CASE Open
    BY <1>3 DEF Open
<1>4. CASE OpenedNone
    BY <1>4 DEF OpenedNone, Exit, None
<1>5. CASE OpenFile
    BY <1>5 DEF OpenFile, None
<1>6. CASE OpenFileFails
    BY <1>6 DEF OpenFileFails, Exit, None
<1>7. CASE SkipClosed
    BY <1>7 DEF SkipClosed, Starting
<1>8. CASE StartSucceeds
    BY <1>8 DEF StartSucceeds, Starting, NextSlot, AdvChannel
<1>9. CASE StartFails
    BY <1>9 DEF StartFails, Starting, NextSlot
<1>10. CASE AllStarted
    BY <1>10 DEF AllStarted
<1>11. CASE Alloc
    BY <1>11 DEF Alloc
<1>12. CASE OutOfMemory
    BY <1>12 DEF OutOfMemory
<1>13. CASE Allocated
    BY <1>13 DEF Allocated
<1>14. CASE NewPass
    BY <1>14 DEF NewPass
<1>15. CASE LeaveLoop
    BY <1>15 DEF LeaveLoop
<1>16. CASE NextRadio
    BY <1>16 DEF NextRadio, MoreRadios
<1>17. CASE BeginDrain
    BY <1>17 DEF BeginDrain, MoreRadios, Active
<1>18. CASE BeginWait
    BY <1>18 DEF BeginWait, MoreRadios, Active
<1>19. CASE DrainsDone
    BY <1>19 DEF DrainsDone, MoreRadios
<1>20. CASE WaitsDone
    BY <1>20 DEF WaitsDone, MoreRadios
<1>21. CASE ReadRecords
    BY <1>21 DEF ReadRecords, GoodRead, ErrsAfterGoodRead, Reading, DrainAgain,
       DrainsAfter, ToNextRadio, CountRead
<1>22. CASE ReadNothing
    BY <1>22 DEF ReadNothing, GoodRead, ErrsAfterGoodRead, Reading,
       ToNextRadio, CountRead
<1>23. CASE ReadNoDevice
    BY <1>23 DEF ReadNoDevice, ReadFails, Reading, ToNextRadio, CountRead,
       LossStatus
<1>24. CASE ReadErrorRetry
    BY <1>24 DEF ReadErrorRetry, ReadFails, Reading, ToNextRadio, CountRead,
       Persistent
<1>25. CASE ReadErrorDisable
    BY <1>25 DEF ReadErrorDisable, ReadFails, Reading, ToNextRadio, CountRead,
       Persistent, LossStatus, StartedAfterLoss
<1>26. CASE SkipCleanup
    BY <1>26 DEF SkipCleanup
<1>27. CASE CleanUp
    BY <1>27 DEF CleanUp, Stoppable
<1>28. CASE Finish
    BY <1>28 DEF Finish
<1>29. CASE Signal
    BY <1>29 DEF Signal
<1>30. CASE UNCHANGED vars
    BY <1>30 DEF vars
<1> QED
    BY <1>1, <1>2, <1>3, <1>4, <1>5, <1>6, <1>7, <1>8, <1>9, <1>10, <1>11,
       <1>12, <1>13, <1>14, <1>15, <1>16, <1>17, <1>18, <1>19, <1>20, <1>21,
       <1>22, <1>23, <1>24, <1>25, <1>26, <1>27, <1>28, <1>29, <1>30 DEF Next,
       Main, Read, Exited

\* A radio that captures has read errors to spare, unless a stop is under way.
LEMMA ErrorsStep ==
    ASSUME TypeOK, Fresh, ErrorsBounded, [Next]_vars
    PROVE  ErrorsBounded'
<1> USE ConstantsAssumption DEF TypeOK, Mcus, ErrorsBounded, Reading, Fresh,
           config, loop, radios, outcome, world
<1>1. CASE FindNone
    BY <1>1 DEF FindNone, Exit
<1>2. CASE Find
    BY <1>2 DEF Find
<1>3. CASE Open
    BY <1>3 DEF Open
<1>4. CASE OpenedNone
    BY <1>4 DEF OpenedNone, Exit, None
<1>5. CASE OpenFile
    BY <1>5 DEF OpenFile, None
<1>6. CASE OpenFileFails
    BY <1>6 DEF OpenFileFails, Exit, None
<1>7. CASE SkipClosed
    BY <1>7 DEF SkipClosed, Starting
<1>8. CASE StartSucceeds
    BY <1>8 DEF StartSucceeds, Starting, NextSlot, AdvChannel
<1>9. CASE StartFails
    BY <1>9 DEF StartFails, Starting, NextSlot
<1>10. CASE AllStarted
    BY <1>10 DEF AllStarted
<1>11. CASE Alloc
    BY <1>11 DEF Alloc
<1>12. CASE OutOfMemory
    BY <1>12 DEF OutOfMemory
<1>13. CASE Allocated
    BY <1>13 DEF Allocated
<1>14. CASE NewPass
    BY <1>14 DEF NewPass
<1>15. CASE LeaveLoop
    BY <1>15 DEF LeaveLoop
<1>16. CASE NextRadio
    BY <1>16 DEF NextRadio, MoreRadios
<1>17. CASE BeginDrain
    BY <1>17 DEF BeginDrain, MoreRadios, Active
<1>18. CASE BeginWait
    BY <1>18 DEF BeginWait, MoreRadios, Active
<1>19. CASE DrainsDone
    BY <1>19 DEF DrainsDone, MoreRadios
<1>20. CASE WaitsDone
    BY <1>20 DEF WaitsDone, MoreRadios
<1>21. CASE ReadRecords
    <2>1. /\ i <= ndev /\ captureStarted[i] /\ i \in Mcus
          /\ errs' = [errs EXCEPT ![i] = 0]
          /\ UNCHANGED <<gStop, ndev, captureStarted>>
        BY <1>21 DEF ReadRecords, GoodRead, ErrsAfterGoodRead
    <2>2. \/ pc' = pc /\ i' = i
          \/ pc' \in {"drain", "wait"}
        BY <1>21 DEF ReadRecords, ToNextRadio
    <2>3. errs'[i] < MaxReadErrors
        BY <2>1
    <2> QED
        BY <2>1, <2>2, <2>3
<1>22. CASE ReadNothing
    BY <1>22 DEF ReadNothing, GoodRead, ErrsAfterGoodRead, Reading,
       ToNextRadio, CountRead
<1>23. CASE ReadNoDevice
    BY <1>23 DEF ReadNoDevice, ReadFails, Reading, ToNextRadio, CountRead,
       LossStatus
<1>24. CASE ReadErrorRetry
    BY <1>24 DEF ReadErrorRetry, ReadFails, Reading, ToNextRadio, CountRead,
       Persistent
<1>25. CASE ReadErrorDisable
    BY <1>25 DEF ReadErrorDisable, ReadFails, Reading, ToNextRadio, CountRead,
       Persistent, LossStatus, StartedAfterLoss
<1>26. CASE SkipCleanup
    BY <1>26 DEF SkipCleanup
<1>27. CASE CleanUp
    BY <1>27 DEF CleanUp, Stoppable
<1>28. CASE Finish
    BY <1>28 DEF Finish
<1>29. CASE Signal
    BY <1>29 DEF Signal
<1>30. CASE UNCHANGED vars
    BY <1>30 DEF vars
<1> QED
    BY <1>1, <1>2, <1>3, <1>4, <1>5, <1>6, <1>7, <1>8, <1>9, <1>10, <1>11,
       <1>12, <1>13, <1>14, <1>15, <1>16, <1>17, <1>18, <1>19, <1>20, <1>21,
       <1>22, <1>23, <1>24, <1>25, <1>26, <1>27, <1>28, <1>29, <1>30 DEF Next,
       Main, Read, Exited

\* After a stop request reads are counted by the drain under way.
LEMMA StopStep ==
    ASSUME TypeOK, StopBounded, [Next]_vars
    PROVE  StopBounded'
<1> USE ConstantsAssumption DEF TypeOK, Mcus, StopBounded,
           config, loop, radios, outcome, world
<1>1. CASE FindNone
    BY <1>1 DEF FindNone, Exit
<1>2. CASE Find
    BY <1>2 DEF Find
<1>3. CASE Open
    BY <1>3 DEF Open
<1>4. CASE OpenedNone
    BY <1>4 DEF OpenedNone, Exit, None
<1>5. CASE OpenFile
    BY <1>5 DEF OpenFile, None
<1>6. CASE OpenFileFails
    BY <1>6 DEF OpenFileFails, Exit, None
<1>7. CASE SkipClosed
    BY <1>7 DEF SkipClosed, Starting
<1>8. CASE StartSucceeds
    BY <1>8 DEF StartSucceeds, Starting, NextSlot, AdvChannel
<1>9. CASE StartFails
    BY <1>9 DEF StartFails, Starting, NextSlot
<1>10. CASE AllStarted
    BY <1>10 DEF AllStarted
<1>11. CASE Alloc
    BY <1>11 DEF Alloc
<1>12. CASE OutOfMemory
    BY <1>12 DEF OutOfMemory
<1>13. CASE Allocated
    BY <1>13 DEF Allocated
<1>14. CASE NewPass
    BY <1>14 DEF NewPass
<1>15. CASE LeaveLoop
    BY <1>15 DEF LeaveLoop
<1>16. CASE NextRadio
    BY <1>16 DEF NextRadio, MoreRadios
<1>17. CASE BeginDrain
    BY <1>17 DEF BeginDrain, MoreRadios, Active
<1>18. CASE BeginWait
    BY <1>18 DEF BeginWait, MoreRadios, Active
<1>19. CASE DrainsDone
    BY <1>19 DEF DrainsDone, MoreRadios
<1>20. CASE WaitsDone
    BY <1>20 DEF WaitsDone, MoreRadios
<1>21. CASE ReadRecords
    BY <1>21 DEF ReadRecords, GoodRead, ErrsAfterGoodRead, Reading, DrainAgain,
       DrainsAfter, ToNextRadio, CountRead
<1>22. CASE ReadNothing
    BY <1>22 DEF ReadNothing, GoodRead, ErrsAfterGoodRead, Reading,
       ToNextRadio, CountRead
<1>23. CASE ReadNoDevice
    BY <1>23 DEF ReadNoDevice, ReadFails, Reading, ToNextRadio, CountRead,
       LossStatus
<1>24. CASE ReadErrorRetry
    BY <1>24 DEF ReadErrorRetry, ReadFails, Reading, ToNextRadio, CountRead,
       Persistent
<1>25. CASE ReadErrorDisable
    BY <1>25 DEF ReadErrorDisable, ReadFails, Reading, ToNextRadio, CountRead,
       Persistent, LossStatus, StartedAfterLoss
<1>26. CASE SkipCleanup
    BY <1>26 DEF SkipCleanup
<1>27. CASE CleanUp
    BY <1>27 DEF CleanUp, Stoppable
<1>28. CASE Finish
    BY <1>28 DEF Finish
<1>29. CASE Signal
    BY <1>29 DEF Signal
<1>30. CASE UNCHANGED vars
    BY <1>30 DEF vars
<1> QED
    BY <1>1, <1>2, <1>3, <1>4, <1>5, <1>6, <1>7, <1>8, <1>9, <1>10, <1>11,
       <1>12, <1>13, <1>14, <1>15, <1>16, <1>17, <1>18, <1>19, <1>20, <1>21,
       <1>22, <1>23, <1>24, <1>25, <1>26, <1>27, <1>28, <1>29, <1>30 DEF Next,
       Main, Read, Exited

\* A radio lost, or none started, shows in the exit status.
LEMMA HonestStep ==
    ASSUME TypeOK, Counted, Fresh, Honest, TypeOK', Counted', [Next]_vars
    PROVE  Honest'
<1> USE ConstantsAssumption DEF TypeOK, Mcus, Honest, Before, InLoop,
           config, loop, radios, outcome, world
<1>1. CASE FindNone
    BY <1>1 DEF FindNone, Exit
<1>2. CASE Find
    BY <1>2 DEF Find
<1>3. CASE Open
    BY <1>3 DEF Open
<1>4. CASE OpenedNone
    BY <1>4 DEF OpenedNone, Exit, None
<1>5. CASE OpenFile
    BY <1>5 DEF OpenFile, None
<1>6. CASE OpenFileFails
    BY <1>6 DEF OpenFileFails, Exit, None
<1>7. CASE SkipClosed
    BY <1>7 DEF SkipClosed, Starting
<1>8. CASE StartSucceeds
    BY <1>8 DEF StartSucceeds, Starting, NextSlot, AdvChannel
<1>9. CASE StartFails
    BY <1>9 DEF StartFails, Starting, NextSlot
<1>10. CASE AllStarted
    <2>1. started # 0 => \E d \in Mcus : captureStarted[d]
        BY MarkedNone, StartedMarked DEF Counted
    <2> QED
        <3>1. /\ gStop' = (gStop \/ started = 0)
              /\ exitStatus' = IF started = 0 THEN 1 ELSE exitStatus
              /\ pc = "start" /\ pc' = "alloc"
              /\ UNCHANGED <<captureStarted, channel, signalled>>
            BY <1>10 DEF AllStarted
        <3>2. CASE started = 0
            <4>1. exitStatus' = 1 /\ pc' = "alloc"
                BY <3>1, <3>2
            <4>2. gStop'
                BY <3>1, <3>2, Zenon
            <4> QED
                BY <4>1, <4>2
        <3>3. CASE started # 0
            BY <2>1, <3>1, <3>3
        <3> QED
            BY <3>2, <3>3
<1>11. CASE Alloc
    BY <1>11 DEF Alloc
<1>12. CASE OutOfMemory
    BY <1>12 DEF OutOfMemory
<1>13. CASE Allocated
    BY <1>13 DEF Allocated
<1>14. CASE NewPass
    BY <1>14 DEF NewPass
<1>15. CASE LeaveLoop
    BY <1>15 DEF LeaveLoop
<1>16. CASE NextRadio
    BY <1>16 DEF NextRadio, MoreRadios
<1>17. CASE BeginDrain
    BY <1>17 DEF BeginDrain, MoreRadios, Active
<1>18. CASE BeginWait
    BY <1>18 DEF BeginWait, MoreRadios, Active
<1>19. CASE DrainsDone
    BY <1>19 DEF DrainsDone, MoreRadios
<1>20. CASE WaitsDone
    BY <1>20 DEF WaitsDone, MoreRadios
<1>21. CASE ReadRecords
    BY <1>21 DEF ReadRecords, GoodRead, ErrsAfterGoodRead, Reading, DrainAgain,
       DrainsAfter, ToNextRadio, CountRead
<1>22. CASE ReadNothing
    BY <1>22 DEF ReadNothing, GoodRead, ErrsAfterGoodRead, Reading,
       ToNextRadio, CountRead
<1>23. CASE ReadNoDevice
    BY <1>23 DEF ReadNoDevice, ReadFails, Reading, ToNextRadio, CountRead,
       LossStatus
<1>24. CASE ReadErrorRetry
    BY <1>24 DEF ReadErrorRetry, ReadFails, Reading, ToNextRadio, CountRead,
       Persistent
<1>25. CASE ReadErrorDisable
    <2>1. exitStatus' = 1 /\ pc' \in {"drain", "wait"}
        BY <1>25 DEF ReadErrorDisable, ReadFails, Reading, ToNextRadio,
           LossStatus
    <2>2. ~gStop' => \E d \in Mcus : captureStarted'[d]
        <3>1. ~gStop' => Cardinality(Started') # 0
            BY <1>25 DEF ReadErrorDisable, StartedAfterLoss, Counted
        <3>2. captureStarted' \in [Mcus -> BOOLEAN]
            OBVIOUS
        <3> QED
            BY <3>1, <3>2, MarkedNone, StartedMarked
    <2> QED
        BY ONLY <2>1, <2>2 DEF Honest, Before, InLoop
<1>26. CASE SkipCleanup
    BY <1>26 DEF SkipCleanup
<1>27. CASE CleanUp
    BY <1>27 DEF CleanUp, Stoppable
<1>28. CASE Finish
    BY <1>28 DEF Finish
<1>29. CASE Signal
    BY <1>29 DEF Signal
<1>30. CASE UNCHANGED vars
    BY <1>30 DEF vars
<1> QED
    BY <1>1, <1>2, <1>3, <1>4, <1>5, <1>6, <1>7, <1>8, <1>9, <1>10, <1>11,
       <1>12, <1>13, <1>14, <1>15, <1>16, <1>17, <1>18, <1>19, <1>20, <1>21,
       <1>22, <1>23, <1>24, <1>25, <1>26, <1>27, <1>28, <1>29, <1>30 DEF Next,
       Main, Read, Exited

\* errs and failsInRow are counted and reset together.
LEMMA StreakStep ==
    ASSUME Streak, [Next]_vars
    PROVE  Streak'
<1>1. CASE GoodRead
    BY <1>1 DEF Streak, GoodRead, ErrsAfterGoodRead
<1>2. CASE ReadFails
    BY <1>2 DEF Streak, ReadFails
<1>3. CASE ~GoodRead /\ ~ReadFails
    <2>1. UNCHANGED <<errs, failsInRow>>
        BY <1>3
        DEF Next, Main, Read, Exited, vars, config, loop, radios, outcome,
            world, FindNone, Exit, Find, Open, OpenedNone, OpenFile,
            OpenFileFails, SkipClosed, StartSucceeds, StartFails, AllStarted,
            Alloc, OutOfMemory, Allocated, NewPass, LeaveLoop, NextRadio,
            BeginDrain, BeginWait, DrainsDone, WaitsDone, ReadRecords,
            ReadNothing, ReadNoDevice, ReadErrorRetry, ReadErrorDisable,
            SkipCleanup, CleanUp, Finish, Signal
    <2> QED
        BY <2>1 DEF Streak
<1> QED
    BY <1>1, <1>2, <1>3

\* A radio that stopped capturing was given up; one that goes on after its
\* clean-up had its stop fail.
LEMMA BlamedStep ==
    ASSUME TypeOK, Counted, Fresh, InUse, ErrorsBounded, Blamed, [Next]_vars
    PROVE  Blamed'
<1> USE ConstantsAssumption DEF TypeOK, Mcus, Counted, ErrorsBounded, Blamed,
           Fresh, config, loop, radios, outcome, world
<1>1. CASE FindNone
    BY <1>1 DEF FindNone, Exit
<1>2. CASE Find
    BY <1>2 DEF Find
<1>3. CASE Open
    BY <1>3 DEF Open
<1>4. CASE OpenedNone
    BY <1>4 DEF OpenedNone, Exit, None
<1>5. CASE OpenFile
    BY <1>5 DEF OpenFile, None
<1>6. CASE OpenFileFails
    BY <1>6 DEF OpenFileFails, Exit, None
<1>7. CASE SkipClosed
    BY <1>7 DEF SkipClosed, Starting
<1>8. CASE StartSucceeds
    BY <1>8 DEF StartSucceeds, Starting, NextSlot, AdvChannel
<1>9. CASE StartFails
    BY <1>9 DEF StartFails, Starting, NextSlot
<1>10. CASE AllStarted
    BY <1>10 DEF AllStarted
<1>11. CASE Alloc
    BY <1>11 DEF Alloc
<1>12. CASE OutOfMemory
    BY <1>12 DEF OutOfMemory
<1>13. CASE Allocated
    BY <1>13 DEF Allocated
<1>14. CASE NewPass
    BY <1>14 DEF NewPass
<1>15. CASE LeaveLoop
    BY <1>15 DEF LeaveLoop
<1>16. CASE NextRadio
    BY <1>16 DEF NextRadio, MoreRadios
<1>17. CASE BeginDrain
    BY <1>17 DEF BeginDrain, MoreRadios, Active
<1>18. CASE BeginWait
    BY <1>18 DEF BeginWait, MoreRadios, Active
<1>19. CASE DrainsDone
    BY <1>19 DEF DrainsDone, MoreRadios
<1>20. CASE WaitsDone
    BY <1>20 DEF WaitsDone, MoreRadios
<1>21. CASE ReadRecords
    <2>1. /\ i \in Mcus /\ captureStarted[i]
          /\ errs' = [errs EXCEPT ![i] = 0]
          /\ UNCHANGED <<channel, captureStarted>>
        BY <1>21 DEF ReadRecords, GoodRead, ErrsAfterGoodRead, Reading
    <2>2. pc' # "cleanup"
        BY <1>21 DEF ReadRecords, GoodRead, Reading, ToNextRadio
    <2> QED
        BY <2>1, <2>2
<1>22. CASE ReadNothing
    BY <1>22 DEF ReadNothing, GoodRead, ErrsAfterGoodRead, Reading,
       ToNextRadio, CountRead
<1>23. CASE ReadNoDevice
    BY <1>23 DEF ReadNoDevice, ReadFails, Reading, ToNextRadio, CountRead,
       LossStatus
<1>24. CASE ReadErrorRetry
    BY <1>24 DEF ReadErrorRetry, ReadFails, Reading, ToNextRadio, CountRead,
       Persistent
<1>25. CASE ReadErrorDisable
    <2>1. /\ i \in Mcus
          /\ errs[i] < MaxReadErrors /\ errs[i] + 1 >= MaxReadErrors
          /\ errs' = [errs EXCEPT ![i] = @ + 1]
          /\ captureStarted' = [captureStarted EXCEPT ![i] = FALSE]
          /\ pc' \in {"drain", "wait"}
          /\ UNCHANGED channel
        BY <1>25
        DEF ReadErrorDisable, ReadFails, Reading, ToNextRadio, Persistent
    <2>2. errs[i] \in Nat /\ MaxReadErrors \in Nat
        BY <2>1
    <2>3. errs'[i] = MaxReadErrors
        BY <2>1, <2>2
    <2>4. \A d \in Mcus : channel'[d] # 0 /\ ~captureStarted'[d]
                              => errs'[d] = MaxReadErrors
        BY <2>1, <2>3
    <2> QED
        BY <2>1, <2>4
<1>26. CASE SkipCleanup
    <2>1. i \in Mcus /\ ~captureStarted[i]
        BY <1>26 DEF SkipCleanup, InUse
    <2>2. \A d \in Mcus : d < i' => d < i \/ d = i
        BY <1>26 DEF SkipCleanup
    <2> QED
        BY <1>26, <2>1, <2>2 DEF SkipCleanup
<1>27. CASE CleanUp
    <2>1. i \in Mcus
        BY <1>27 DEF CleanUp
    <2>2. \A d \in Mcus : d < i' => d < i \/ d = i
        BY <1>27 DEF CleanUp
    <2>3. CASE ~Stoppable
        BY <1>27, <2>1, <2>2, <2>3 DEF CleanUp, Stoppable
    <2>4. CASE /\ streaming' = [streaming EXCEPT ![i] = FALSE]
               /\ UNCHANGED stopFailed
        BY <1>27, <2>1, <2>2, <2>4 DEF CleanUp
    <2>5. CASE /\ stopFailed' = [stopFailed EXCEPT ![i] = TRUE]
               /\ \E on \in BOOLEAN :
                     streaming' = [streaming EXCEPT ![i] = on]
        BY <1>27, <2>1, <2>2, <2>5 DEF CleanUp
    <2> QED
        BY <1>27, <2>3, <2>4, <2>5 DEF CleanUp
<1>28. CASE Finish
    BY <1>28 DEF Finish
<1>29. CASE Signal
    BY <1>29 DEF Signal
<1>30. CASE UNCHANGED vars
    BY <1>30 DEF vars
<1> QED
    BY <1>1, <1>2, <1>3, <1>4, <1>5, <1>6, <1>7, <1>8, <1>9, <1>10, <1>11,
       <1>12, <1>13, <1>14, <1>15, <1>16, <1>17, <1>18, <1>19, <1>20, <1>21,
       <1>22, <1>23, <1>24, <1>25, <1>26, <1>27, <1>28, <1>29, <1>30 DEF Next,
       Main, Read, Exited

\* What is left behind at the end.
LEMMA QuietStep ==
    ASSUME TypeOK, Fresh, InUse, Streak, Blamed, QuietExit, [Next]_vars
    PROVE  QuietExit'
<1> USE DEF TypeOK, Mcus, QuietExit, Assigned, Fresh, InUse, Streak, Blamed,
           config, loop, radios, outcome, world
<1>1. CASE FindNone
    BY <1>1 DEF FindNone, Exit
<1>2. CASE Find
    BY <1>2 DEF Find
<1>3. CASE Open
    BY <1>3 DEF Open
<1>4. CASE OpenedNone
    BY <1>4 DEF OpenedNone, Exit, None
<1>5. CASE OpenFile
    BY <1>5 DEF OpenFile, None
<1>6. CASE OpenFileFails
    BY <1>6 DEF OpenFileFails, Exit, None
<1>7. CASE SkipClosed
    BY <1>7 DEF SkipClosed, Starting
<1>8. CASE StartSucceeds
    BY <1>8 DEF StartSucceeds, Starting, NextSlot, AdvChannel
<1>9. CASE StartFails
    BY <1>9 DEF StartFails, Starting, NextSlot
<1>10. CASE AllStarted
    BY <1>10 DEF AllStarted
<1>11. CASE Alloc
    BY <1>11 DEF Alloc
<1>12. CASE OutOfMemory
    BY <1>12 DEF OutOfMemory
<1>13. CASE Allocated
    BY <1>13 DEF Allocated
<1>14. CASE NewPass
    BY <1>14 DEF NewPass
<1>15. CASE LeaveLoop
    BY <1>15 DEF LeaveLoop
<1>16. CASE NextRadio
    BY <1>16 DEF NextRadio, MoreRadios
<1>17. CASE BeginDrain
    BY <1>17 DEF BeginDrain, MoreRadios, Active
<1>18. CASE BeginWait
    BY <1>18 DEF BeginWait, MoreRadios, Active
<1>19. CASE DrainsDone
    BY <1>19 DEF DrainsDone, MoreRadios
<1>20. CASE WaitsDone
    BY <1>20 DEF WaitsDone, MoreRadios
<1>21. CASE ReadRecords
    BY <1>21 DEF ReadRecords, GoodRead, ErrsAfterGoodRead, Reading, DrainAgain,
       DrainsAfter, ToNextRadio, CountRead
<1>22. CASE ReadNothing
    BY <1>22 DEF ReadNothing, GoodRead, ErrsAfterGoodRead, Reading,
       ToNextRadio, CountRead
<1>23. CASE ReadNoDevice
    BY <1>23 DEF ReadNoDevice, ReadFails, Reading, ToNextRadio, CountRead,
       LossStatus
<1>24. CASE ReadErrorRetry
    BY <1>24 DEF ReadErrorRetry, ReadFails, Reading, ToNextRadio, CountRead,
       Persistent
<1>25. CASE ReadErrorDisable
    BY <1>25 DEF ReadErrorDisable, ReadFails, Reading, ToNextRadio, CountRead,
       Persistent, LossStatus, StartedAfterLoss
<1>26. CASE SkipCleanup
    BY <1>26 DEF SkipCleanup
<1>27. CASE CleanUp
    BY <1>27 DEF CleanUp, Stoppable
<1>28. CASE Finish
    BY <1>28 DEF Finish
<1>29. CASE Signal
    BY <1>29 DEF Signal
<1>30. CASE UNCHANGED vars
    BY <1>30 DEF vars
<1> QED
    BY <1>1, <1>2, <1>3, <1>4, <1>5, <1>6, <1>7, <1>8, <1>9, <1>10, <1>11,
       <1>12, <1>13, <1>14, <1>15, <1>16, <1>17, <1>18, <1>19, <1>20, <1>21,
       <1>22, <1>23, <1>24, <1>25, <1>26, <1>27, <1>28, <1>29, <1>30 DEF Next,
       Main, Read, Exited

\* Only a start gives out a channel.
LEMMA ChannelsFixed ==
    ASSUME [Next]_vars, ~StartSucceeds
    PROVE  UNCHANGED <<fixedChannel, slot, channel>>
    BY DEF Next, Main, Read, Exited, vars, config, loop, radios, outcome,
       world, FindNone, Exit, Find, Open, OpenedNone, OpenFile, OpenFileFails,
       SkipClosed, StartFails, NextSlot, AllStarted, Alloc, OutOfMemory,
       Allocated, NewPass, LeaveLoop, NextRadio, BeginDrain, BeginWait,
       DrainsDone, WaitsDone, ReadRecords, GoodRead, ToNextRadio, ReadNothing,
       ReadNoDevice, ReadFails, ReadErrorRetry, ReadErrorDisable, SkipCleanup,
       CleanUp, Finish, Signal

LEMMA CoveredStep ==
    ASSUME TypeOK, Fresh, Covered, [Next]_vars
    PROVE  Covered'
<1> USE DEF TypeOK, Mcus
<1>1. CASE ~StartSucceeds
    <2>1. UNCHANGED <<fixedChannel, slot, channel>>
        BY <1>1, ChannelsFixed
    <2>2. UNCHANGED Assigned
        BY <2>1 DEF Assigned
    <2>3. {channel'[d] : d \in Assigned'} = {channel[d] : d \in Assigned}
        BY <2>1, <2>2
    <2> QED
        BY <2>1, <2>2, <2>3 DEF Covered
<1>2. CASE StartSucceeds
    <2>1. i \in Mcus /\ channel[i] = 0
        <3>1. i \in Mcus /\ pc = "start"
            BY <1>2, ConstantsAssumption DEF StartSucceeds, Starting
        <3> QED
            BY <3>1 DEF Fresh
    <2>2. SUFFICES ASSUME fixedChannel = 0
                   PROVE  Covered'
        BY <1>2 DEF StartSucceeds, Covered, config
    <2>3. /\ channel' = [channel EXCEPT ![i] = AdvChannel(slot)]
          /\ slot' = slot + 1
          /\ AdvChannel(slot) # 0
        BY <1>2, <2>2, AdvChannelType DEF StartSucceeds, NextSlot, config
    <2>4. Assigned' = Assigned \cup {i} /\ i \notin Assigned
        BY <2>1, <2>3 DEF Assigned
    <2>5. slot' = Cardinality(Assigned')
        <3>1. Cardinality(Assigned') = Cardinality(Assigned) + 1
            BY <2>4, AssignedFinite, FS_AddElement
        <3> QED
            BY <2>2, <2>3, <3>1 DEF Covered
    <2>6. {channel'[d] : d \in Assigned'}
              = {channel[d] : d \in Assigned} \cup {AdvChannel(slot)}
        BY <2>1, <2>3, <2>4 DEF Assigned
    <2>7. {AdvChannel(n) : n \in 0..slot}
              = {AdvChannel(n) : n \in 0..(slot - 1)} \cup {AdvChannel(slot)}
        <3>1. \A n : n \in 0..slot <=> n \in 0..(slot - 1) \/ n = slot
            OBVIOUS
        <3> QED
            BY <3>1
    <2>8. slot' - 1 = slot
        BY <2>3
    <2> QED
        BY <2>2, <2>5, <2>6, <2>7, <2>8 DEF Covered
<1> QED
    BY <1>1, <1>2

---------------------------------------------------------------------------
(* The invariant holds, and what follows from it. *)

LEMMA InitInv == Init => IInv
<1> SUFFICES ASSUME Init PROVE IInv
    OBVIOUS
<1> USE ConstantsAssumption DEF Init, None, All, Mcus
<1>1. captureStarted \in [Mcus -> BOOLEAN] /\ \A d \in Mcus : ~captureStarted[d]
    OBVIOUS
<1>2. TypeOK
    <2>1. /\ streaming \in [Mcus -> BOOLEAN]
          /\ isOpen \in [Mcus -> BOOLEAN] /\ hasBuf \in [Mcus -> BOOLEAN]
          /\ stopFailed \in [Mcus -> BOOLEAN]
        OBVIOUS
    <2>2. /\ channel \in [Mcus -> {0, 37, 38, 39}]
          /\ errs \in [Mcus -> 0..MaxReadErrors]
          /\ failsInRow \in [Mcus -> 0..MaxReadErrors]
        OBVIOUS
    <2>3. drains \in 0..(MaxDrains - 1) /\ readsAfterStop \in 0..(MaxDrains + 1)
        OBVIOUS
    <2>4. ndev \in 0..MaxDevices /\ i \in 1..(ndev + 1)
        BY FirstInRange
    <2> QED
        BY <1>1, <2>1, <2>2, <2>3, <2>4 DEF TypeOK
<1>3. Counted
    <2>1. started = Cardinality(Started)
        BY <1>1, MarkedNone, StartedMarked
    <2> QED
        BY <1>1, <2>1 DEF Counted
<1>4. Fresh /\ InUse
    BY <1>2 DEF Fresh, InUse, InLoop
<1>5. ErrorsBounded /\ StopBounded /\ Streak
    BY <1>2 DEF ErrorsBounded, StopBounded, Reading, Streak
<1>6. Honest /\ Blamed /\ QuietExit
    BY <1>2 DEF Honest, Blamed, QuietExit, Before, InLoop
<1>7. Covered
    <2>1. Assigned = {} /\ slot = 0
        BY DEF Assigned
    <2>2. Cardinality(Assigned) = 0
        BY <2>1, FS_EmptySet
    <2>3. {AdvChannel(n) : n \in 0..(slot - 1)} = {}
        BY <2>1
    <2> QED
        BY <2>1, <2>2, <2>3 DEF Covered
<1> QED
    BY <1>2, <1>3, <1>4, <1>5, <1>6, <1>7 DEF IInv

LEMMA StepInv == IInv /\ [Next]_vars => IInv'
<1> SUFFICES ASSUME IInv, [Next]_vars PROVE IInv'
    OBVIOUS
<1>1. /\ TypeOK /\ Counted /\ Fresh /\ InUse /\ ErrorsBounded /\ StopBounded
      /\ Streak /\ Honest /\ Blamed /\ QuietExit /\ Covered
    BY DEF IInv
<1>2. TypeOK' /\ Counted'
    BY <1>1, TypeStep, CountedStep
<1> QED
    BY <1>1, <1>2, FreshStep, InUseStep, ErrorsStep, StopStep, StreakStep,
       HonestStep, BlamedStep, QuietStep, CoveredStep
    DEF IInv

\* The invariant of every reachable state.
LEMMA InvHolds == Spec => []IInv
    BY InitInv, StepInv, PTL DEF Spec

\* Every variable of the capture program keeps its type: no read-error count
\* passes its cap and no cursor leaves the radios found.
THEOREM TypeCorrect == Spec => []TypeOK
<1>1. IInv => TypeOK
    BY DEF IInv
<1> QED
    BY <1>1, InvHolds, PTL

\* After a stop request at most one drain's reads begin (the g_stop tests of
\* both for loops and of the drain's cap).
THEOREM StopsPromptly == Spec => []PromptStop
<1>1. IInv => PromptStop
    BY DEF IInv, StopBounded, PromptStop
<1> QED
    BY <1>1, InvHolds, PTL

\* started is the number of radios that capture, and the loop runs only while
\* one of them has a buffer to read into.
THEOREM LoopHasRadios == Spec => []RunsOnlyWithRadios
<1>1. IInv => RunsOnlyWithRadios
    <2> SUFFICES ASSUME IInv PROVE RunsOnlyWithRadios
        OBVIOUS
    <2>1. started = Cardinality(Started)
        BY DEF IInv, Counted
    <2>2. ASSUME InLoop, ~gStop
          PROVE  \E d \in 1..ndev : Active(d)
        <3>1. PICK d \in Mcus : captureStarted[d]
            BY <2>2 DEF IInv, Honest
        <3>2. hasBuf[d] /\ isOpen[d] /\ d <= ndev
            BY <2>2, <3>1 DEF IInv, InUse
        <3>3. d \in 1..ndev
            BY <3>2, ConstantsAssumption DEF Mcus, IInv, TypeOK
        <3> QED
            BY <3>1, <3>2, <3>3 DEF Active
    <2> QED
        BY <2>1, <2>2 DEF RunsOnlyWithRadios
<1> QED
    BY <1>1, InvHolds, PTL

\* With one channel per radio, the radios that started got the first
\* advertising channels without a gap, whichever radios failed before them.
THEOREM ChannelsCovered == Spec => []ChannelCoverage
<1>1. IInv => ChannelCoverage
    BY DEF IInv, Covered, ChannelCoverage
<1> QED
    BY <1>1, InvHolds, PTL

\* Exit status 0 means a signal asked for the end and no radio was lost.
THEOREM CleanExitHonest == Spec => []CleanExitWasAsked
<1>1. IInv => CleanExitWasAsked
    <2> SUFFICES ASSUME IInv, pc = "exited", exitStatus = 0
                 PROVE  /\ signalled
                        /\ Assigned # {}
                        /\ \A d \in Assigned : captureStarted[d]
        BY DEF CleanExitWasAsked
    <2>1. signalled
        BY DEF IInv, Honest
    <2>2. PICK d \in Mcus : captureStarted[d]
        BY DEF IInv, Honest, Before
    <2>3. d \in Assigned
        BY <2>2 DEF IInv, Counted, Assigned
    <2>4. \A e \in Assigned : captureStarted[e]
        BY DEF IInv, Honest, Assigned
    <2> QED
        BY <2>1, <2>3, <2>4
<1> QED
    BY <1>1, InvHolds, PTL

\* A radio is given up after exactly MaxReadErrors failed reads in a row: the
\* count of read errors is reset by every good read of either loop.
THEOREM PersistentGivenUp == Spec => []GivenUpWhenPersistent
<1>1. IInv => GivenUpWhenPersistent
    <2> SUFFICES ASSUME IInv, NEW d \in Assigned
                 PROVE  IF captureStarted[d]
                        THEN gStop \/ failsInRow[d] < MaxReadErrors
                        ELSE failsInRow[d] = MaxReadErrors
        BY DEF GivenUpWhenPersistent
    <2>1. d \in Mcus /\ channel[d] # 0 /\ failsInRow[d] = errs[d]
        BY DEF Assigned, IInv, Streak
    <2> QED
        BY <2>1 DEF IInv, ErrorsBounded, Blamed
<1> QED
    BY <1>1, InvHolds, PTL

\* At exit every radio and the capture file are closed, and a radio that goes
\* on capturing was given up after its read errors or had its stop fail.
THEOREM EndsQuietly == Spec => []QuietExit
<1>1. IInv => QuietExit
    BY DEF IInv
<1> QED
    BY <1>1, InvHolds, PTL

---------------------------------------------------------------------------
(* Every pass and the clean-up end.                                        *)

\* What is left is counted in natural numbers, so it cannot shrink for ever.
LEMMA LeftIsNat ==
    ASSUME TypeOK
    PROVE  Stage \in 0..8 /\ RadiosLeft \in Nat /\ ReadsLeft \in Nat
<1>1. Stage \in 0..8
    BY DEF TypeOK, Stage
<1>2. ndev \in Nat /\ i \in 1..(ndev + 1) /\ drains \in 0..(MaxDrains - 1)
    BY ConstantsAssumption DEF TypeOK
<1>3. RadiosLeft \in Nat
    BY <1>2 DEF RadiosLeft
<1>4. ReadsLeft \in Nat
    BY <1>2, ConstantsAssumption DEF ReadsLeft
<1> QED
    BY <1>1, <1>3, <1>4

\* A step to the next radio of the same loop.
LEMMA NextIsNearer ==
    ASSUME TypeOK, ndev' = ndev, i' = i + 1, Stage' = Stage
    PROVE  Nearer
<1>1. ndev \in Nat /\ i \in Nat
    BY ConstantsAssumption DEF TypeOK
<1>2. RadiosLeft' < RadiosLeft
    BY <1>1 DEF RadiosLeft
<1> QED
    BY <1>2 DEF Nearer

LEMMA NearerStep ==
    ASSUME TypeOK, Main
    PROVE  NewPass \/ Nearer
<1>1. ndev \in Nat /\ i \in Nat /\ drains \in 0..(MaxDrains - 1) /\ MaxDrains \in Nat
    BY ConstantsAssumption DEF TypeOK
<1>2. CASE FindNone \/ Find \/ OpenedNone \/ OpenFile \/ OpenFileFails
           \/ AllStarted \/ OutOfMemory \/ Allocated \/ LeaveLoop \/ Finish
           \/ DrainsDone \/ WaitsDone
    <2>1. Stage' < Stage
        BY <1>2 DEF FindNone, Find, OpenedNone, OpenFile, OpenFileFails, AllStarted,
            OutOfMemory, Allocated, LeaveLoop, Finish, DrainsDone, WaitsDone, Exit, Stage
    <2> QED
        BY <2>1 DEF Nearer
<1>3. CASE Open \/ SkipClosed \/ StartSucceeds \/ StartFails \/ Alloc \/ NextRadio
           \/ SkipCleanup \/ CleanUp
    <2>1. ndev' = ndev /\ i' = i + 1 /\ pc' = pc
        BY <1>3 DEF Open, SkipClosed, StartSucceeds, StartFails, Alloc, NextRadio,
            SkipCleanup, CleanUp, config
    <2>2. Stage' = Stage
        BY <2>1 DEF Stage
    <2> QED
        BY <2>1, <2>2, NextIsNearer
<1>4. CASE BeginDrain
    <2>1. /\ pc = "drain" /\ pc' = "drainRead" /\ drains' = 0
          /\ ndev' = ndev /\ i' = i
        BY <1>4 DEF BeginDrain, config
    <2>2. Stage' = Stage
        BY <2>1 DEF Stage
    <2>3. ReadsLeft' < ReadsLeft
        BY <1>1, <2>1 DEF ReadsLeft
    <2> QED
        BY <2>1, <2>2, <2>3 DEF Nearer, RadiosLeft
<1>5. CASE BeginWait
    <2>1. pc = "wait" /\ pc' = "waitRead" /\ ndev' = ndev /\ i' = i
        BY <1>5 DEF BeginWait, config
    <2>2. Stage' = Stage
        BY <2>1 DEF Stage
    <2>3. ReadsLeft' < ReadsLeft
        BY <1>1, <2>1 DEF ReadsLeft
    <2> QED
        BY <2>1, <2>2, <2>3 DEF Nearer, RadiosLeft
<1>6. ASSUME Reading, ToNextRadio, ndev' = ndev
      PROVE  Nearer
    <2>1. /\ i' = i + 1
          /\ \/ pc = "drainRead" /\ pc' = "drain"
             \/ pc = "waitRead" /\ pc' = "wait"
        BY <1>6 DEF Reading, ToNextRadio
    <2>2. Stage' = Stage
        BY <2>1 DEF Stage
    <2> QED
        BY <1>6, <2>1, <2>2, NextIsNearer
<1>7. CASE ReadRecords
    <2>1. Reading /\ ndev' = ndev
        BY <1>7 DEF ReadRecords, GoodRead, config
    <2>2. CASE DrainAgain
        <3>1. /\ pc = "drainRead" /\ pc' = pc /\ i' = i /\ drains' = drains + 1
            BY <1>7, <2>2 DEF ReadRecords, DrainAgain, DrainsAfter
        <3>2. Stage' = Stage
            BY <3>1 DEF Stage
        <3>3. ReadsLeft' < ReadsLeft
            BY <1>1, <3>1 DEF ReadsLeft
        <3> QED
            BY <2>1, <3>1, <3>2, <3>3 DEF Nearer, RadiosLeft
    <2>3. CASE ~DrainAgain
        <3>1. ToNextRadio
            BY <1>7, <2>3 DEF ReadRecords
        <3> QED
            BY <1>6, <2>1, <3>1
    <2> QED
        BY <2>2, <2>3
<1>8. CASE ReadNothing \/ ReadNoDevice \/ ReadErrorRetry \/ ReadErrorDisable
    <2>1. Reading /\ ToNextRadio /\ ndev' = ndev
        BY <1>8 DEF ReadNothing, GoodRead, ReadNoDevice, ReadErrorRetry, ReadErrorDisable,
            ReadFails, config
    <2> QED
        BY <1>6, <2>1
<1> QED
    BY <1>2, <1>3, <1>4, <1>5, <1>7, <1>8 DEF Main, Read

\* Every step of main() but the start of a pass brings its end nearer, for any
\* number of radios and reads: with LeftIsNat, a pass and what follows a stop
\* take finitely many steps.
THEOREM StepsAreNearer == Spec => EveryStepNearer
<1>1. IInv /\ [Next]_vars => [Main => NewPass \/ Nearer]_vars
    BY NearerStep DEF IInv
<1> QED
    BY <1>1, InvHolds, PTL DEF Spec, EveryStepNearer
=============================================================================

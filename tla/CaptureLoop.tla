---------------------------- MODULE CaptureLoop ----------------------------
(***************************************************************************)
(* The capture program: main() of ble-driver/wch_capture.c, from           *)
(* sigaction() to exit, over up to three analyzer radios (MCUs).           *)
(*                                                                         *)
(* One process, one thread, and a signal handler that may set g_stop       *)
(* between any two steps.  The radios answer every libusb call as they     *)
(* like.  A read is abstracted to what main() tells apart: records (n > 0),*)
(* nothing (n = 0), an error, LIBUSB_ERROR_NO_DEVICE.  Loop cursors count  *)
(* from 1 where the code counts from 0.                                    *)
(***************************************************************************)
EXTENDS Integers, FiniteSets

CONSTANTS
    MaxDevices,     \* MAX_MCU_DEVICES 3
    MaxDrains,      \* MAX_DRAIN_READS_PER_MCU 32
    MaxReadErrors,  \* MAX_CONSECUTIVE_READ_ERRORS 5
    ChannelOptions  \* the values of option -c considered

ASSUME ConstantsAssumption ==
    /\ MaxDevices \in Nat \ {0}
    /\ MaxDrains \in Nat \ {0}
    /\ MaxReadErrors \in Nat \ {0}
    /\ ChannelOptions \subseteq {0, 37, 38, 39}

Mcus == 1..MaxDevices

VARIABLES
    pc,             \* the statement main() is at
    i,              \* loop cursor
    drains,         \* reads done on radio i in this pass
    anyData,        \* any_data
    ndev,           \* devices found
    fixedChannel,   \* cfg.ble_channel: 0 = one advertising channel per radio
    isOpen,         \* devs[d].is_open
    captureStarted, \* capture_started[d]
    started,        \* started
    slot,           \* auto_channel_slot
    channel,        \* channel given to a started radio, 0 if none
    hasBuf,         \* bufs[d] # NULL
    errs,           \* consecutive_read_errors[d]
    pcap,           \* g_pcap_file: "none", "open", "closed"
    gStop,          \* g_stop
    exitStatus,     \* exit_status

    (* The outside world and what the properties remember of it. *)
    streaming,      \* the radio's firmware is capturing
    stopFailed,     \* a write of the radio's stop has failed
    failsInRow,     \* reads of the radio that failed since its last good one
    signalled,      \* SIGINT or SIGTERM arrived
    readsAfterStop  \* reads begun since g_stop was set

config == <<ndev, fixedChannel>>
loop == <<pc, i, drains, anyData>>
radios == <<isOpen, captureStarted, started, slot, channel, hasBuf, errs>>
outcome == <<pcap, gStop, exitStatus>>
world == <<streaming, stopFailed, failsInRow, signalled, readsAfterStop>>
vars == <<config, loop, radios, outcome, world>>

---------------------------------------------------------------------------
AdvChannel(n) == 37 + (n % 3)   \* adv_ch[n % 3]

\* The loops skip a radio that is not open, not started or has no buffer.
Active(d) == isOpen[d] /\ captureStarted[d] /\ hasBuf[d]

Started == {d \in Mcus : captureStarted[d]}

None == [d \in Mcus |-> FALSE]
All == [d \in Mcus |-> TRUE]

Init ==
    /\ pc = "find"
    /\ i = 1
    /\ drains = 0
    /\ anyData = FALSE
    /\ ndev = 0
    /\ fixedChannel \in ChannelOptions
    /\ isOpen = None
    /\ captureStarted = None
    /\ started = 0
    /\ slot = 0
    /\ channel = [d \in Mcus |-> 0]
    /\ hasBuf = None
    /\ errs = [d \in Mcus |-> 0]
    /\ pcap = "none"
    /\ gStop = FALSE
    /\ exitStatus = 0
    /\ streaming \in {None, All}      \* All: an earlier run was killed
    /\ stopFailed = None
    /\ failsInRow = [d \in Mcus |-> 0]
    /\ signalled = FALSE
    /\ readsAfterStop = 0

\* sig_handler: between any two steps of main().
Signal ==
    /\ pc # "exited"
    /\ gStop' = TRUE
    /\ signalled' = TRUE
    /\ UNCHANGED <<config, loop, radios, pcap, exitStatus, streaming, stopFailed,
                   failsInRow, readsAfterStop>>

\* return from main().
Exit(status) ==
    /\ pc' = "exited"
    /\ exitStatus' = status

---------------------------------------------------------------------------
(* Finding and opening the radios, opening the capture file. *)

\* wch_init failed, or wch_find_devices found nothing or failed.
FindNone ==
    /\ pc = "find"
    /\ Exit(1)
    /\ UNCHANGED <<config, i, drains, anyData, radios, pcap, gStop, world>>

Find ==
    /\ pc = "find"
    /\ ndev' \in Mcus
    /\ pc' = "open"
    /\ UNCHANGED <<fixedChannel, i, drains, anyData, radios, outcome, world>>

Open ==
    /\ pc = "open" /\ i <= ndev
    /\ \E ok \in BOOLEAN : isOpen' = [isOpen EXCEPT ![i] = ok]
    /\ i' = i + 1
    /\ UNCHANGED <<config, pc, drains, anyData, captureStarted, started, slot,
                   channel, hasBuf, errs, outcome, world>>

OpenedNone ==
    /\ pc = "open" /\ i > ndev
    /\ isOpen = None
    /\ Exit(1)
    /\ UNCHANGED <<config, i, drains, anyData, radios, pcap, gStop, world>>

\* Without -w there is no file.
OpenFile ==
    /\ pc = "open" /\ i > ndev
    /\ isOpen # None
    /\ pcap' \in {"none", "open"}
    /\ pc' = "start"
    /\ i' = 1
    /\ UNCHANGED <<config, drains, anyData, radios, gStop, exitStatus, world>>

\* fopen failed: close every radio and leave.
OpenFileFails ==
    /\ pc = "open" /\ i > ndev
    /\ isOpen # None
    /\ isOpen' = None
    /\ Exit(1)
    /\ UNCHANGED <<config, i, drains, anyData, captureStarted, started, slot,
                   channel, hasBuf, errs, pcap, gStop, world>>

---------------------------------------------------------------------------
(* Starting the radios: AA84 identify, AA81 configure, AAA1 trigger. *)

Starting == pc = "start" /\ i <= ndev

SkipClosed ==
    /\ Starting /\ ~isOpen[i]
    /\ i' = i + 1
    /\ UNCHANGED <<config, pc, drains, anyData, radios, outcome, world>>

\* Fault: the channel slot advances for every radio tried.
SlotPerRadioTried(ok) == IF fixedChannel = 0 THEN slot + 1 ELSE slot

\* auto_channel_slot counts the radios that started.
NextSlot(ok) == IF ok /\ fixedChannel = 0 THEN slot + 1 ELSE slot

StartSucceeds ==
    /\ Starting /\ isOpen[i]
    /\ captureStarted' = [captureStarted EXCEPT ![i] = TRUE]
    /\ started' = started + 1
    /\ channel' = [channel EXCEPT ![i] =
                       IF fixedChannel = 0 THEN AdvChannel(slot) ELSE fixedChannel]
    /\ slot' = NextSlot(TRUE)
    /\ streaming' = [streaming EXCEPT ![i] = TRUE]
    /\ i' = i + 1
    /\ UNCHANGED <<config, pc, drains, anyData, isOpen, hasBuf, errs, outcome,
                   stopFailed, failsInRow, signalled, readsAfterStop>>

\* A failure up to the AA81 write leaves the firmware as it was; one of the
\* AAA1 write leaves it configured, and streaming.
StartFails ==
    /\ Starting /\ isOpen[i]
    /\ slot' = NextSlot(FALSE)
    /\ \E configured \in BOOLEAN :
          streaming' = [streaming EXCEPT ![i] = @ \/ configured]
    /\ i' = i + 1
    /\ UNCHANGED <<config, pc, drains, anyData, isOpen, captureStarted, started,
                   channel, hasBuf, errs, outcome, stopFailed, failsInRow,
                   signalled, readsAfterStop>>

AllStarted ==
    /\ pc = "start" /\ i > ndev
    /\ exitStatus' = IF started = 0 THEN 1 ELSE exitStatus
    /\ gStop' = (gStop \/ started = 0)
    /\ pc' = "alloc"
    /\ i' = 1
    /\ UNCHANGED <<config, drains, anyData, radios, pcap, world>>

Alloc ==
    /\ pc = "alloc" /\ i <= ndev
    /\ hasBuf' = [hasBuf EXCEPT ![i] = isOpen[i] /\ captureStarted[i]]
    /\ i' = i + 1
    /\ UNCHANGED <<config, pc, drains, anyData, isOpen, captureStarted, started,
                   slot, channel, errs, outcome, world>>

\* malloc failed: no buffer for this radio and the ones after it.
OutOfMemory ==
    /\ pc = "alloc" /\ i <= ndev
    /\ isOpen[i] /\ captureStarted[i]
    /\ exitStatus' = 1
    /\ gStop' = TRUE
    /\ pc' = "loop"
    /\ UNCHANGED <<config, i, drains, anyData, radios, pcap, world>>

Allocated ==
    /\ pc = "alloc" /\ i > ndev
    /\ pc' = "loop"
    /\ UNCHANGED <<config, i, drains, anyData, radios, outcome, world>>
---------------------------------------------------------------------------
(* while (!g_stop): drain every radio, then wait if none had records. *)

NewPass ==
    /\ pc = "loop" /\ ~gStop
    /\ pc' = "drain"
    /\ anyData' = FALSE
    /\ i' = 1
    /\ UNCHANGED <<config, drains, radios, outcome, world>>

\* Fault: the loop ends only when no radio is left.
LeaveLoopWithoutRadios ==
    /\ pc = "loop" /\ gStop /\ started = 0
    /\ pc' = "cleanup"
    /\ i' = 1
    /\ UNCHANGED <<config, drains, anyData, radios, outcome, world>>

LeaveLoop ==
    /\ pc = "loop" /\ gStop
    /\ pc' = "cleanup"
    /\ i' = 1
    /\ UNCHANGED <<config, drains, anyData, radios, outcome, world>>

\* Fault: g_stop is looked at once per pass.
MoreRadiosInPass == i <= ndev

\* The conditions of both for loops.
MoreRadios == i <= ndev /\ ~gStop

NextRadio ==
    /\ pc \in {"drain", "wait"} /\ MoreRadios
    /\ ~Active(i)
    /\ i' = i + 1
    /\ UNCHANGED <<config, pc, drains, anyData, radios, outcome, world>>

BeginDrain ==
    /\ pc = "drain" /\ MoreRadios
    /\ Active(i)
    /\ pc' = "drainRead"
    /\ drains' = 0
    /\ UNCHANGED <<config, i, anyData, radios, outcome, world>>

BeginWait ==
    /\ pc = "wait" /\ MoreRadios
    /\ Active(i)
    /\ pc' = "waitRead"
    /\ UNCHANGED <<config, i, drains, anyData, radios, outcome, world>>

DrainsDone ==
    /\ pc = "drain" /\ ~MoreRadios
    /\ pc' = IF ~anyData /\ ~gStop THEN "wait" ELSE "loop"
    /\ i' = 1
    /\ UNCHANGED <<config, drains, anyData, radios, outcome, world>>

WaitsDone ==
    /\ pc = "wait" /\ ~MoreRadios
    /\ pc' = "loop"
    /\ i' = 1
    /\ UNCHANGED <<config, drains, anyData, radios, outcome, world>>

---------------------------------------------------------------------------
(* One wch_read_packets and what main() makes of its result. *)

Reading == pc \in {"drainRead", "waitRead"}

\* Counts the reads begun since g_stop was set, up to one more than a drain.
CountRead ==
    readsAfterStop' = IF gStop /\ readsAfterStop <= MaxDrains
                      THEN readsAfterStop + 1 ELSE readsAfterStop

DrainsAfter == drains + 1

\* After records were read, the drain goes on up to its cap.
DrainAgain == pc = "drainRead" /\ DrainsAfter < MaxDrains

\* Fault: as long as there is data the pass starts over.
ToFirstRadioAgain ==
    /\ pc' = IF pc = "drainRead" THEN "drain" ELSE "wait"
    /\ i' = IF anyData THEN 1 ELSE i + 1
    /\ UNCHANGED drains

\* Control goes to the next radio of the for loop that did the read.
ToNextRadio ==
    /\ pc' = IF pc = "drainRead" THEN "drain" ELSE "wait"
    /\ i' = i + 1
    /\ UNCHANGED drains

\* Fault: only a failure changes the count.
ErrsKept == errs[i]

ErrsAfterGoodRead == 0

\* A read that does not fail, with records or without.
GoodRead ==
    /\ Reading
    /\ errs' = [errs EXCEPT ![i] = ErrsAfterGoodRead]
    /\ failsInRow' = [failsInRow EXCEPT ![i] = 0]
    /\ CountRead
    /\ UNCHANGED <<config, isOpen, captureStarted, started, slot, channel,
                   hasBuf, outcome, streaming, stopFailed, signalled>>

\* n > 0.  The blocking wait of phase 2 does not set any_data.
ReadRecords ==
    /\ GoodRead
    /\ anyData' = (anyData \/ pc = "drainRead")
    /\ IF DrainAgain
       THEN drains' = DrainsAfter /\ UNCHANGED <<pc, i>>
       ELSE ToNextRadio

\* n = 0.
ReadNothing == GoodRead /\ ToNextRadio /\ UNCHANGED anyData

\* n < 0.
ReadFails ==
    /\ Reading
    /\ errs' = [errs EXCEPT ![i] = @ + 1]
    /\ failsInRow' = [failsInRow EXCEPT ![i] = @ + 1]
    /\ ToNextRadio
    /\ CountRead
    /\ UNCHANGED <<config, anyData, isOpen, slot, channel, hasBuf, pcap,
                   streaming, stopFailed, signalled>>

\* Fault: a late failure does not reach the exit status.
LossStatusKept == exitStatus

LossStatus == 1

\* Fault: one error too many is tolerated.
PersistentOffByOne == errs[i] >= MaxReadErrors

Persistent == errs[i] + 1 >= MaxReadErrors

\* Fault: a disabled radio still counts.
StartedAsBefore == started

StartedAfterLoss == started - 1

ReadNoDevice ==
    /\ ReadFails
    /\ exitStatus' = LossStatus
    /\ gStop' = TRUE
    /\ UNCHANGED <<captureStarted, started>>

ReadErrorRetry ==
    /\ ReadFails
    /\ ~Persistent
    /\ UNCHANGED <<captureStarted, started, exitStatus, gStop>>

\* The radio is disabled; the last one takes the program with it.
ReadErrorDisable ==
    /\ ReadFails
    /\ Persistent
    /\ captureStarted' = [captureStarted EXCEPT ![i] = FALSE]
    /\ started' = StartedAfterLoss
    /\ exitStatus' = LossStatus
    /\ gStop' = (gStop \/ StartedAfterLoss = 0)

Read == \/ ReadRecords \/ ReadNothing
        \/ ReadNoDevice \/ ReadErrorRetry \/ ReadErrorDisable

---------------------------------------------------------------------------
(* Stop and clean up. *)

SkipCleanup ==
    /\ pc = "cleanup" /\ i <= ndev /\ ~isOpen[i]
    /\ i' = i + 1
    /\ UNCHANGED <<config, pc, drains, anyData, radios, outcome, world>>

\* Fault: no stop is sent when the capture ends by an error.
StopWhenClean == captureStarted[i] /\ exitStatus = 0

Stoppable == captureStarted[i]

\* wch_stop_capture on a radio that still counts as started: the stop frame
\* and the trigger are written, or a write fails, its result is ignored and
\* the firmware may go on.  Then the radio is closed and its buffer freed.
\* That the firmware obeys the frame is what wch_protocol.h:38 and
\* OFFICIAL_PROTOCOL_NOTES.md:15 say of it; the comment "No stop command is
\* known; this is intentionally a no-op" (wch_ble_analyzer.h:253) is older
\* than the code, which writes two frames (wch_ble_analyzer.c:303-308).
CleanUp ==
    /\ pc = "cleanup" /\ i <= ndev /\ isOpen[i]
    /\ IF Stoppable
       THEN \/ /\ streaming' = [streaming EXCEPT ![i] = FALSE]
               /\ UNCHANGED stopFailed
            \/ /\ stopFailed' = [stopFailed EXCEPT ![i] = TRUE]
               /\ \E on \in BOOLEAN : streaming' = [streaming EXCEPT ![i] = on]
       ELSE UNCHANGED <<streaming, stopFailed>>
    /\ isOpen' = [isOpen EXCEPT ![i] = FALSE]
    /\ hasBuf' = [hasBuf EXCEPT ![i] = FALSE]
    /\ i' = i + 1
    /\ UNCHANGED <<config, pc, drains, anyData, captureStarted, started, slot,
                   channel, errs, outcome, failsInRow, signalled, readsAfterStop>>

Finish ==
    /\ pc = "cleanup" /\ i > ndev
    /\ pcap' = IF pcap = "open" THEN "closed" ELSE pcap
    /\ pc' = "exited"
    /\ UNCHANGED <<config, i, drains, anyData, radios, gStop, exitStatus, world>>

\* The process is gone.
Exited == pc = "exited" /\ UNCHANGED vars

---------------------------------------------------------------------------
Main == \/ FindNone \/ Find
        \/ Open \/ OpenedNone \/ OpenFile \/ OpenFileFails
        \/ SkipClosed \/ StartSucceeds \/ StartFails \/ AllStarted
        \/ Alloc \/ OutOfMemory \/ Allocated
        \/ NewPass \/ LeaveLoop \/ NextRadio \/ BeginDrain \/ BeginWait
        \/ DrainsDone \/ WaitsDone
        \/ Read
        \/ SkipCleanup \/ CleanUp \/ Finish

Next == Main \/ Signal \/ Exited

\* The process is scheduled and every libusb call returns: each read has a
\* timeout, each write one second.
Spec == Init /\ [][Next]_vars /\ WF_vars(Main)

---------------------------------------------------------------------------
(* Properties. *)

TypeOK ==
    /\ pc \in {"find", "open", "start", "alloc", "loop", "drain", "drainRead",
               "wait", "waitRead", "cleanup", "exited"}
    /\ ndev \in 0..MaxDevices
    /\ i \in 1..(ndev + 1)
    /\ drains \in 0..(MaxDrains - 1)
    /\ anyData \in BOOLEAN
    /\ fixedChannel \in ChannelOptions
    /\ isOpen \in [Mcus -> BOOLEAN]
    /\ captureStarted \in [Mcus -> BOOLEAN]
    /\ started \in Nat
    /\ slot \in Nat
    /\ channel \in [Mcus -> {0, 37, 38, 39}]
    /\ hasBuf \in [Mcus -> BOOLEAN]
    /\ errs \in [Mcus -> 0..MaxReadErrors]
    /\ pcap \in {"none", "open", "closed"}
    /\ gStop \in BOOLEAN
    /\ exitStatus \in {0, 1}
    /\ streaming \in [Mcus -> BOOLEAN]
    /\ stopFailed \in [Mcus -> BOOLEAN]
    /\ failsInRow \in [Mcus -> 0..MaxReadErrors]
    /\ signalled \in BOOLEAN
    /\ readsAfterStop \in 0..(MaxDrains + 1)

InLoop == pc \in {"loop", "drain", "drainRead", "wait", "waitRead"}

\* The loop never runs without a radio to read: started is the number of
\* radios that still capture, through any mix of failed starts and disabled
\* radios, and reaching zero ends the loop.
RunsOnlyWithRadios ==
    /\ started = Cardinality(Started)
    /\ (InLoop /\ ~gStop) => \E d \in 1..ndev : Active(d)

\* With one channel per radio, the k radios that started got the first k
\* advertising channels, one each, whichever radios failed to open or to
\* start ("a failed USB function does not leave an avoidable gap at the
\* start of channel coverage", wch_capture.c:626-627).
Assigned == {d \in Mcus : channel[d] # 0}

ChannelCoverage ==
    fixedChannel = 0 =>
        {channel[d] : d \in Assigned} =
            {AdvChannel(n) : n \in 0..(Cardinality(Assigned) - 1)}

\* Exit status 0 means that someone asked for the end and no radio was lost
\* on the way: any other end is a failure to the service manager, which
\* restarts the capture (wardriving-ble.service: Restart=on-failure).
CleanExitWasAsked ==
    (pc = "exited" /\ exitStatus = 0) =>
        /\ signalled
        /\ Assigned # {}
        /\ \A d \in Assigned : captureStarted[d]

\* A stop request, by signal or by a lost radio, is obeyed within the reads
\* of one radio's drain: at 5 ms a read, at most 160 ms of reading.
PromptStop == readsAfterStop <= MaxDrains

\* A radio is given up when MaxReadErrors of its reads in a row have failed,
\* and never sooner: errors far apart, with good reads between them, add up to
\* nothing, in whichever of the two loops they come ("persistent USB read
\* errors", wch_capture.c:737-738).  It is never later either: a radio that
\* goes on capturing has failed less often, unless the program is stopping.
GivenUpWhenPersistent ==
    \A d \in Assigned :
        IF captureStarted[d] THEN gStop \/ failsInRow[d] < MaxReadErrors
                             ELSE failsInRow[d] = MaxReadErrors

\* At the end every radio is closed and the capture file too.  The stop frame
\* has silenced each radio that still captured, whatever ended the program,
\* unless the writing of that frame failed; only a radio given up before may
\* be left capturing unstopped, as its firmware is not told.
QuietExit ==
    pc = "exited" =>
        /\ \A d \in Mcus : ~isOpen[d] /\ ~hasBuf[d]
        /\ pcap # "open"
        /\ \A d \in Assigned :
               streaming[d] => IF captureStarted[d] THEN stopFailed[d]
                                                    ELSE failsInRow[d] = MaxReadErrors

(* What is left of main(): stages, radios of the stage, reads of the radio. *)
Stage ==
    CASE pc = "find" -> 8
      [] pc = "open" -> 7
      [] pc = "start" -> 6
      [] pc = "alloc" -> 5
      [] pc \in {"drain", "drainRead"} -> 4
      [] pc \in {"wait", "waitRead"} -> 3
      [] pc = "loop" -> 2
      [] pc = "cleanup" -> 1
      [] pc = "exited" -> 0

RadiosLeft == ndev + 1 - i

ReadsLeft ==
    CASE pc = "drainRead" -> MaxDrains - drains
      [] pc = "waitRead" -> 0
      [] OTHER -> MaxDrains + 1

Nearer ==
    \/ Stage' < Stage
    \/ /\ Stage' = Stage
       /\ \/ RadiosLeft' < RadiosLeft
          \/ RadiosLeft' = RadiosLeft /\ ReadsLeft' < ReadsLeft

\* Whatever the radios answer, every step of main() but the start of a pass,
\* which a stop forbids, brings its end nearer: no pass and no clean-up goes on
\* for ever, neither by radios that always have data ("draining *uncapped*
\* [...] means a channel busy enough [...] starves the other MCUs",
\* wch_capture.c:676-679) nor by ones that always fail.
EveryStepNearer == [][Main => NewPass \/ Nearer]_vars

\* A stop request ends the program.
StopCompletes == gStop ~> (pc = "exited")

\* However busy the other radios are, one that still captures is read again
\* and again until the program stops ("guaranteeing every MCU gets serviced
\* every pass regardless of how busy any one of them is",
\* wch_capture.c:683-684).
EveryRadioServed ==
    \A d \in Mcus :
        (pc = "loop" /\ Active(d)) ~> ((Reading /\ i = d) \/ ~Active(d) \/ gStop)
===========================================================================

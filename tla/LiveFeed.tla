------------------------------ MODULE LiveFeed ------------------------------
(***************************************************************************)
(* The JSON-lines feed between two processes: wch_capture appends a line   *)
(* per packet, reader.py rebuilds the list of nearby devices from the tail *)
(* of the file on every request.                                           *)
(*                                                                         *)
(* Half a line is the unit of size.  A line reaches the file in two steps, *)
(* so a reader may find half of it, and a short write (disk full, power    *)
(* lost) leaves half of it for good: the next line then continues it.      *)
(* Time is told by the age of a record, now - host_timestamp, which a      *)
(* clock that is set back makes negative.                                  *)
(*                                                                         *)
(* Each turn of the reader's loop is one action.  The loop works on lines  *)
(* that are read already, so nobody else moves while it runs.              *)
(***************************************************************************)
EXTENDS Integers, Sequences

CONSTANTS
    Packets,    \* what is captured: address, name, rssi, link, type
    NoName,
    MaxAge,     \* max_age_sec, 120 s
    MaxStep,    \* bound on how far the clock is set back
    Window,     \* window_bytes, 262144
    MaxFeed     \* bound on the half-lines kept between two requests

ASSUME FeedAssumption ==
    /\ \A p \in Packets : p.link \in {"advertising", "data"} /\ p.type \in 0..15
    /\ MaxAge \in Nat /\ MaxStep \in Nat
    /\ Window \in Nat \ {0} /\ MaxFeed \in Nat /\ MaxFeed >= Window

VARIABLES
    feed,       \* half-lines of the file, as far back as a reader may look
    older,      \* the file has more before those
    writing,    \* the last line is half written
    torn,       \* the last line was cut short

    (* A call of recent_devices. *)
    pc,         \* "idle", "asked", "sized", "loop"
    since,      \* time since its time.time()
    at,         \* its loop has come to this place of feed
    list        \* devices

file == <<feed, older, writing, torn>>
reader == <<pc, since, at, list>>
vars == <<file, reader>>

Addresses == {p.address : p \in Packets}

NoRow == [name |-> NoName, rssi |-> 0, age |-> MaxAge + 3]

NoList == [a \in Addresses |-> NoRow]

Init ==
    /\ feed = <<>>
    /\ older = FALSE
    /\ writing = FALSE
    /\ torn = FALSE
    /\ pc = "idle"
    /\ since = 0
    /\ at = 1
    /\ list = NoList

---------------------------------------------------------------------------
(* json_write_packet. *)

Half(p, part) == [packet |-> p, part |-> part, age |-> 0, glued |-> torn]

\* The record is complete in stdout's buffer, which one fflush writes.
BeginLine(p) ==
    /\ pc # "loop"
    /\ ~writing
    /\ Len(feed) + 1 < MaxFeed
    /\ feed' = Append(feed, Half(p, "head"))
    /\ writing' = TRUE
    /\ UNCHANGED <<older, torn, reader>>

EndLine ==
    /\ pc # "loop"
    /\ writing
    /\ feed' = Append(feed, [feed[Len(feed)] EXCEPT !.part = "tail"])
    /\ writing' = FALSE
    /\ torn' = FALSE
    /\ UNCHANGED <<older, reader>>

\* The write fails half way.  stdio drops what it could not write, and
\* nobody looks at the error.
ShortWrite ==
    /\ pc # "loop"
    /\ writing
    /\ writing' = FALSE
    /\ torn' = TRUE
    /\ UNCHANGED <<feed, older, reader>>

---------------------------------------------------------------------------
(* The clock of the host. *)

\* Ages beyond MaxAge + 2 are not told apart: no test looks further, for since
\* is at most 1.
Aged(age) == IF age > MaxAge + 1 THEN age ELSE age + 1

\* Time passes, but little of it during a call.
Tick ==
    /\ pc = "idle" \/ (pc # "loop" /\ since < 1)
    /\ feed' = [i \in DOMAIN feed |-> [feed[i] EXCEPT !.age = Aged(@)]]
    /\ since' = IF pc = "idle" THEN since ELSE since + 1
    /\ UNCHANGED <<older, writing, torn, pc, at, list>>

\* The clock is set back (NTP, GPS; the rig has none that survives a boot).
\* During a call that is left out.
SetBack(d) ==
    /\ pc = "idle"
    /\ \A i \in DOMAIN feed : feed[i].age - d >= -MaxStep
    /\ feed' = [i \in DOMAIN feed |-> [feed[i] EXCEPT !.age = @ - d]]
    /\ UNCHANGED <<older, writing, torn, reader>>

---------------------------------------------------------------------------
(* reader.py. *)

_ADV_TYPES_WITH_AD_DATA == {0, 2, 4, 6}

\* _decode_pdu: link_layer and channel of the record are not looked at.
HasAddress(p) == p.type \in _ADV_TYPES_WITH_AD_DATA

\* now = time.time()
Request ==
    /\ pc = "idle"
    /\ pc' = "asked"
    /\ since' = 0
    /\ UNCHANGED <<file, at, list>>

\* start = max(0, size - window_bytes)
Start == IF Len(feed) > Window THEN Len(feed) - Window ELSE 0

\* os.path.getsize; nothing before the window is read by this or any later
\* call.
GetSize ==
    /\ pc = "asked"
    /\ pc' = "sized"
    /\ feed' = SubSeq(feed, Start + 1, Len(feed))
    /\ older' = (older \/ Start > 0)
    /\ UNCHANGED <<writing, torn, since, at, list>>

\* Fault: every first line is dropped.
AllButFirst(i) == i > 1 /\ feed[i - 1].part = "tail"

\* A line starts at i that _tail_lines keeps: not one that the window may
\* have cut.
LineStarts(i) == IF i = 1 THEN ~older ELSE feed[i - 1].part = "tail"

\* The lines that json.loads accepts, as the places where they start.
Lines ==
    {i \in 1..(Len(feed) - 1) :
        LineStarts(i) /\ feed[i].part = "head" /\ feed[i + 1].part = "tail"}

\* Fault: of two records of the same time the first is kept.
Later(age, row) == age < row.age

NoOlder(age, row) == age <= row.age

\* Fault: the name has no default.
NameOrNull(p, row) ==
    IF p.name # NoName THEN p.name ELSE IF row = NoRow THEN "null" ELSE row.name

ShownName(p, row) == IF p.name # NoName THEN p.name ELSE row.name

\* What one line adds to devices.  (A row of NoRow is older than every record
\* that comes this far: since is at most 1.)
Merge(devices, half) ==
    LET p == half.packet
        row == devices[p.address]
    IN  IF HasAddress(p) /\ half.age - since <= MaxAge /\ NoOlder(half.age, row)
        THEN [devices EXCEPT ![p.address] =
                [name |-> ShownName(p, row), rssi |-> p.rssi, age |-> half.age]]
        ELSE devices

\* open, seek, read to the end and split.
ReadTail ==
    /\ pc = "sized"
    /\ pc' = "loop"
    /\ at' = 1
    /\ list' = NoList
    /\ UNCHANGED <<file, since>>

\* One turn of the loop of recent_devices: the next line that json.loads
\* accepts is the one that starts at i.
Turn(i) ==
    /\ pc = "loop"
    /\ i \in Lines /\ i >= at
    /\ \A j \in Lines : j >= at => i <= j
    /\ list' = Merge(list, feed[i])
    /\ at' = i + 1
    /\ UNCHANGED <<file, pc, since>>

\* The loop is over, and list is what the call returns.
Answered == pc = "loop" /\ \A i \in Lines : i < at

Return ==
    /\ Answered
    /\ pc' = "idle"
    /\ since' = 0
    /\ at' = 1
    /\ list' = NoList
    /\ UNCHANGED file

Next ==
    \/ \E p \in Packets : BeginLine(p)
    \/ EndLine
    \/ ShortWrite
    \/ Tick
    \/ \E d \in 1..MaxStep : SetBack(d)
    \/ Request
    \/ GetSize
    \/ ReadTail
    \/ \E i \in 1..Len(feed) : Turn(i)
    \/ Return

Spec == Init /\ [][Next]_vars
---------------------------------------------------------------------------
(* Properties. *)

Halves == [packet : Packets, part : {"head", "tail"},
           age : -MaxStep..(MaxAge + 2), glued : BOOLEAN]

Rows == [name : {p.name : p \in Packets}, rssi : {p.rssi : p \in Packets},
         age : -MaxStep..(MaxAge + 2)]

TypeOK ==
    /\ feed \in Seq(Halves) /\ Len(feed) <= MaxFeed
    /\ older \in BOOLEAN
    /\ writing \in BOOLEAN
    /\ torn \in BOOLEAN
    /\ pc \in {"idle", "asked", "sized", "loop"}
    /\ since \in {0, 1}
    /\ at \in 1..(Len(feed) + 1)
    /\ list \in [Addresses -> Rows \cup {NoRow}]

\* The half-lines of lines that were written whole and on a line of their
\* own, and begin after the window's first byte.  One that begins with that
\* byte is dropped too (reader.py:95-96): the reader cannot tell it from the
\* end of a longer one.
Intact == {i \in 1..(Len(feed) - 1) :
              /\ ~feed[i].glued
              /\ feed[i].part = "head" /\ feed[i + 1].part = "tail"
              /\ i = 1 => ~older}

Advertised(i, a) ==
    /\ feed[i].packet.address = a
    /\ feed[i].packet.type \in {0, 2, 4, 6}
    /\ feed[i].age - since <= MaxAge

\* The lines about a that an answer may use, and those that give its name.
About(a) == {i \in Intact : Advertised(i, a)}
Naming(a) == {i \in About(a) : feed[i].packet.name # NoName}

Monotone == \A i, j \in DOMAIN feed : i < j => feed[i].age >= feed[j].age

IsLast(i, places) == i \in places /\ \A j \in places : j <= i

\* A line that was written whole after a whole line is seen by every answer
\* whose window has bytes before it, however the file grows during the call
\* and wherever the window cuts: a torn line costs at most the next one, and
\* the cut at most the first.
IntactLinesSeen ==
    Answered => \A i \in Intact, a \in Addresses :
                    Advertised(i, a) => list[a] # NoRow

\* A row is made of lines that were written whole: its time, signal and name
\* are all of the one device.  Unless the clock was set back between its
\* records they are the latest, and the name the last one that was sent.
RowsTrue ==
    Answered => \A a \in Addresses : list[a] # NoRow =>
        /\ \E i \in About(a) : /\ feed[i].age = list[a].age
                               /\ feed[i].packet.rssi = list[a].rssi
                               /\ \A j \in About(a) : list[a].age <= feed[j].age
        /\ list[a].name # NoName =>
              \E i \in Naming(a) : feed[i].packet.name = list[a].name
        /\ Monotone =>
              /\ \E i \in About(a) : /\ IsLast(i, About(a))
                                     /\ list[a].rssi = feed[i].packet.rssi
              /\ \A i \in Naming(a) : IsLast(i, Naming(a)) =>
                    list[a].name = feed[i].packet.name

\* What the list is made of, by its module's words: "It only pulls out what a
\* simple "nearby BLE devices" list needs [...] from ordinary advertising
\* PDUs" (reader.py:5-8).  No row comes from a data-channel PDU.
OnlyAdvertisers ==
    \A a \in Addresses : list[a] # NoRow =>
        \E p \in Packets : p.address = a /\ p.link = "advertising"
============================================================================

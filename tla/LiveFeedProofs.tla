--------------------------- MODULE LiveFeedProofs ---------------------------
(***************************************************************************)
(* For every set of packets, window, age limit and clock: types, and the   *)
(* list that a call returns is that of the intact lines in its window.     *)
(***************************************************************************)
EXTENDS LiveFeed, SequenceTheorems, TLAPS

---------------------------------------------------------------------------
(* How the halves of lines stand in the file.                              *)

\* A head that follows a head is glued to it, and only that.
GluedToHead ==
    \A i \in 2..Len(feed) :
        feed[i].part = "head" => (feed[i].glued <=> feed[i - 1].part = "head")

\* The last half is a head while its line is being written, or when it was
\* torn.
EndsOpen ==
    /\ writing => Len(feed) > 0 /\ Len(feed) < MaxFeed
    /\ Len(feed) > 0 => ((writing \/ torn) <=> feed[Len(feed)].part = "head")
    /\ Len(feed) = 0 => ~torn

\* A file that is all there begins with a line of its own.
BeginsWhole ==
    ~older /\ Len(feed) > 0 => feed[1].part = "head" /\ ~feed[1].glued

Between == (pc = "idle" => since = 0) /\ (pc # "loop" => at = 1)

FileInv == TypeOK /\ GluedToHead /\ EndsOpen /\ BeginsWhole /\ Between

---------------------------------------------------------------------------
(* What the loop has made of the lines before place n. *)

\* The lines about a before place n.
Seen(n, a) == {i \in Lines : i < n /\ Advertised(i, a)}

NamingIn(seen) == {i \in seen : feed[i].packet.name # NoName}

\* The row that the lines of a set make, whatever the order of their times.
RowFrom(row, seen) ==
    /\ row = NoRow <=> seen = {}
    /\ row # NoRow =>
          /\ \E i \in seen : /\ feed[i].age = row.age
                             /\ feed[i].packet.rssi = row.rssi
                             /\ \A j \in seen : row.age <= feed[j].age
          /\ row.name # NoName =>
                \E i \in NamingIn(seen) : feed[i].packet.name = row.name

\* The same when their times never go back.
LatestFrom(row, seen) ==
    Monotone /\ row # NoRow =>
        /\ \E i \in seen : IsLast(i, seen) /\ row.rssi = feed[i].packet.rssi
        /\ \A i \in NamingIn(seen) : IsLast(i, NamingIn(seen)) =>
              row.name = feed[i].packet.name

LoopInv ==
    pc = "loop" => \A a \in Addresses : /\ RowFrom(list[a], Seen(at, a))
                                        /\ LatestFrom(list[a], Seen(at, a))

FeedInv == FileInv /\ LoopInv

---------------------------------------------------------------------------
(* The file: each action keeps FileInv.                                    *)

LEMMA FileStart == Init => FileInv
<1> SUFFICES ASSUME Init PROVE FileInv
  OBVIOUS
<1>1. feed = <<>> /\ Len(feed) = 0 /\ feed \in Seq(Halves)
  BY DEF Init
<1>2. list \in [Addresses -> Rows \cup {NoRow}]
  BY DEF Init, NoList
<1>3. Len(feed) <= MaxFeed /\ at \in 1..(Len(feed) + 1) /\ since \in {0, 1}
  BY <1>1, FeedAssumption DEF Init
<1>4. older \in BOOLEAN /\ writing \in BOOLEAN /\ torn \in BOOLEAN /\ pc = "idle"
  BY DEF Init
<1>5. TypeOK
  BY <1>1, <1>2, <1>3, <1>4 DEF TypeOK
<1> QED BY <1>1, <1>5 DEF Init, FileInv, GluedToHead, EndsOpen, BeginsWhole, Between

LEMMA BeginStep ==
    ASSUME FileInv, NEW p \in Packets, BeginLine(p)
    PROVE  FileInv'
<1> DEFINE h == Half(p, "head")
<1>1. h \in Halves /\ h.part = "head" /\ h.glued = torn
  BY FeedAssumption DEF FileInv, TypeOK, Half, Halves
<1>2. feed' = Append(feed, h) /\ UNCHANGED <<older, torn, reader>> /\ writing' = TRUE
  BY DEF BeginLine
<1> HIDE DEF h
<1>3. feed \in Seq(Halves) /\ Len(feed) \in Nat /\ Len(feed) + 1 < MaxFeed
  BY DEF FileInv, TypeOK, BeginLine
<1>4. /\ feed' \in Seq(Halves) /\ Len(feed') = Len(feed) + 1
      /\ \A i \in 1..Len(feed) : feed'[i] = feed[i]
      /\ feed'[Len(feed) + 1] = h
  BY <1>1, <1>2, <1>3
<1>5. TypeOK'
  <2>1. Len(feed') <= MaxFeed /\ (\A x \in 1..(Len(feed) + 1) : x \in 1..(Len(feed') + 1))
    BY <1>3, <1>4, FeedAssumption
  <2>2. at' \in 1..(Len(feed') + 1)
    BY <1>2, <2>1 DEF FileInv, TypeOK, reader
  <2> QED BY <1>2, <1>4, <2>1, <2>2 DEF FileInv, TypeOK, reader
<1>6. GluedToHead'
  <2> SUFFICES ASSUME NEW i \in 2..Len(feed'), feed'[i].part = "head"
               PROVE  feed'[i].glued <=> feed'[i - 1].part = "head"
    BY DEF GluedToHead
  <2>1. CASE i \in 2..Len(feed)
    <3>1. feed'[i] = feed[i] /\ feed'[i - 1] = feed[i - 1]
      BY <1>3, <1>4, <2>1
    <3> QED BY <2>1, <3>1 DEF FileInv, GluedToHead
  <2>2. CASE i = Len(feed) + 1
    <3>1. i - 1 = Len(feed) /\ Len(feed) > 0
      BY <1>3, <2>2
    <3>2. feed'[i - 1] = feed[Len(feed)]
      BY <1>3, <1>4, <3>1
    <3>3. torn <=> feed[Len(feed)].part = "head"
      BY <3>1 DEF FileInv, EndsOpen, BeginLine
    <3> QED BY <1>1, <1>4, <2>2, <3>2, <3>3
  <2> QED BY <1>3, <1>4, <2>1, <2>2
<1>7. EndsOpen'
  BY <1>1, <1>2, <1>3, <1>4 DEF EndsOpen
<1>8. BeginsWhole'
  <2>1. CASE Len(feed) = 0
    BY <1>1, <1>4, <2>1 DEF FileInv, EndsOpen, BeginsWhole
  <2>2. CASE Len(feed) > 0
    <3>1. feed'[1] = feed[1]
      BY <1>3, <1>4, <2>2
    <3> QED BY <1>2, <2>2, <3>1 DEF FileInv, BeginsWhole
  <2> QED BY <1>3, <2>1, <2>2
<1>9. Between'
  BY <1>2 DEF FileInv, Between, reader
<1> QED BY <1>5, <1>6, <1>7, <1>8, <1>9 DEF FileInv

LEMMA EndStep ==
    ASSUME FileInv, EndLine
    PROVE  FileInv'
<1> DEFINE h == [feed[Len(feed)] EXCEPT !.part = "tail"]
<1>1. feed \in Seq(Halves) /\ Len(feed) \in Nat /\ Len(feed) > 0 /\ Len(feed) < MaxFeed
  BY DEF FileInv, TypeOK, EndLine, EndsOpen
<1>2. feed[Len(feed)] \in Halves
  BY <1>1
<1>3. h \in Halves /\ h.part = "tail"
  BY <1>2 DEF Halves
<1>4. feed' = Append(feed, h) /\ UNCHANGED <<older, reader>> /\ ~writing' /\ ~torn'
      /\ writing' = FALSE /\ torn' = FALSE
  BY DEF EndLine
<1> HIDE DEF h
<1>5. /\ feed' \in Seq(Halves) /\ Len(feed') = Len(feed) + 1
      /\ \A i \in 1..Len(feed) : feed'[i] = feed[i]
      /\ feed'[Len(feed) + 1] = h
  BY <1>1, <1>3, <1>4
<1>6. TypeOK'
  <2>1. Len(feed') <= MaxFeed /\ (\A x \in 1..(Len(feed) + 1) : x \in 1..(Len(feed') + 1))
    BY <1>1, <1>5, FeedAssumption
  <2>2. at' \in 1..(Len(feed') + 1)
    BY <1>4, <2>1 DEF FileInv, TypeOK, reader
  <2> QED BY <1>4, <1>5, <2>1, <2>2 DEF FileInv, TypeOK, reader
<1>7. GluedToHead'
  <2> SUFFICES ASSUME NEW i \in 2..Len(feed'), feed'[i].part = "head"
               PROVE  feed'[i].glued <=> feed'[i - 1].part = "head"
    BY DEF GluedToHead
  <2>1. i \in 2..Len(feed)
    BY <1>1, <1>3, <1>5
  <2>2. feed'[i] = feed[i] /\ feed'[i - 1] = feed[i - 1]
    BY <1>1, <1>5, <2>1
  <2> QED BY <2>1, <2>2 DEF FileInv, GluedToHead
<1>8. EndsOpen'
  BY <1>1, <1>3, <1>4, <1>5 DEF EndsOpen
<1>9. BeginsWhole'
  <2>1. feed'[1] = feed[1]
    BY <1>1, <1>5
  <2> QED BY <1>1, <1>4, <2>1 DEF FileInv, BeginsWhole
<1>10. Between'
  BY <1>4 DEF FileInv, Between, reader
<1> QED BY <1>6, <1>7, <1>8, <1>9, <1>10 DEF FileInv

LEMMA ShortWriteStep ==
    ASSUME FileInv, ShortWrite
    PROVE  FileInv'
<1>1. UNCHANGED <<feed, older, reader>> /\ writing /\ writing' = FALSE /\ torn' = TRUE
  BY DEF ShortWrite
<1>2. TypeOK'
  BY <1>1 DEF FileInv, TypeOK, reader
<1> QED BY <1>1, <1>2
       DEF FileInv, GluedToHead, EndsOpen, BeginsWhole, Between, reader

\* The clock moves the ages and nothing else.
LEMMA ClockStep ==
    ASSUME FileInv,
           feed' \in Seq(Halves),
           Len(feed') = Len(feed),
           \A i \in 1..Len(feed) : /\ feed'[i].part = feed[i].part
                                   /\ feed'[i].glued = feed[i].glued,
           UNCHANGED <<older, writing, torn, pc, at, list>>,
           since' \in {0, 1},
           pc = "idle" => since' = since
    PROVE  FileInv'
<1>1. feed \in Seq(Halves) /\ Len(feed) \in Nat
  BY DEF FileInv, TypeOK
<1>2. TypeOK'
  BY DEF FileInv, TypeOK
<1>3. GluedToHead'
  <2> SUFFICES ASSUME NEW i \in 2..Len(feed), feed'[i].part = "head"
               PROVE  feed'[i].glued <=> feed'[i - 1].part = "head"
    BY DEF GluedToHead
  <2>1. i \in 1..Len(feed) /\ i - 1 \in 1..Len(feed)
    BY <1>1
  <2> QED BY <2>1 DEF FileInv, GluedToHead
<1>4. EndsOpen'
  <2>1. Len(feed) > 0 => Len(feed) \in 1..Len(feed)
    BY <1>1
  <2> QED BY <2>1 DEF FileInv, EndsOpen
<1>5. BeginsWhole'
  <2>1. Len(feed) > 0 => 1 \in 1..Len(feed)
    BY <1>1
  <2> QED BY <2>1 DEF FileInv, BeginsWhole
<1>6. Between'
  BY DEF FileInv, Between
<1> QED BY <1>2, <1>3, <1>4, <1>5, <1>6 DEF FileInv

LEMMA TickStep ==
    ASSUME FileInv, Tick
    PROVE  FileInv'
<1>1. feed \in Seq(Halves) /\ Len(feed) \in Nat /\ DOMAIN feed = 1..Len(feed)
  BY DEF FileInv, TypeOK
<1>2. feed' = [i \in 1..Len(feed) |-> [feed[i] EXCEPT !.age = Aged(feed[i].age)]]
  BY <1>1 DEF Tick
<1>3. ASSUME NEW i \in 1..Len(feed)
      PROVE  /\ feed'[i] \in Halves
             /\ feed'[i].part = feed[i].part /\ feed'[i].glued = feed[i].glued
  <2>1. feed[i] \in Halves
    BY <1>1
  <2>2. Aged(feed[i].age) \in -MaxStep..(MaxAge + 2)
    BY <2>1, FeedAssumption DEF Halves, Aged
  <2>3. feed'[i] = [feed[i] EXCEPT !.age = Aged(feed[i].age)]
    BY <1>2
  <2> QED BY <2>1, <2>2, <2>3 DEF Halves
<1>4. feed' \in Seq(Halves) /\ Len(feed') = Len(feed)
  <2>1. feed' = [i \in 1..Len(feed) |-> feed'[i]]
    BY <1>2
  <2> QED BY <1>1, <1>3, <2>1, SeqDef, LenProperties
<1>5. /\ UNCHANGED <<older, writing, torn, pc, at, list>>
      /\ since' \in {0, 1}
      /\ pc = "idle" => since' = since
  BY DEF Tick, FileInv, TypeOK
<1> QED BY <1>3, <1>4, <1>5, ClockStep

LEMMA SetBackStep ==
    ASSUME FileInv, NEW d \in 1..MaxStep, SetBack(d)
    PROVE  FileInv'
<1>1. feed \in Seq(Halves) /\ Len(feed) \in Nat /\ DOMAIN feed = 1..Len(feed)
  BY DEF FileInv, TypeOK
<1>2. feed' = [i \in 1..Len(feed) |-> [feed[i] EXCEPT !.age = feed[i].age - d]]
  BY <1>1 DEF SetBack
<1>3. ASSUME NEW i \in 1..Len(feed)
      PROVE  /\ feed'[i] \in Halves
             /\ feed'[i].part = feed[i].part /\ feed'[i].glued = feed[i].glued
  <2>1. feed[i] \in Halves
    BY <1>1
  <2>2. feed[i].age - d \in -MaxStep..(MaxAge + 2)
    BY <1>1, <2>1, FeedAssumption DEF Halves, SetBack
  <2>3. feed'[i] = [feed[i] EXCEPT !.age = feed[i].age - d]
    BY <1>2
  <2> QED BY <2>1, <2>2, <2>3 DEF Halves
<1>4. feed' \in Seq(Halves) /\ Len(feed') = Len(feed)
  <2>1. feed' = [i \in 1..Len(feed) |-> feed'[i]]
    BY <1>2
  <2> QED BY <1>1, <1>3, <2>1, SeqDef, LenProperties
<1>5. /\ UNCHANGED <<older, writing, torn, pc, at, list>>
      /\ since' \in {0, 1}
      /\ pc = "idle" => since' = since
  BY DEF SetBack, FileInv, TypeOK, reader
<1> QED BY <1>3, <1>4, <1>5, ClockStep

LEMMA RequestStep ==
    ASSUME FileInv, Request
    PROVE  FileInv'
<1>1. UNCHANGED <<file, at, list>> /\ pc = "idle" /\ pc' = "asked" /\ since' = 0
  BY DEF Request
<1>2. TypeOK'
  BY <1>1 DEF FileInv, TypeOK, file
<1> QED BY <1>1, <1>2
       DEF FileInv, GluedToHead, EndsOpen, BeginsWhole, Between, file

\* The window's halves keep their neighbours.
LEMMA SizeStep ==
    ASSUME FileInv, GetSize
    PROVE  FileInv'
<1>1. /\ feed \in Seq(Halves) /\ Len(feed) \in Nat
      /\ \A i \in 1..Len(feed) : feed[i] \in Halves
      /\ Len(feed) <= MaxFeed
  BY DEF FileInv, TypeOK
<1>2. /\ feed' = SubSeq(feed, Start + 1, Len(feed))
      /\ older' = (older \/ Start > 0) /\ pc' = "sized"
      /\ UNCHANGED <<writing, torn, since, at, list>>
  BY DEF GetSize
<1>3. Start \in Nat /\ Start <= Len(feed) /\ (Len(feed) > 0 => Start < Len(feed))
  BY <1>1, FeedAssumption DEF Start
<1> HIDE DEF Start
<1>4. /\ feed' \in Seq(Halves) /\ Len(feed') = Len(feed) - Start
      /\ \A i \in 1..(Len(feed) - Start) : feed'[i] = feed[i + Start]
  <2>1. \A i \in (Start + 1)..Len(feed) : feed[i] \in Halves
    BY <1>1, <1>3
  <2>2. /\ feed' \in Seq(Halves)
        /\ Len(feed') = IF Start + 1 <= Len(feed) THEN Len(feed) - (Start + 1) + 1 ELSE 0
        /\ \A i \in 1..(Len(feed) - (Start + 1) + 1) : feed'[i] = feed[(Start + 1) + i - 1]
    BY <1>1, <1>2, <1>3, <2>1, SubSeqProperties
  <2>3. Len(feed') = Len(feed) - Start
    BY <1>1, <1>3, <2>2
  <2>4. ASSUME NEW i \in 1..(Len(feed) - Start)
        PROVE  feed'[i] = feed[i + Start]
    <3>1. i \in 1..(Len(feed) - (Start + 1) + 1) /\ (Start + 1) + i - 1 = i + Start
      BY <1>1, <1>3
    <3> QED BY <2>2, <3>1
  <2> QED BY <2>2, <2>3, <2>4
<1>5. TypeOK'
  <2>1. Len(feed') <= MaxFeed /\ 1 \in 1..(Len(feed') + 1)
    BY <1>1, <1>3, <1>4, FeedAssumption
  <2>2. older' \in BOOLEAN
    BY <1>2
  <2>3. at = 1 /\ pc = "asked"
    BY DEF GetSize, FileInv, Between
  <2> QED BY <1>2, <1>4, <2>1, <2>2, <2>3 DEF FileInv, TypeOK
<1>6. GluedToHead'
  <2> SUFFICES ASSUME NEW i \in 2..Len(feed'), feed'[i].part = "head"
               PROVE  feed'[i].glued <=> feed'[i - 1].part = "head"
    BY DEF GluedToHead
  <2>1. /\ i \in 1..(Len(feed) - Start) /\ i - 1 \in 1..(Len(feed) - Start)
        /\ i + Start \in 2..Len(feed) /\ (i - 1) + Start = (i + Start) - 1
    BY <1>1, <1>3, <1>4
  <2>2. feed'[i] = feed[i + Start] /\ feed'[i - 1] = feed[(i + Start) - 1]
    BY <1>4, <2>1
  <2> QED BY <2>1, <2>2 DEF FileInv, GluedToHead
<1>7. EndsOpen'
  <2>1. CASE Len(feed) = 0
    BY <1>1, <1>2, <1>3, <1>4, <2>1 DEF FileInv, EndsOpen
  <2>2. CASE Len(feed) > 0
    <3>1. /\ Len(feed') > 0 /\ Len(feed') <= Len(feed)
          /\ Len(feed') + Start = Len(feed)
          /\ Len(feed') \in 1..(Len(feed) - Start)
      BY <1>1, <1>3, <1>4, <2>2
    <3>2. feed'[Len(feed')] = feed[Len(feed)]
      BY <1>4, <3>1
    <3>3. writing' => Len(feed') < MaxFeed
      BY <1>1, <1>2, <1>4, <2>2, <3>1, FeedAssumption DEF FileInv, EndsOpen
    <3>4. (writing' \/ torn') <=> feed'[Len(feed')].part = "head"
      BY <1>2, <2>2, <3>2 DEF FileInv, EndsOpen
    <3>5. Len(feed') # 0
      BY <3>1
    <3> QED BY <3>1, <3>3, <3>4, <3>5 DEF EndsOpen
  <2> QED BY <1>1, <2>1, <2>2
<1>8. BeginsWhole'
  <2> SUFFICES ASSUME ~older', Len(feed') > 0
               PROVE  feed'[1].part = "head" /\ ~feed'[1].glued
    BY DEF BeginsWhole
  <2>0. older \in BOOLEAN
    BY DEF FileInv, TypeOK
  <2>1. ~older /\ ~(Start > 0)
    BY <1>2, <2>0
  <2>2. Start = 0 /\ Len(feed) > 0
    BY <1>1, <1>3, <1>4, <2>1
  <2>3. feed'[1] = feed[1]
    BY <1>1, <1>4, <2>2
  <2> QED BY <2>1, <2>2, <2>3 DEF FileInv, BeginsWhole
<1>9. Between'
  BY <1>2 DEF FileInv, Between, GetSize
<1> QED BY <1>5, <1>6, <1>7, <1>8, <1>9 DEF FileInv

\* ReadTail and Return leave the file alone.
LEMMA EmptyListStep ==
    ASSUME FileInv, UNCHANGED file, at' = 1, list' = NoList,
           pc' \in {"idle", "loop"}, since' \in {0, 1},
           pc' = "idle" => since' = 0
    PROVE  FileInv'
<1>1. list' \in [Addresses -> Rows \cup {NoRow}]
  BY DEF NoList
<1>2. at' \in 1..(Len(feed') + 1)
  BY DEF FileInv, TypeOK, file
<1>3. TypeOK'
  BY <1>1, <1>2 DEF FileInv, TypeOK, file
<1> QED BY <1>3 DEF FileInv, GluedToHead, EndsOpen, BeginsWhole, Between, file

---------------------------------------------------------------------------
(* The lines that the loop finds are the intact ones.                      *)

LEMMA LinesAreIntact == FileInv => Lines = Intact
<1> SUFFICES ASSUME FileInv PROVE Lines = Intact
  OBVIOUS
<1>1. Len(feed) \in Nat /\ \A i \in 1..Len(feed) : feed[i] \in Halves
  BY DEF FileInv, TypeOK
<1>2. ASSUME NEW i \in 1..(Len(feed) - 1), feed[i].part = "head"
      PROVE  LineStarts(i) <=> ~feed[i].glued /\ (i = 1 => ~older)
  <2>1. CASE i = 1
    BY <1>1, <2>1 DEF LineStarts, FileInv, BeginsWhole
  <2>2. CASE i # 1
    <3>1. i \in 2..Len(feed) /\ i - 1 \in 1..Len(feed)
      BY <1>1, <2>2
    <3>2. feed[i].glued <=> feed[i - 1].part = "head"
      BY <1>2, <3>1 DEF FileInv, GluedToHead
    <3>3. feed[i - 1].part \in {"head", "tail"}
      BY <1>1, <3>1 DEF Halves
    <3>4. LineStarts(i) <=> feed[i - 1].part = "tail"
      BY <2>2 DEF LineStarts
    <3> QED BY <2>2, <3>2, <3>3, <3>4
  <2> QED BY <2>1, <2>2
<1> QED BY <1>2 DEF Lines, Intact

LEMMA AtAnswer ==
    ASSUME FileInv, Answered, NEW a \in Addresses
    PROVE  Seen(at, a) = About(a)
<1>1. Lines = Intact
  BY LinesAreIntact
<1>2. \A i \in Lines : i < at
  BY DEF Answered
<1> QED BY <1>1, <1>2 DEF Seen, About

---------------------------------------------------------------------------
(* One line more.                                                          *)

\* A merged row is not NoRow: what passed the age test is younger.
LEMMA MergedIsRow ==
    ASSUME NEW name, NEW rssi, NEW age \in Int, age <= MaxAge + 1
    PROVE  [name |-> name, rssi |-> rssi, age |-> age] # NoRow
<1>1. age # MaxAge + 3
  BY FeedAssumption
<1>2. [name |-> name, rssi |-> rssi, age |-> age].age # NoRow.age
  BY <1>1 DEF NoRow
<1> QED BY <1>2

\* Merge of the line at i, from the rows of the lines before it.
LEMMA MergeRow ==
    ASSUME FileInv, LoopInv, NEW i \in 1..Len(feed), Turn(i),
           NEW a \in Addresses
    PROVE  LET h == feed[i]
               row == list[a]
               new == [name |-> ShownName(h.packet, row),
                       rssi |-> h.packet.rssi, age |-> h.age]
           IN  /\ Advertised(i, a) /\ h.age <= row.age => list'[a] = new
               /\ ~(Advertised(i, a) /\ h.age <= row.age) => list'[a] = row
<1> DEFINE h == feed[i]
           r == list[h.packet.address]
<1>1. feed[i] \in Halves /\ list \in [Addresses -> Rows \cup {NoRow}]
  BY DEF FileInv, TypeOK
<1>2. h.packet \in Packets /\ h.packet.address \in Addresses
  BY <1>1 DEF Halves, Addresses
<1>3. list' = Merge(list, h)
  BY DEF Turn
<1>4. HasAddress(h.packet) <=> h.packet.type \in {0, 2, 4, 6}
  BY DEF HasAddress, _ADV_TYPES_WITH_AD_DATA
<1> DEFINE merged == HasAddress(h.packet) /\ h.age - since <= MaxAge /\ h.age <= r.age
<1>5. list' = IF merged
              THEN [list EXCEPT ![h.packet.address] =
                      [name |-> ShownName(h.packet, r), rssi |-> h.packet.rssi,
                       age |-> h.age]]
              ELSE list
  BY <1>3 DEF Merge, NoOlder
<1>6. CASE h.packet.address = a
  <2>1. Advertised(i, a) <=> HasAddress(h.packet) /\ h.age - since <= MaxAge
    BY <1>4, <1>6 DEF Advertised
  <2>2. r = list[a]
    BY <1>6
  <2> QED BY <1>1, <1>2, <1>5, <1>6, <2>1, <2>2
<1>7. CASE h.packet.address # a
  <2>1. ~Advertised(i, a)
    BY <1>7 DEF Advertised
  <2>2. list'[a] = list[a]
    BY <1>1, <1>2, <1>5, <1>7
  <2> QED BY <2>1, <2>2
<1> QED BY <1>6, <1>7

\* No line lies between the place of the loop and the next line.
LEMMA SeenGrows ==
    ASSUME FileInv, NEW i \in 1..Len(feed), Turn(i), NEW a \in Addresses
    PROVE  /\ Seen(at, a)' = Seen(at, a) \cup (IF Advertised(i, a) THEN {i} ELSE {})
           /\ Seen(at, a) \subseteq {j \in 1..Len(feed) : j < i}
<1>1. /\ i \in Lines /\ i >= at /\ at' = i + 1
      /\ \A j \in Lines : j >= at => i <= j
      /\ feed' = feed /\ older' = older /\ since' = since
  BY DEF Turn, file
<1>2. Len(feed) \in Nat /\ at \in Nat /\ Lines \subseteq 1..Len(feed)
  BY DEF FileInv, TypeOK, Lines
<1>3. Lines' = Lines
  BY <1>1 DEF Lines, LineStarts
<1>4. \A j \in Lines : Advertised(j, a)' <=> Advertised(j, a)
  BY <1>1 DEF Advertised
<1>5. Seen(at, a)' = {j \in Lines : j < i + 1 /\ Advertised(j, a)}
  BY <1>1, <1>3, <1>4 DEF Seen
<1>6. \A j \in Lines : j < i + 1 <=> (j < at \/ j = i)
  BY <1>1, <1>2
<1>7. \A j \in Lines : j < at => j < i
  BY <1>1, <1>2
<1> QED BY <1>1, <1>2, <1>5, <1>6, <1>7 DEF Seen

\* What a set of lines and one line after them make.
LEMMA RowGrows ==
    ASSUME FileInv, NEW i \in 1..Len(feed), NEW row \in Rows \cup {NoRow},
           NEW seen, seen \subseteq {j \in 1..Len(feed) : j < i},
           RowFrom(row, seen), feed[i].age - since <= MaxAge
    PROVE  LET new == [name |-> ShownName(feed[i].packet, row),
                       rssi |-> feed[i].packet.rssi, age |-> feed[i].age]
           IN  /\ feed[i].age <= row.age => RowFrom(new, seen \cup {i})
               /\ ~(feed[i].age <= row.age) => RowFrom(row, seen \cup {i})
<1> DEFINE new == [name |-> ShownName(feed[i].packet, row),
                   rssi |-> feed[i].packet.rssi, age |-> feed[i].age]
           more == seen \cup {i}
<1>1. /\ feed[i] \in Halves /\ since \in {0, 1}
      /\ \A j \in 1..Len(feed) : feed[j] \in Halves
      /\ Len(feed) \in Nat
  BY DEF FileInv, TypeOK
<1>2. \A j \in 1..Len(feed) : feed[j].age \in Int
  BY <1>1, FeedAssumption DEF Halves
<1>3. feed[i].age <= MaxAge + 1
  BY <1>1, <1>2, FeedAssumption
<1>4. row.age \in Int /\ NoRow.age = MaxAge + 3
  BY FeedAssumption DEF Rows, NoRow
<1>5. seen \subseteq 1..Len(feed)
  OBVIOUS
<1>6. ASSUME feed[i].age <= row.age
      PROVE  RowFrom(new, more)
  <2>1. new # NoRow
    BY <1>2, <1>3, MergedIsRow
  <2>2. new.age = feed[i].age /\ new.rssi = feed[i].packet.rssi
        /\ new.name = ShownName(feed[i].packet, row)
    OBVIOUS
  <2> HIDE DEF new
  <2>3. \A j \in seen : row.age <= feed[j].age
    BY DEF RowFrom
  <2>4. \A j \in more : new.age <= feed[j].age
    BY <1>2, <1>4, <1>5, <1>6, <2>2, <2>3
  <2>5. ASSUME new.name # NoName
        PROVE  \E j \in NamingIn(more) : feed[j].packet.name = new.name
    <3>1. CASE feed[i].packet.name # NoName
      BY <2>2, <3>1 DEF ShownName, NamingIn
    <3>2. CASE feed[i].packet.name = NoName
      <4>1. row.name = new.name
        BY <2>2, <3>2 DEF ShownName
      <4>2. row # NoRow
        BY <2>5, <4>1 DEF NoRow
      <4> QED BY <2>5, <4>1, <4>2 DEF RowFrom, NamingIn
    <3> QED BY <3>1, <3>2
  <2> QED BY <2>1, <2>2, <2>4, <2>5 DEF RowFrom
<1>7. ASSUME ~(feed[i].age <= row.age)
      PROVE  RowFrom(row, more)
  <2>1. row # NoRow
    BY <1>2, <1>3, <1>4, <1>7, FeedAssumption
  <2>2. row.age <= feed[i].age
    BY <1>2, <1>4, <1>7
  <2>3. \E k \in seen : /\ feed[k].age = row.age
                        /\ feed[k].packet.rssi = row.rssi
                        /\ \A j \in seen : row.age <= feed[j].age
    BY <2>1 DEF RowFrom
  <2>4. row.name # NoName => \E k \in NamingIn(more) : feed[k].packet.name = row.name
    BY <2>1 DEF RowFrom, NamingIn
  <2> QED BY <2>1, <2>2, <2>3, <2>4 DEF RowFrom
<1> QED BY <1>6, <1>7

LEMMA LatestGrows ==
    ASSUME FileInv, NEW i \in 1..Len(feed), NEW row \in Rows \cup {NoRow},
           NEW seen, seen \subseteq {j \in 1..Len(feed) : j < i},
           RowFrom(row, seen), LatestFrom(row, seen), feed[i].age - since <= MaxAge,
           Monotone
    PROVE  LET new == [name |-> ShownName(feed[i].packet, row),
                       rssi |-> feed[i].packet.rssi, age |-> feed[i].age]
           IN  feed[i].age <= row.age /\ LatestFrom(new, seen \cup {i})
<1> DEFINE new == [name |-> ShownName(feed[i].packet, row),
                   rssi |-> feed[i].packet.rssi, age |-> feed[i].age]
           more == seen \cup {i}
<1>1. /\ since \in {0, 1} /\ Len(feed) \in Nat /\ DOMAIN feed = 1..Len(feed)
      /\ \A j \in 1..Len(feed) : feed[j] \in Halves
  BY DEF FileInv, TypeOK
<1>2. \A j \in 1..Len(feed) : feed[j].age \in Int
  BY <1>1, FeedAssumption DEF Halves
<1>3. feed[i].age <= row.age
  <2>1. CASE row = NoRow
    BY <1>1, <1>2, <2>1, FeedAssumption DEF NoRow
  <2>2. CASE row # NoRow
    <3>1. PICK k \in seen : feed[k].age = row.age
      BY <2>2 DEF RowFrom
    <3>2. k \in DOMAIN feed /\ i \in DOMAIN feed /\ k < i
      BY <1>1
    <3>3. feed[k].age >= feed[i].age
      BY <3>2 DEF Monotone
    <3> QED BY <1>1, <1>2, <3>1, <3>2, <3>3
  <2> QED BY <2>1, <2>2
<1>4. IsLast(i, more)
  BY <1>1 DEF IsLast
<1>5. new.rssi = feed[i].packet.rssi /\ new.name = ShownName(feed[i].packet, row)
  OBVIOUS
<1> HIDE DEF new
<1>6. ASSUME NEW k \in NamingIn(more), IsLast(k, NamingIn(more))
      PROVE  new.name = feed[k].packet.name
  <2>1. CASE feed[i].packet.name # NoName
    <3>1. i \in NamingIn(more) /\ k \in 1..Len(feed) /\ (k = i \/ k < i)
      BY <2>1 DEF NamingIn
    <3>2. i <= k
      BY <1>6, <3>1 DEF IsLast
    <3>3. k = i
      BY <1>1, <3>1, <3>2
    <3> QED BY <1>5, <2>1, <3>3 DEF ShownName
  <2>2. CASE feed[i].packet.name = NoName
    <3>1. NamingIn(more) = NamingIn(seen)
      BY <2>2 DEF NamingIn
    <3>2. row # NoRow
      BY <1>6, <3>1 DEF NamingIn, RowFrom
    <3>3. row.name = feed[k].packet.name
      BY <1>6, <3>1, <3>2 DEF LatestFrom
    <3> QED BY <1>5, <2>2, <3>3 DEF ShownName
  <2> QED BY <2>1, <2>2
<1>7. LatestFrom(new, more)
  BY <1>4, <1>5, <1>6 DEF LatestFrom
<1> QED BY <1>3, <1>7 DEF new

LEMMA TurnStep ==
    ASSUME FeedInv, NEW i \in 1..Len(feed), Turn(i)
    PROVE  FeedInv'
<1> USE DEF FeedInv
<1>1. /\ UNCHANGED file /\ feed' = feed /\ UNCHANGED <<pc, since>>
      /\ pc = "loop" /\ at' = i + 1 /\ i \in Lines
      /\ list' = Merge(list, feed[i])
  BY DEF Turn, file
<1>2. /\ list \in [Addresses -> Rows \cup {NoRow}] /\ Len(feed) \in Nat
      /\ feed[i] \in Halves /\ since \in {0, 1}
  BY DEF FileInv, TypeOK
<1>3. ASSUME NEW a \in Addresses
      PROVE  /\ list'[a] \in Rows \cup {NoRow}
             /\ RowFrom(list'[a], Seen(at, a)')
             /\ LatestFrom(list'[a], Seen(at, a)')
  <2> DEFINE row == list[a]
             seen == Seen(at, a)
             new == [name |-> ShownName(feed[i].packet, row),
                     rssi |-> feed[i].packet.rssi, age |-> feed[i].age]
  <2>1. row \in Rows \cup {NoRow} /\ RowFrom(row, seen) /\ LatestFrom(row, seen)
    BY <1>1, <1>2 DEF LoopInv
  <2>2. /\ Advertised(i, a) /\ feed[i].age <= row.age => list'[a] = new
        /\ ~(Advertised(i, a) /\ feed[i].age <= row.age) => list'[a] = row
    BY MergeRow
  <2>3. /\ Seen(at, a)' = seen \cup (IF Advertised(i, a) THEN {i} ELSE {})
        /\ seen \subseteq {j \in 1..Len(feed) : j < i}
    BY SeenGrows
  <2>4. CASE ~Advertised(i, a)
    <3>1. Seen(at, a)' = seen /\ list'[a] = row
      BY <2>2, <2>3, <2>4
    <3> QED BY <2>1, <3>1
  <2>5. CASE Advertised(i, a)
    <3>1. Seen(at, a)' = seen \cup {i} /\ feed[i].age - since <= MaxAge
      BY <2>3, <2>5 DEF Advertised
    <3>2. /\ feed[i].age <= row.age => RowFrom(new, seen \cup {i})
          /\ ~(feed[i].age <= row.age) => RowFrom(row, seen \cup {i})
      BY <2>1, <2>3, <3>1, RowGrows
    <3>3. Monotone => feed[i].age <= row.age /\ LatestFrom(new, seen \cup {i})
      BY <2>1, <2>3, <3>1, LatestGrows
    <3>4. new \in Rows
      <4>1. /\ feed[i].packet \in Packets
            /\ feed[i].age \in -MaxStep..(MaxAge + 2)
        BY <1>2 DEF Halves
      <4>2. ShownName(feed[i].packet, row) \in {p.name : p \in Packets}
        BY <2>1, <4>1 DEF ShownName, Rows, NoRow
      <4> QED BY <4>1, <4>2 DEF Rows
    <3> HIDE DEF row, seen, new
    <3>5. CASE feed[i].age <= row.age
      <4>1. list'[a] = new
        BY <2>2, <2>5, <3>5
      <4>2. LatestFrom(new, seen \cup {i})
        BY <3>3 DEF LatestFrom
      <4> QED BY <3>1, <3>2, <3>4, <3>5, <4>1, <4>2
    <3>6. CASE ~(feed[i].age <= row.age)
      <4>1. list'[a] = row
        BY <2>2, <2>5, <3>6
      <4>2. LatestFrom(row, seen \cup {i})
        BY <3>3, <3>6 DEF LatestFrom
      <4> QED BY <2>1, <3>1, <3>2, <3>6, <4>1, <4>2
    <3> QED BY <3>5, <3>6
  <2> QED BY <2>4, <2>5
<1>4. list' \in [Addresses -> Rows \cup {NoRow}]
  <2>1. \/ list' = list
        \/ \E k, v : list' = [list EXCEPT ![k] = v]
    BY <1>1, Zenon DEF Merge
  <2>2. list' = [a \in Addresses |-> list'[a]]
    BY <1>2, <2>1
  <2> QED BY <1>3, <2>2
<1>5. at' \in 1..(Len(feed') + 1)
  BY <1>1, <1>2
<1>6. TypeOK'
  BY <1>1, <1>4, <1>5 DEF FileInv, TypeOK, file
<1>7. FileInv'
  BY <1>1, <1>6 DEF FileInv, GluedToHead, EndsOpen, BeginsWhole, Between, file
<1>8. LoopInv'
  <2> QED BY <1>1, <1>3 DEF LoopInv, RowFrom, LatestFrom, NamingIn, Monotone
<1> QED BY <1>7, <1>8

---------------------------------------------------------------------------
(* The theorems.                                                           *)

\* Before its first turn the loop has seen no line and has no row.
LEMMA LoopBegins ==
    ASSUME FeedInv, ReadTail
    PROVE  LoopInv'
<1>1. UNCHANGED file /\ at' = 1 /\ list' = NoList
  BY DEF ReadTail
<1>2. Len(feed) \in Nat
  BY DEF FeedInv, FileInv, TypeOK
<1>3. ASSUME NEW a \in Addresses
      PROVE  Seen(at, a)' = {} /\ list'[a] = NoRow
  <2>1. Seen(at, a)' = {i \in Lines' : i < 1 /\ Advertised(i, a)'}
    BY <1>1 DEF Seen
  <2>2. Lines' \subseteq 1..(Len(feed) - 1)
    BY <1>1 DEF Lines, file
  <2>3. \A i \in 1..(Len(feed) - 1) : ~(i < 1)
    BY <1>2
  <2>4. Seen(at, a)' = {}
    BY <2>1, <2>2, <2>3
  <2> QED BY <1>1, <2>4 DEF NoList
<1> QED BY <1>3 DEF LoopInv, RowFrom, LatestFrom

LEMMA FeedStart == Init => FeedInv
<1>1. Init => pc # "loop"
  BY DEF Init
<1> QED BY <1>1, FileStart DEF FeedInv, LoopInv

LEMMA FeedStep == FeedInv /\ [Next]_vars => FeedInv'
<1> SUFFICES ASSUME FeedInv, [Next]_vars PROVE FeedInv'
  OBVIOUS
<1>1. FileInv
  BY DEF FeedInv
<1>2. ASSUME NEW p \in Packets, BeginLine(p) PROVE FeedInv'
  <2>1. pc' # "loop"
    BY <1>2 DEF BeginLine, reader
  <2> QED BY <1>1, <1>2, <2>1, BeginStep DEF FeedInv, LoopInv
<1>3. CASE EndLine
  <2>1. pc' # "loop"
    BY <1>3 DEF EndLine, reader
  <2> QED BY <1>1, <1>3, <2>1, EndStep DEF FeedInv, LoopInv
<1>4. CASE ShortWrite
  <2>1. pc' # "loop"
    BY <1>4 DEF ShortWrite, reader
  <2> QED BY <1>1, <1>4, <2>1, ShortWriteStep DEF FeedInv, LoopInv
<1>5. CASE Tick
  <2>1. pc' # "loop"
    BY <1>5 DEF Tick
  <2> QED BY <1>1, <1>5, <2>1, TickStep DEF FeedInv, LoopInv
<1>6. ASSUME NEW d \in 1..MaxStep, SetBack(d) PROVE FeedInv'
  <2>1. pc' # "loop"
    BY <1>6 DEF SetBack, reader
  <2> QED BY <1>1, <1>6, <2>1, SetBackStep DEF FeedInv, LoopInv
<1>7. CASE Request
  <2>1. pc' # "loop"
    BY <1>7 DEF Request
  <2> QED BY <1>1, <1>7, <2>1, RequestStep DEF FeedInv, LoopInv
<1>8. CASE GetSize
  <2>1. pc' # "loop"
    BY <1>8 DEF GetSize
  <2> QED BY <1>1, <1>8, <2>1, SizeStep DEF FeedInv, LoopInv
<1>9. CASE ReadTail
  <2>1. /\ UNCHANGED file /\ at' = 1 /\ list' = NoList
        /\ pc' = "loop" /\ since' = since
    BY <1>9 DEF ReadTail
  <2>2. since' \in {0, 1}
    BY <1>1, <2>1 DEF FileInv, TypeOK
  <2>3. FileInv'
    BY <1>1, <2>1, <2>2, EmptyListStep
  <2> QED BY <1>9, <2>3, LoopBegins DEF FeedInv
<1>10. ASSUME NEW i \in 1..Len(feed), Turn(i) PROVE FeedInv'
  BY <1>10, TurnStep
<1>11. CASE Return
  <2>1. /\ UNCHANGED file /\ at' = 1 /\ list' = NoList
        /\ pc' = "idle" /\ since' = 0
    BY <1>11 DEF Return
  <2>2. FileInv'
    BY <1>1, <2>1, EmptyListStep
  <2> QED BY <2>1, <2>2 DEF FeedInv, LoopInv
<1>12. CASE UNCHANGED vars
  <2>1. UNCHANGED <<feed, older, writing, torn, pc, since, at, list>>
    BY <1>12 DEF vars, file, reader
  <2>2. TypeOK' <=> TypeOK
    BY <2>1 DEF TypeOK
  <2>3. FileInv'
    BY <1>1, <2>1, <2>2 DEF FileInv, GluedToHead, EndsOpen, BeginsWhole, Between
  <2>4. \A a \in Addresses : Seen(at, a)' = Seen(at, a)
    BY <2>1 DEF Seen, Lines, LineStarts, Advertised
  <2>5. LoopInv'
    BY <2>1, <2>4 DEF FeedInv, LoopInv, RowFrom, LatestFrom, NamingIn, Monotone
  <2> QED BY <2>3, <2>5 DEF FeedInv
<1> QED BY <1>2, <1>3, <1>4, <1>5, <1>6, <1>7, <1>8, <1>9, <1>10, <1>11, <1>12 DEF Next

THEOREM FeedCorrect == Spec => []FeedInv
<1> QED BY FeedStart, FeedStep, PTL DEF Spec

\* The file, the reader and its list keep their types.
THEOREM FeedTypes == Spec => []TypeOK
<1>1. FeedInv => TypeOK
  BY DEF FeedInv, FileInv
<1> QED BY <1>1, FeedCorrect, PTL

\* A line that was written whole after a whole line is in every answer whose
\* window holds it, wherever writes, torn lines, the clock and the window's
\* edge fall.
THEOREM LinesSeen == Spec => []IntactLinesSeen
<1>1. FeedInv => IntactLinesSeen
  <2> SUFFICES ASSUME FeedInv, Answered, NEW i \in Intact, NEW a \in Addresses,
                      Advertised(i, a)
               PROVE  list[a] # NoRow
    BY DEF IntactLinesSeen
  <2>1. i \in Seen(at, a)
    BY AtAnswer DEF FeedInv, About
  <2>2. RowFrom(list[a], Seen(at, a))
    BY DEF FeedInv, LoopInv, Answered
  <2> QED BY <2>1, <2>2 DEF RowFrom
<1> QED BY <1>1, FeedCorrect, PTL

\* Every row that is returned is made of intact lines about its own device,
\* and of the latest ones unless the clock was set back between them.
THEOREM RowsAreTrue == Spec => []RowsTrue
<1>1. FeedInv => RowsTrue
  <2> SUFFICES ASSUME FeedInv, Answered PROVE RowsTrue
    BY DEF RowsTrue
  <2>1. ASSUME NEW a \in Addresses
        PROVE  /\ RowFrom(list[a], About(a)) /\ LatestFrom(list[a], About(a))
               /\ Naming(a) = NamingIn(About(a))
    <3>1. Seen(at, a) = About(a)
      BY AtAnswer DEF FeedInv
    <3>2. RowFrom(list[a], Seen(at, a)) /\ LatestFrom(list[a], Seen(at, a))
      BY DEF FeedInv, LoopInv, Answered
    <3> QED BY <3>1, <3>2 DEF Naming, NamingIn
  <2> HIDE DEF About, Naming
  <2> QED BY <2>1 DEF RowsTrue, RowFrom, LatestFrom
<1> QED BY <1>1, FeedCorrect, PTL
=============================================================================

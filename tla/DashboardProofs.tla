--------------------------- MODULE DashboardProofs ---------------------------
(***************************************************************************)
(* With six workers or more: types, a worker to spare whenever time        *)
(* passes, and the age of what a tile shows.                               *)
(***************************************************************************)
EXTENDS Dashboard, FiniteSetTheorems, TLAPS

---------------------------------------------------------------------------
(* The invariant. *)

Waiting == [kind : {"status", "wifi", "alerts"}, age : 0..10,
            call : {1, 2}, left : 0..8]

\* What is left of a poll that has just been made.
Queued ==
    \/ queue = <<>>
    \/ /\ sincePoll = 0
       /\ queue \in {<<NewRequest("status"), NewRequest("wifi"),
                       NewRequest("ble"), NewRequest("alerts")>>,
                     <<NewRequest("wifi"), NewRequest("ble"), NewRequest("alerts")>>,
                     <<NewRequest("ble"), NewRequest("alerts")>>,
                     <<NewRequest("alerts")>>}

\* A call lasts as long as its timeout lets it, and api_status makes two.
Timed ==
    \A r \in busy :
        /\ r.call = 1 => r.age + r.left = Limit(r.kind)
        /\ r.call = 2 => r.kind = "status" /\ r.age + r.left <= 10

\* Requests are made by the polls, one of each kind.
Polled ==
    /\ \A r \in busy : r.age \in {sincePoll, sincePoll + 5, sincePoll + 10}
    /\ \A r, s \in busy : r.kind = s.kind /\ r.age = s.age => r = s
    /\ \A r \in busy : r.age = 0 => \A i \in DOMAIN queue : queue[i].kind # r.kind
    /\ \A k \in Tiles : \E j \in {-5, 0, 5, 10, 15, 20, 25} :
          shown[k].age = sincePoll + j

Unanswered(k, a) ==
    \/ \E r \in busy : r.kind = k /\ r.age = a
    \/ a = 0 /\ \E i \in DOMAIN queue : queue[i].kind = k

\* A poll made when the answer shown must have been there already has not
\* been answered itself, or its answer would be shown.
Latest ==
    \A k \in Tiles : \A a \in {sincePoll, sincePoll + 5, sincePoll + 10} :
        a <= shown[k].age - (IF k = "wifi" THEN 9 ELSE 11) => Unanswered(k, a)

Typed ==
    /\ sincePoll \in 0..5
    /\ busy \subseteq Waiting
    /\ IsFiniteSet(busy) /\ Cardinality(busy) <= Workers
    /\ shown \in [Tiles -> [data : BOOLEAN, age : Nat]]
    /\ kismet \in {"up", "hung", "down"}

PageInv ==
    /\ Typed /\ Queued /\ Timed /\ Polled /\ Latest
    /\ ShownNotTooOld

---------------------------------------------------------------------------

LEMMA Requested ==
    \A k \in {"status", "wifi", "ble", "alerts"} :
        /\ NewRequest(k) \in Requests
        /\ NewRequest(k).kind = k /\ NewRequest(k).age = 0
        /\ NewRequest(k).call = 1 /\ NewRequest(k).left = Limit(k)
        /\ k # "ble" => NewRequest(k) \in Waiting
BY DEF NewRequest, Requests, Waiting, Limit

\* While no call times out there are at most five: a status, a Wi-Fi and an
\* alerts request of this poll, a status and a Wi-Fi request of the one before.
LEMMA AtMostFive ==
    ASSUME Typed, Timed, Polled, sincePoll < 5, \A r \in busy : r.left > 0
    PROVE  Cardinality(busy) <= 5
<1> DEFINE slot(r) == IF r.kind = "status" THEN IF r.age = sincePoll THEN 1 ELSE 2
                      ELSE IF r.kind = "wifi" THEN IF r.age = sincePoll THEN 3 ELSE 4
                      ELSE 5
<1> DEFINE f == [r \in busy |-> slot(r)]
<1>1. \A r \in busy : r.age \in {sincePoll, sincePoll + 5}
  <2> SUFFICES ASSUME NEW r \in busy PROVE r.age # sincePoll + 10
    BY DEF Polled
  <2>1. r.age < 10
    BY DEF Typed, Timed, Waiting, Limit
  <2> QED BY <2>1 DEF Typed
<1>2. \A r \in busy : r.kind = "alerts" => r.age = sincePoll
  <2> SUFFICES ASSUME NEW r \in busy, r.kind = "alerts" PROVE r.age # sincePoll + 5
    BY <1>1
  <2>1. r.age < 5
    BY DEF Typed, Timed, Waiting, Limit
  <2> QED BY <2>1 DEF Typed
<1>3. \A r \in busy : r.kind \in {"status", "wifi", "alerts"}
  BY DEF Typed, Waiting
<1>4. \A r, s \in busy : slot(r) = slot(s) => r.kind = s.kind /\ r.age = s.age
  BY <1>1, <1>2, <1>3 DEF Typed
<1>5. f \in Injection(busy, 1..5)
  BY <1>4 DEF Polled, Injection, IsInjective
<1>6. IsFiniteSet(1..5) /\ Cardinality(1..5) = 5
  <2>1. 1 \in Int /\ 5 \in Int
    OBVIOUS
  <2>2. /\ IsFiniteSet(1..5)
        /\ Cardinality(1..5) = IF 1 > 5 THEN 0 ELSE 5 - 1 + 1
    BY <2>1, FS_Interval, Zenon
  <2> QED BY <2>2
<1> QED BY <1>5, <1>6, FS_Injection

LEMMA PageStart == Workers >= 6 /\ Init => PageInv
<1> SUFFICES ASSUME Workers >= 6, Init PROVE PageInv
  OBVIOUS
<1>1. Typed
  BY WorkersAssumption, FS_EmptySet DEF Init, Typed, PollInterval, Tiles
<1>2. Queued /\ Timed
  BY DEF Init, Queued, Timed
<1>3. Polled
  BY DEF Init, Polled, PollInterval, Tiles
<1>4. Latest /\ ShownNotTooOld
  BY DEF Init, Latest, ShownNotTooOld, PollInterval, Tiles
<1> QED BY <1>1, <1>2, <1>3, <1>4 DEF PageInv

\* Time passes only over an empty queue, with a worker to spare.
LEMMA TickSpare ==
    Workers >= 6 /\ PageInv /\ Tick => queue = <<>> /\ FreeWorker
<1> SUFFICES ASSUME Workers >= 6, PageInv, Tick PROVE queue = <<>> /\ FreeWorker
  OBVIOUS
<1>1. sincePoll < 5 /\ \A r \in busy : r.left > 0
  BY DEF Tick, PollInterval
<1>2. Cardinality(busy) <= 5
  BY <1>1, AtMostFive DEF PageInv
<1>3. FreeWorker
  BY <1>2, WorkersAssumption, FS_CardinalityType DEF FreeWorker, PageInv, Typed
<1> QED BY <1>3 DEF Tick

LEMMA TickStep == Workers >= 6 /\ PageInv /\ Tick => PageInv'
<1> SUFFICES ASSUME Workers >= 6, PageInv, Tick PROVE PageInv'
  OBVIOUS
<1> DEFINE later(r) == [Older(r) EXCEPT !.left = @ - 1]
<1>1. queue = <<>> /\ queue' = <<>>
  BY TickSpare DEF Tick
<1>2. /\ sincePoll \in 0..4 /\ sincePoll' = sincePoll + 1
      /\ busy' = {later(r) : r \in busy}
      /\ shown' = [k \in Tiles |-> Older(shown[k])]
      /\ kismet' = kismet
  BY DEF Tick, PollInterval, PageInv, Typed
<1>3. \A r \in busy : /\ r \in Waiting /\ r.left > 0
                      /\ r.age < 10
  BY DEF Tick, PageInv, Typed, Timed, Waiting, Limit
<1>4. \A r \in busy : /\ later(r) \in Waiting
                      /\ later(r).kind = r.kind /\ later(r).age = r.age + 1
                      /\ later(r).call = r.call /\ later(r).left = r.left - 1
  <2> SUFFICES ASSUME NEW r \in busy
               PROVE  /\ later(r) \in Waiting
                      /\ later(r).kind = r.kind /\ later(r).age = r.age + 1
                      /\ later(r).call = r.call /\ later(r).left = r.left - 1
    OBVIOUS
  <2>1. /\ r \in Waiting /\ r.left \in 1..8 /\ r.age \in 0..9
        /\ r.left - 1 \in 0..8 /\ r.age + 1 \in 0..10
    BY <1>3 DEF Waiting
  <2>2. Older(r) \in Waiting /\ Older(r) = [r EXCEPT !.age = r.age + 1]
    BY <2>1 DEF Older, Waiting
  <2>3. later(r) = [[r EXCEPT !.age = r.age + 1] EXCEPT !.left = r.left - 1]
    BY <2>1, <2>2 DEF Waiting
  <2> QED BY <2>1, <2>3 DEF Waiting
<1>5. \A k \in Tiles : /\ shown'[k].age = shown[k].age + 1
                       /\ shown'[k] \in [data : BOOLEAN, age : Nat]
                       /\ shown[k].age \in Nat
  <2> SUFFICES ASSUME NEW k \in Tiles
               PROVE  /\ shown'[k].age = shown[k].age + 1
                      /\ shown'[k] \in [data : BOOLEAN, age : Nat]
                      /\ shown[k].age \in Nat
    OBVIOUS
  <2>1. shown[k] \in [data : BOOLEAN, age : Nat]
    BY DEF PageInv, Typed
  <2>2. shown'[k] = Older(shown[k])
    BY <1>2, Zenon
  <2>3. shown'[k] = [shown[k] EXCEPT !.age = shown[k].age + 1]
    BY <2>2, Zenon DEF Older
  <2> QED BY <2>1, <2>3
<1>5a. sincePoll \in 0..4 /\ sincePoll' = sincePoll + 1
  BY <1>2
<1>6. IsFiniteSet(busy') /\ Cardinality(busy') <= Workers
  <2> DEFINE f == [r \in busy |-> later(r)]
  <2>1. f \in Surjection(busy, busy')
    BY <1>2 DEF Surjection
  <2>2. IsFiniteSet(busy') /\ Cardinality(busy') <= Cardinality(busy)
    BY <2>1, FS_Surjection DEF PageInv, Typed
  <2>3. Cardinality(busy) \in Nat /\ Cardinality(busy') \in Nat
    BY <2>2, FS_CardinalityType DEF PageInv, Typed
  <2> QED BY <2>2, <2>3, WorkersAssumption DEF PageInv, Typed
<1>7. Typed'
  <2>1. busy' \subseteq Waiting
    BY <1>2, <1>4
  <2>2. shown' \in [Tiles -> [data : BOOLEAN, age : Nat]]
    <3>1. shown' = [k \in Tiles |-> shown'[k]]
      BY <1>2
    <3> QED BY <3>1, <1>5
  <2>3. sincePoll' \in 0..5 /\ kismet' \in {"up", "hung", "down"}
    BY <1>2 DEF PageInv, Typed
  <2> QED BY <2>1, <2>2, <2>3, <1>6 DEF Typed
<1>8. Queued'
  BY <1>1 DEF Queued
<1>9. Timed'
  BY <1>2, <1>3, <1>4 DEF PageInv, Timed, Waiting, Limit
<1>10. Polled'
  <2>1. \A r \in busy' : r.age \in {sincePoll', sincePoll' + 5, sincePoll' + 10}
    BY <1>2, <1>3, <1>4 DEF PageInv, Polled, Waiting
  <2>2. \A r, s \in busy' : r.kind = s.kind /\ r.age = s.age => r = s
    BY <1>2, <1>3, <1>4 DEF PageInv, Polled, Waiting
  <2>3. \A r \in busy' : r.age = 0 => \A i \in DOMAIN queue' : queue'[i].kind # r.kind
    BY <1>1
  <2>4. \A k \in Tiles : \E j \in {-5, 0, 5, 10, 15, 20, 25} :
           shown'[k].age = sincePoll' + j
    <3> SUFFICES ASSUME NEW k \in Tiles
                 PROVE  \E j \in {-5, 0, 5, 10, 15, 20, 25} :
                           shown'[k].age = sincePoll' + j
      OBVIOUS
    <3>1. PICK j \in {-5, 0, 5, 10, 15, 20, 25} : shown[k].age = sincePoll + j
      BY DEF PageInv, Polled
    <3>2. shown'[k].age = sincePoll' + j
      BY <3>1, <1>5, <1>5a
    <3> QED BY <3>2
  <2> QED BY <2>1, <2>2, <2>3, <2>4 DEF Polled
<1>11. Latest'
  <2> SUFFICES ASSUME NEW k \in Tiles,
                      NEW a \in {sincePoll', sincePoll' + 5, sincePoll' + 10},
                      a <= shown'[k].age - (IF k = "wifi" THEN 9 ELSE 11)
               PROVE  \E r \in busy' : r.kind = k /\ r.age = a
    BY DEF Latest, Unanswered
  <2>1. /\ a - 1 \in {sincePoll, sincePoll + 5, sincePoll + 10}
        /\ a - 1 <= shown[k].age - (IF k = "wifi" THEN 9 ELSE 11)
    <3>1. a - 1 \in {sincePoll, sincePoll + 5, sincePoll + 10}
      BY <1>2
    <3>2. shown'[k].age = shown[k].age + 1 /\ shown[k].age \in Nat /\ a \in Int
      BY <1>5, <1>5a
    <3>3. CASE k = "wifi"
      BY <3>1, <3>2, <3>3
    <3>4. CASE k # "wifi"
      BY <3>1, <3>2, <3>4
    <3> QED BY <3>3, <3>4
  <2>2. Unanswered(k, a - 1)
    BY <2>1 DEF PageInv, Latest
  <2>3. PICK r \in busy : r.kind = k /\ r.age = a - 1
    BY <2>2, <1>1 DEF Unanswered
  <2>4. later(r) \in busy' /\ later(r).kind = k /\ later(r).age = a
    BY <2>3, <1>2, <1>3, <1>4 DEF Waiting
  <2> QED BY <2>4
<1>12. ShownNotTooOld'
  <2>1. ~Unanswered("wifi", 8)
    BY <1>1, <1>3 DEF Unanswered, PageInv, Timed, Waiting, Limit
  <2>2. ~Unanswered("status", 10)
    BY <1>1, <1>3 DEF Unanswered
  <2>3. shown["wifi"].age # 18
    <3> SUFFICES ASSUME shown["wifi"].age = 18 PROVE FALSE
      OBVIOUS
    <3>1. sincePoll = 3
      BY <1>2 DEF PageInv, Polled, Tiles
    <3> QED BY <3>1, <2>1 DEF PageInv, Latest, Tiles
  <2>4. shown["status"].age # 25
    <3> SUFFICES ASSUME shown["status"].age = 25 PROVE FALSE
      OBVIOUS
    <3>1. sincePoll = 0
      BY <1>2 DEF PageInv, Polled, Tiles
    <3> QED BY <3>1, <2>2 DEF PageInv, Latest, Tiles
  <2> QED BY <2>3, <2>4, <1>5 DEF PageInv, ShownNotTooOld, Tiles
<1> QED BY <1>7, <1>8, <1>9, <1>10, <1>11, <1>12 DEF PageInv

\* The four requests of a poll, and the polls before it five seconds older.
LEMMA PollStep == PageInv /\ Poll => PageInv'
<1> SUFFICES ASSUME PageInv, Poll PROVE PageInv'
  OBVIOUS
<1>1. sincePoll = 5 /\ sincePoll' = 0
  BY DEF Poll, PollInterval
<1>2. busy' = busy /\ shown' = shown /\ kismet' = kismet
  BY DEF Poll
<1>3. queue' = <<NewRequest("status"), NewRequest("wifi"),
                 NewRequest("ble"), NewRequest("alerts")>>
  <2>1. queue = <<>>
    BY <1>1 DEF PageInv, Queued
  <2> QED BY <2>1 DEF Poll
<1>4. Typed'
  BY <1>1, <1>2 DEF PageInv, Typed
<1>5. Queued'
  BY <1>1, <1>3 DEF Queued
<1>6. Timed'
  BY <1>2 DEF PageInv, Timed
<1>7. \A r \in busy : r.age \in {5, 10}
  <2> SUFFICES ASSUME NEW r \in busy PROVE r.age \in {5, 10}
    OBVIOUS
  <2>1. r.age \in 0..10 /\ r.age \in {sincePoll, sincePoll + 5, sincePoll + 10}
    BY DEF PageInv, Typed, Polled, Waiting
  <2> QED BY <2>1, <1>1
<1>8. \A k \in Tiles : \E j \in {-5, 0, 5, 10, 15, 20, 25} :
         shown'[k].age = sincePoll' + j
  <2> SUFFICES ASSUME NEW k \in Tiles
               PROVE  \E j \in {-5, 0, 5, 10, 15, 20, 25} :
                         shown'[k].age = sincePoll' + j
    OBVIOUS
  <2>1. PICK j \in {-5, 0, 5, 10, 15, 20, 25} : shown[k].age = 5 + j
    BY <1>1 DEF PageInv, Polled
  <2>2. shown[k].age <= 25
    BY <2>1 DEF PageInv, ShownNotTooOld, Tiles
  <2>3. j + 5 \in {-5, 0, 5, 10, 15, 20, 25}
    BY <2>1, <2>2
  <2> QED BY <2>1, <2>3, <1>1, <1>2
<1>9. Polled'
  <2>1. \A r \in busy' : r.age \in {sincePoll', sincePoll' + 5, sincePoll' + 10}
    BY <1>1, <1>2, <1>7
  <2>2. \A r, s \in busy' : r.kind = s.kind /\ r.age = s.age => r = s
    BY <1>2 DEF PageInv, Polled
  <2>3. \A r \in busy' : r.age # 0
    BY <1>2, <1>7
  <2> QED BY <2>1, <2>2, <2>3, <1>8 DEF Polled
<1>10. Latest'
  <2> SUFFICES ASSUME NEW k \in Tiles, NEW a \in {0, 5, 10},
                      a <= shown[k].age - (IF k = "wifi" THEN 9 ELSE 11)
               PROVE  \/ \E r \in busy : r.kind = k /\ r.age = a
                      \/ a = 0 /\ \E i \in DOMAIN queue' : queue'[i].kind = k
    BY <1>1, <1>2 DEF Latest, Unanswered
  <2>1. CASE a = 0
    <3>1. k \in {"status", "wifi"}
      BY DEF Tiles
    <3>2. 1 \in DOMAIN queue' /\ 2 \in DOMAIN queue'
      BY <1>3
    <3>3. queue'[1].kind = "status" /\ queue'[2].kind = "wifi"
      BY <1>3, Requested
    <3> QED BY <2>1, <3>1, <3>2, <3>3
  <2>2. CASE a \in {5, 10}
    <3>1. Unanswered(k, a)
      BY <2>2, <1>1 DEF PageInv, Latest
    <3> QED BY <3>1, <2>2 DEF Unanswered
  <2> QED BY <2>1, <2>2
<1>11. ShownNotTooOld'
  BY <1>2 DEF PageInv, ShownNotTooOld
<1> QED BY <1>4, <1>5, <1>6, <1>9, <1>10, <1>11 DEF PageInv

\* A request keeps its place among those of its kind when a worker takes it.
LEMMA AcceptStep == PageInv /\ Accept => PageInv'
<1> SUFFICES ASSUME PageInv, Accept PROVE PageInv'
  OBVIOUS
<1> DEFINE h == Head(queue)
<1>1. sincePoll = 0
  BY DEF PageInv, Queued, Accept
<1>2. sincePoll' = sincePoll /\ shown' = shown /\ kismet' = kismet
  BY DEF Accept
<1> DEFINE S == NewRequest("status")
<1> DEFINE W == NewRequest("wifi")
<1> DEFINE B == NewRequest("ble")
<1> DEFINE A == NewRequest("alerts")
<1>2a. /\ S.kind = "status" /\ W.kind = "wifi" /\ B.kind = "ble" /\ A.kind = "alerts"
  BY Requested
<1> DEFINE fresh(r) == /\ r.age = 0 /\ r.call = 1 /\ r.left = Limit(r.kind)
                       /\ r.kind # "ble" => r \in Waiting
<1>2d. fresh(S) /\ fresh(W) /\ fresh(B) /\ fresh(A)
  BY Requested
<1>2b. \/ queue = <<S, W, B, A>>
       \/ queue = <<W, B, A>>
       \/ queue = <<B, A>>
       \/ queue = <<A>>
  BY DEF PageInv, Queued, Accept
<1>2c. queue' = Tail(queue)
  BY DEF Accept
<1> HIDE DEF S, W, B, A, fresh
<1>3. \/ queue = <<S, W, B, A>> /\ h = S /\ queue' = <<W, B, A>>
      \/ queue = <<W, B, A>> /\ h = W /\ queue' = <<B, A>>
      \/ queue = <<B, A>> /\ h = B /\ queue' = <<A>>
      \/ queue = <<A>> /\ h = A /\ queue' = <<>>
  <2>1. CASE queue = <<S, W, B, A>>
    BY <2>1, <1>2c
  <2>2. CASE queue = <<W, B, A>>
    BY <2>2, <1>2c
  <2>3. CASE queue = <<B, A>>
    BY <2>3, <1>2c
  <2>4. CASE queue = <<A>>
    BY <2>4, <1>2c
  <2> QED BY <1>2b, <2>1, <2>2, <2>3, <2>4
<1>3a. h \in {S, W, B, A}
  BY <1>3
<1> HIDE DEF h
<1>4. /\ \A i \in DOMAIN queue' : queue'[i].kind # h.kind
      /\ \A i \in DOMAIN queue : \/ queue[i] = h
                                 \/ \E j \in DOMAIN queue' : queue'[j] = queue[i]
      /\ \A j \in DOMAIN queue' : \E i \in DOMAIN queue : queue'[j] = queue[i]
      /\ \E i \in DOMAIN queue : queue[i] = h
  <2>1. CASE queue = <<S, W, B, A>> /\ h = S /\ queue' = <<W, B, A>>
    BY <2>1, <1>2a
  <2>2. CASE queue = <<W, B, A>> /\ h = W /\ queue' = <<B, A>>
    BY <2>2, <1>2a
  <2>3. CASE queue = <<B, A>> /\ h = B /\ queue' = <<A>>
    BY <2>3, <1>2a
  <2>4. CASE queue = <<A>> /\ h = A /\ queue' = <<>>
    BY <2>4, <1>2a
  <2> QED BY <1>3, <2>1, <2>2, <2>3, <2>4
<1>5. busy' = IF h.kind = "ble" THEN busy ELSE busy \cup {h}
  BY DEF Accept, h
<1>5a. fresh(h)
  BY <1>2d, <1>3a
<1>6. h.age = 0 /\ h.call = 1 /\ h.left = Limit(h.kind)
  BY <1>5a DEF fresh
<1>7. h.kind # "ble" => h \in Waiting
  BY <1>5a DEF fresh
<1>8. \A r \in busy : r.age = 0 => r.kind # h.kind
  BY <1>4 DEF PageInv, Polled
<1>9. Typed'
  <2>1. busy' \subseteq Waiting
    BY <1>5, <1>7 DEF PageInv, Typed
  <2>2. IsFiniteSet(busy') /\ Cardinality(busy') <= Workers
    <3>1. CASE h.kind = "ble"
      BY <3>1, <1>5 DEF PageInv, Typed
    <3>2. CASE h.kind # "ble"
      <4>1. /\ IsFiniteSet(busy \cup {h})
            /\ Cardinality(busy \cup {h}) =
                  IF h \in busy THEN Cardinality(busy) ELSE Cardinality(busy) + 1
        BY FS_AddElement DEF PageInv, Typed
      <4>2. Cardinality(busy) \in Nat /\ Cardinality(busy) < Workers
        BY FS_CardinalityType DEF PageInv, Typed, Accept, FreeWorker
      <4> QED BY <4>1, <4>2, <3>2, <1>5, WorkersAssumption
    <3> QED BY <3>1, <3>2
  <2> QED BY <2>1, <2>2, <1>2 DEF PageInv, Typed
<1>10. Queued'
  BY <1>1, <1>2, <1>3 DEF Queued, S, W, B, A
<1>11. Timed'
  BY <1>5, <1>6, <1>7 DEF PageInv, Timed, Waiting, Limit
<1>12. Polled'
  <2>1. \A r \in busy' : r \in busy \/ r = h
    BY <1>5
  <2>2. \A r \in busy' : r.age \in {sincePoll', sincePoll' + 5, sincePoll' + 10}
    BY <2>1, <1>1, <1>2, <1>6 DEF PageInv, Polled
  <2>3. \A r, s \in busy' : r.kind = s.kind /\ r.age = s.age => r = s
    BY <2>1, <1>6, <1>8 DEF PageInv, Polled
  <2>4. \A r \in busy' : r.age = 0 => \A i \in DOMAIN queue' : queue'[i].kind # r.kind
    BY <2>1, <1>4 DEF PageInv, Polled
  <2>5. \A k \in Tiles : \E j \in {-5, 0, 5, 10, 15, 20, 25} :
           shown'[k].age = sincePoll' + j
    BY <1>2 DEF PageInv, Polled
  <2> QED BY <2>2, <2>3, <2>4, <2>5 DEF Polled
<1>13. Latest'
  <2> SUFFICES ASSUME NEW k \in Tiles, NEW a \in {0, 5, 10}, Unanswered(k, a)
               PROVE  Unanswered(k, a)'
    BY <1>1, <1>2 DEF PageInv, Latest
  <2>1. CASE \E r \in busy : r.kind = k /\ r.age = a
    BY <2>1, <1>5 DEF Unanswered
  <2>2. CASE a = 0 /\ \E i \in DOMAIN queue : queue[i].kind = k
    <3>1. PICK i \in DOMAIN queue : queue[i].kind = k
      BY <2>2
    <3>2. CASE queue[i] = h
      BY <3>1, <3>2, <2>2, <1>5, <1>6 DEF Unanswered, Tiles
    <3>3. CASE \E j \in DOMAIN queue' : queue'[j] = queue[i]
      BY <3>1, <3>3, <2>2 DEF Unanswered
    <3> QED BY <3>1, <3>2, <3>3, <1>4
  <2> QED BY <2>1, <2>2 DEF Unanswered
<1>14. ShownNotTooOld'
  BY <1>2 DEF PageInv, ShownNotTooOld
<1> QED BY <1>9, <1>10, <1>11, <1>12, <1>13, <1>14 DEF PageInv

\* Every answer is to a request young enough that no poll is missed by it.
LEMMA AnswerStep ==
    ASSUME PageInv, NEW r \in busy, NEW ok \in BOOLEAN, Answer(r, ok),
           UNCHANGED sincePoll, UNCHANGED queue, UNCHANGED kismet
    PROVE  PageInv'
<1>1. sincePoll' = sincePoll /\ queue' = queue /\ kismet' = kismet
  OBVIOUS
<1>2. busy' = busy \ {r}
  BY DEF Answer
<1>3. r \in Waiting /\ r.age \in 0..10 /\ (r.kind = "wifi" => r.age <= 8)
  BY DEF PageInv, Typed, Timed, Waiting, Limit
<1>4. \A k \in Tiles : IF k = r.kind
                       THEN shown'[k] = [data |-> Data(r, ok), age |-> r.age]
                       ELSE shown'[k] = shown[k]
  BY Zenon DEF Answer, PageInv, Typed
<1>5. \A k \in Tiles : shown'[k].age = IF k = r.kind THEN r.age ELSE shown[k].age
  <2> SUFFICES ASSUME NEW k \in Tiles
               PROVE  shown'[k].age = IF k = r.kind THEN r.age ELSE shown[k].age
    OBVIOUS
  <2>1. CASE k = r.kind
    <3>1. shown'[k] = [data |-> Data(r, ok), age |-> r.age]
      BY <2>1, <1>4, Zenon
    <3> QED BY <3>1, <2>1
  <2>2. CASE k # r.kind
    <3>1. shown'[k] = shown[k]
      BY <2>2, <1>4, Zenon
    <3> QED BY <3>1, <2>2
  <2> QED BY <2>1, <2>2
<1>6. Typed'
  <2>1. IsFiniteSet(busy') /\ Cardinality(busy') <= Workers
    <3>1. /\ IsFiniteSet(busy \ {r})
          /\ Cardinality(busy \ {r}) = Cardinality(busy) - 1
      BY FS_RemoveElement DEF PageInv, Typed
    <3>2. Cardinality(busy) \in Nat
      BY FS_CardinalityType DEF PageInv, Typed
    <3> QED BY <3>1, <3>2, <1>2, WorkersAssumption DEF PageInv, Typed
  <2>2. Data(r, ok) \in BOOLEAN
    BY DEF Data
  <2>3. shown' \in [Tiles -> [data : BOOLEAN, age : Nat]]
    <3>1. [data |-> Data(r, ok), age |-> r.age] \in [data : BOOLEAN, age : Nat]
      BY <2>2, <1>3
    <3>2. CASE r.kind \in Tiles
      <4>1. shown' = [shown EXCEPT ![r.kind] = [data |-> Data(r, ok), age |-> r.age]]
        BY <3>2, Zenon DEF Answer
      <4> QED BY <4>1, <3>1 DEF PageInv, Typed
    <3>3. CASE r.kind \notin Tiles
      BY <3>3, Zenon DEF Answer, PageInv, Typed
    <3> QED BY <3>2, <3>3
  <2> QED BY <2>1, <2>3, <1>1, <1>2 DEF PageInv, Typed
<1>7. Queued'
  BY <1>1 DEF PageInv, Queued
<1>8. Timed'
  BY <1>2 DEF PageInv, Timed
<1>9. Polled'
  <2>1. \A k \in Tiles : \E j \in {-5, 0, 5, 10, 15, 20, 25} :
           shown'[k].age = sincePoll' + j
    <3> SUFFICES ASSUME NEW k \in Tiles
                 PROVE  \E j \in {-5, 0, 5, 10, 15, 20, 25} :
                           shown'[k].age = sincePoll' + j
      OBVIOUS
    <3>1. CASE k = r.kind
      <4>1. r.age \in {sincePoll, sincePoll + 5, sincePoll + 10}
        BY DEF PageInv, Polled
      <4>2. sincePoll \in 0..5 /\ shown'[k].age = r.age
        BY <3>1, <1>5 DEF PageInv, Typed
      <4> QED BY <4>1, <4>2, <1>1
    <3>2. CASE k # r.kind
      BY <3>2, <1>1, <1>5 DEF PageInv, Polled
    <3> QED BY <3>1, <3>2
  <2>2. \A s \in busy' : s \in busy
    BY <1>2
  <2> QED BY <2>1, <2>2, <1>1 DEF PageInv, Polled
<1>10. Latest'
  <2> SUFFICES ASSUME NEW k \in Tiles,
                      NEW a \in {sincePoll, sincePoll + 5, sincePoll + 10},
                      a <= shown'[k].age - (IF k = "wifi" THEN 9 ELSE 11)
               PROVE  Unanswered(k, a)'
    BY <1>1 DEF Latest
  <2>1. k # r.kind
    <3> SUFFICES ASSUME k = r.kind PROVE FALSE
      OBVIOUS
    <3>1. shown'[k].age = r.age
      BY <1>5
    <3>2. a \in Nat
      BY DEF PageInv, Typed
    <3> QED BY <3>1, <3>2, <1>3
  <2>2. Unanswered(k, a)
    BY <2>1, <1>5 DEF PageInv, Latest
  <2> QED BY <2>1, <2>2, <1>1, <1>2 DEF Unanswered
<1>11. ShownNotTooOld'
  BY <1>3, <1>5 DEF PageInv, ShownNotTooOld, Tiles
<1> QED BY <1>6, <1>7, <1>8, <1>9, <1>10, <1>11 DEF PageInv

\* The second call of api_status is the same request, with a timeout of its own.
LEMMA GpsStep ==
    ASSUME PageInv, NEW r \in busy, AsksForGps(r), Respond(r)
    PROVE  PageInv'
<1> DEFINE g == [r EXCEPT !.call = @ + 1, !.left = Limit(r.kind)]
<1>1. /\ sincePoll' = sincePoll /\ queue' = queue
      /\ shown' = shown /\ kismet' = kismet
      /\ busy' = (busy \ {r}) \cup {g}
  BY DEF Respond
<1>2. r \in Waiting /\ r.kind = "status" /\ r.call = 1 /\ r.age \in 0..5
  BY DEF PageInv, Typed, Timed, Waiting, Limit, AsksForGps
<1>3. g = [[r EXCEPT !.call = 2] EXCEPT !.left = 5]
  BY <1>2 DEF Limit, Waiting
<1>4. g \in Waiting /\ g.kind = "status" /\ g.call = 2 /\ g.left = 5 /\ g.age = r.age
  <2> DEFINE c == [r EXCEPT !.call = 2]
  <2>1. c \in Waiting /\ c.kind = "status" /\ c.call = 2 /\ c.age = r.age
    BY <1>2 DEF Waiting
  <2> HIDE DEF c
  <2>2. g = [c EXCEPT !.left = 5]
    BY <1>3 DEF c
  <2> HIDE DEF g
  <2> QED BY <2>1, <2>2 DEF Waiting
<1> HIDE DEF g
<1>5. \A s \in busy' : s = g \/ (s \in busy /\ s # r)
  BY <1>1
<1>6. Typed'
  <2>1. IsFiniteSet(busy') /\ Cardinality(busy') <= Workers
    <3>1. /\ IsFiniteSet(busy \ {r})
          /\ Cardinality(busy \ {r}) = Cardinality(busy) - 1
      BY FS_RemoveElement DEF PageInv, Typed
    <3>2. /\ IsFiniteSet(busy')
          /\ \/ Cardinality(busy') = Cardinality(busy \ {r})
             \/ Cardinality(busy') = Cardinality(busy \ {r}) + 1
      BY <3>1, <1>1, FS_AddElement
    <3>3. Cardinality(busy) \in Nat
      BY FS_CardinalityType DEF PageInv, Typed
    <3> QED BY <3>1, <3>2, <3>3, WorkersAssumption DEF PageInv, Typed
  <2> QED BY <2>1, <1>1, <1>4 DEF PageInv, Typed
<1>7. Queued'
  BY <1>1 DEF PageInv, Queued
<1>8. Timed'
  BY <1>2, <1>4, <1>5 DEF PageInv, Timed
<1>9. Polled'
  <2>1. \A s \in busy' : s.age \in {sincePoll', sincePoll' + 5, sincePoll' + 10}
    BY <1>1, <1>4, <1>5 DEF PageInv, Polled
  <2>2. \A s, t \in busy' : s.kind = t.kind /\ s.age = t.age => s = t
    BY <1>2, <1>4, <1>5 DEF PageInv, Polled
  <2>3. \A s \in busy' : s.age = 0 => \A i \in DOMAIN queue' : queue'[i].kind # s.kind
    BY <1>1, <1>2, <1>4, <1>5 DEF PageInv, Polled
  <2>4. \A k \in Tiles : \E j \in {-5, 0, 5, 10, 15, 20, 25} :
           shown'[k].age = sincePoll' + j
    BY <1>1 DEF PageInv, Polled
  <2> QED BY <2>1, <2>2, <2>3, <2>4 DEF Polled
<1>10. \A k, a : Unanswered(k, a) => Unanswered(k, a)'
  BY <1>1, <1>2, <1>4 DEF Unanswered
<1>11. Latest'
  BY <1>1, <1>10 DEF PageInv, Latest
<1>12. ShownNotTooOld'
  BY <1>1 DEF PageInv, ShownNotTooOld
<1> QED BY <1>6, <1>7, <1>8, <1>9, <1>11, <1>12 DEF PageInv

LEMMA NextKeepsPage == Workers >= 6 /\ PageInv /\ [Next]_vars => PageInv'
<1> SUFFICES ASSUME Workers >= 6, PageInv, [Next]_vars PROVE PageInv'
  OBVIOUS
<1>1. CASE Poll
  BY <1>1, PollStep
<1>2. CASE Accept
  BY <1>2, AcceptStep
<1>3. CASE \E r \in busy : Respond(r) \/ Refuse(r) \/ TimeOut(r)
  <2>1. PICK r \in busy : Respond(r) \/ Refuse(r) \/ TimeOut(r)
    BY <1>3
  <2>2. CASE Respond(r) /\ AsksForGps(r)
    BY <2>2, GpsStep
  <2>3. CASE Respond(r) /\ ~AsksForGps(r)
    <3>1. Answer(r, TRUE) /\ UNCHANGED sincePoll /\ UNCHANGED queue /\ UNCHANGED kismet
      BY <2>3 DEF Respond
    <3> QED BY <3>1, AnswerStep
  <2>4. CASE Refuse(r) \/ TimeOut(r)
    <3>1. Answer(r, FALSE) /\ UNCHANGED sincePoll /\ UNCHANGED queue /\ UNCHANGED kismet
      BY <2>4 DEF Refuse, TimeOut
    <3> QED BY <3>1, AnswerStep
  <2> QED BY <2>1, <2>2, <2>3, <2>4
<1>4. CASE KismetChanges
  <2>1. /\ UNCHANGED <<sincePoll, queue, busy, shown>>
        /\ kismet' \in {"up", "hung", "down"}
    BY <1>4 DEF KismetChanges
  <2> QED BY <2>1 DEF PageInv, Typed, Queued, Timed, Polled, Latest, Unanswered,
                      ShownNotTooOld
<1>5. CASE Tick
  BY <1>5, TickStep
<1>6. CASE UNCHANGED vars
  BY <1>6 DEF vars, PageInv, Typed, Queued, Timed, Polled, Latest, Unanswered,
              ShownNotTooOld
<1> QED BY <1>1, <1>2, <1>3, <1>4, <1>5, <1>6 DEF Next

---------------------------------------------------------------------------
(* The theorems, for as many workers as gunicorn is started with, or more. *)

\* The invariant that relates the requests to the polls that made them.
THEOREM PageCorrect == Workers >= 6 => (Spec => []PageInv)
<1>1. Workers >= 6 /\ Init => PageInv
  BY PageStart
<1>2. Workers >= 6 /\ PageInv /\ [Next]_vars => PageInv'
  BY NextKeepsPage
<1>3. SUFFICES ASSUME Workers >= 6 PROVE Spec => []PageInv
  OBVIOUS
<1>4. Init => PageInv
  BY <1>1, <1>3
<1>5. PageInv /\ [Next]_vars => PageInv'
  BY <1>2, <1>3
<1> QED BY <1>4, <1>5, PTL DEF Spec

\* Every request is in the queue or in one of the workers, and no call is
\* older than the timeouts of its requests allow.
THEOREM TypeCorrect == Workers >= 6 => (Spec => []TypeOK)
<1> SUFFICES ASSUME Workers >= 6 PROVE Spec => []TypeOK
  OBVIOUS
<1>1. PageInv => TypeOK
  <2> SUFFICES ASSUME PageInv PROVE TypeOK
    OBVIOUS
  <2>1. queue \in Seq(Requests)
    <3> DEFINE S == NewRequest("status")
    <3> DEFINE W == NewRequest("wifi")
    <3> DEFINE B == NewRequest("ble")
    <3> DEFINE A == NewRequest("alerts")
    <3>1. S \in Requests /\ W \in Requests /\ B \in Requests /\ A \in Requests
      BY Requested
    <3>2. queue \in {<<>>, <<S, W, B, A>>, <<W, B, A>>, <<B, A>>, <<A>>}
      BY DEF PageInv, Queued
    <3> HIDE DEF S, W, B, A
    <3>3. /\ <<>> \in Seq(Requests) /\ <<A>> \in Seq(Requests)
          /\ <<B, A>> \in Seq(Requests) /\ <<W, B, A>> \in Seq(Requests)
          /\ <<S, W, B, A>> \in Seq(Requests)
      BY <3>1
    <3> QED BY <3>2, <3>3
  <2>2. sincePoll \in 0..PollInterval /\ kismet \in {"up", "hung", "down"}
    BY DEF PageInv, Typed, PollInterval
  <2>3. busy \subseteq Requests /\ Cardinality(busy) <= Workers
    BY DEF PageInv, Typed, Waiting, Requests
  <2>4. \A k \in Tiles : shown[k].data \in BOOLEAN /\ shown[k].age \in Nat
    BY DEF PageInv, Typed
  <2> QED BY <2>1, <2>2, <2>3, <2>4 DEF TypeOK
<1> QED BY <1>1, PageCorrect, PTL

\* A late answer stays at most until the answer to a poll made after it can
\* no longer be missing: 18 seconds for the Wi-Fi tile, 25 for the status.
THEOREM AgeBounded == Workers >= 6 => (Spec => []ShownNotTooOld)
<1> SUFFICES ASSUME Workers >= 6 PROVE Spec => []ShownNotTooOld
  OBVIOUS
<1>1. PageInv => ShownNotTooOld
  BY DEF PageInv
<1> QED BY <1>1, PageCorrect, PTL

\* However Kismet fails, the requests of one page never keep the last worker
\* while time passes.
THEOREM WorkerToSpare == Workers >= 6 => (Spec => WorkerLeft)
<1> SUFFICES ASSUME Workers >= 6 PROVE Spec => WorkerLeft
  OBVIOUS
<1>1. PageInv /\ [Next]_vars => [Tick => queue = <<>> /\ FreeWorker]_vars
  BY TickSpare
<1>2. Spec => [][Next]_vars
  BY PTL DEF Spec
<1> QED BY <1>1, <1>2, PageCorrect, PTL DEF WorkerLeft
=============================================================================

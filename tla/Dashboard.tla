----------------------------- MODULE Dashboard -----------------------------
(***************************************************************************)
(* One open /stats page, the synchronous workers that serve it, and the    *)
(* Kismet server they wait for.  The page polls whether or not earlier     *)
(* polls were answered, and shows every answer when it comes.              *)
(*                                                                         *)
(* Time passes in seconds (Tick).  What takes no time to speak of, handing *)
(* a request to a worker or a refused connection, happens between Ticks.   *)
(***************************************************************************)
EXTENDS Integers, Sequences, FiniteSets

CONSTANTS
    Workers     \* gunicorn -w

ASSUME WorkersAssumption == Workers \in Nat \ {0}

VARIABLES
    sincePoll,  \* seconds since the last refreshAll
    queue,      \* requests that no worker has taken
    busy,       \* requests in a worker that waits for Kismet
    shown,      \* per tile: whether it shows data, and how old its request is
    kismet      \* "up", "hung" (accepts, never answers) or "down"

vars == <<sincePoll, queue, busy, shown, kismet>>

\* Fault: a slower poll.
SlowInterval == 12

PollInterval == 5

\* Fault: the timeouts are those of the browser.
LimitOfThirty(kind) == 30

\* requests' timeout of a call.
Limit(kind) == IF kind = "wifi" THEN 8 ELSE 5

Tiles == {"status", "wifi"}

NewRequest(kind) == [kind |-> kind, age |-> 0, call |-> 1, left |-> Limit(kind)]

\* The page has just been loaded.
Init ==
    /\ sincePoll = PollInterval
    /\ queue = <<>>
    /\ busy = {}
    /\ shown = [k \in Tiles |-> [data |-> FALSE, age |-> 0]]
    /\ kismet \in {"up", "hung", "down"}

\* refreshAll
Poll ==
    /\ sincePoll = PollInterval
    /\ sincePoll' = 0
    /\ queue' = queue \o <<NewRequest("status"), NewRequest("wifi"),
                           NewRequest("ble"), NewRequest("alerts")>>
    /\ UNCHANGED <<busy, shown, kismet>>

FreeWorker == Cardinality(busy) < Workers

\* api_ble_devices reads a file and is done.  The others call Kismet.
Accept ==
    /\ queue # <<>> /\ FreeWorker
    /\ queue' = Tail(queue)
    /\ busy' = IF Head(queue).kind = "ble" THEN busy ELSE busy \cup {Head(queue)}
    /\ UNCHANGED <<sincePoll, shown, kismet>>

\* Fault: the tile stays as it was once Kismet has failed.
DataOnceLost(r, ok) == shown[r.kind].data /\ ok

\* Whether the answer holds data: the first call of api_status decides.
Data(r, ok) == ok \/ (r.kind = "status" /\ r.call = 2)

\* The page shows an answer, even after the answer to a later request.
Answer(r, ok) ==
    /\ busy' = busy \ {r}
    /\ shown' = IF r.kind \in Tiles
                THEN [shown EXCEPT ![r.kind] = [data |-> Data(r, ok), age |-> r.age]]
                ELSE shown

\* Fault: it asks again and again.
AsksOn(r) == r.kind = "status"

\* api_status asks for the position after Kismet has answered.
AsksForGps(r) == r.kind = "status" /\ r.call = 1

Respond(r) ==
    /\ kismet = "up"
    /\ IF AsksForGps(r)
       THEN /\ busy' = (busy \ {r}) \cup
                          {[r EXCEPT !.call = @ + 1, !.left = Limit(r.kind)]}
            /\ UNCHANGED shown
       ELSE Answer(r, TRUE)
    /\ UNCHANGED <<sincePoll, queue, kismet>>

Refuse(r) ==
    /\ kismet = "down"
    /\ Answer(r, FALSE)
    /\ UNCHANGED <<sincePoll, queue, kismet>>

TimeOut(r) ==
    /\ kismet = "hung" /\ r.left = 0
    /\ Answer(r, FALSE)
    /\ UNCHANGED <<sincePoll, queue, kismet>>

\* Kismet hangs, dies, or comes back.
KismetChanges ==
    /\ kismet' \in {"up", "hung", "down"} \ {kismet}
    /\ UNCHANGED <<sincePoll, queue, busy, shown>>

Older(x) == [x EXCEPT !.age = @ + 1]

\* A second passes when nothing is due.  A server that is up answers in time.
Tick ==
    /\ sincePoll < PollInterval
    /\ ~(queue # <<>> /\ FreeWorker)
    /\ \A r \in busy : r.left > 0
    /\ kismet = "down" => busy = {}
    /\ sincePoll' = sincePoll + 1
    /\ queue' = [i \in DOMAIN queue |-> Older(queue[i])]
    /\ busy' = {[Older(r) EXCEPT !.left = @ - 1] : r \in busy}
    /\ shown' = [k \in Tiles |-> Older(shown[k])]
    /\ UNCHANGED kismet

Next ==
    \/ Poll
    \/ Accept
    \/ \E r \in busy : Respond(r) \/ Refuse(r) \/ TimeOut(r)
    \/ KismetChanges
    \/ Tick

\* Time, the browser's timer, the workers and a server that is up go on.
Fairness ==
    /\ WF_vars(Poll)
    /\ WF_vars(Accept)
    /\ WF_vars(\E r \in busy : Respond(r) \/ Refuse(r) \/ TimeOut(r))
    /\ WF_vars(Tick)

Spec == Init /\ [][Next]_vars /\ Fairness

---------------------------------------------------------------------------
(* Properties. *)

Requests == [kind : {"status", "wifi", "ble", "alerts"}, age : 0..10,
             call : {1, 2}, left : 0..8]

TypeOK ==
    /\ sincePoll \in 0..PollInterval
    /\ queue \in Seq(Requests)
    /\ busy \subseteq Requests
    /\ Cardinality(busy) <= Workers
    /\ \A k \in Tiles : shown[k].data \in BOOLEAN /\ shown[k].age \in Nat
    /\ kismet \in {"up", "hung", "down"}

\* One open page never takes the last worker for more than an instant,
\* however Kismet fails: whenever time passes, no request waits for a worker
\* and one more, a page load, would be served at once.
WorkerLeft == [][Tick => queue = <<>> /\ FreeWorker]_vars

\* Late answers undo newer ones, but not for ever.  The answer to the Wi-Fi
\* request of time 0 may come at 8, after that of time 5, and stay until the
\* one of time 10 times out at 18.  The status request may come at 10, after
\* those of 5 and 10, and stay until that of 15 times out at 25.
ShownNotTooOld ==
    /\ shown["wifi"].age <= 18
    /\ shown["status"].age <= 25

\* When Kismet is back for good, every tile shows its data again and goes on
\* showing it: late answers from the bad times do not stick.
ShowsRecovery == (<>[](kismet = "up")) => <>[](\A k \in Tiles : shown[k].data)
=============================================================================

--------------------------- MODULE ActivityIntake ---------------------------
(***************************************************************************)
(* How play time gets from the game to Discord: the events of a session,   *)
(* the Agent's event passes, Central's handlers and the activity outbox    *)
(* (NetworkLocal.lua, agent.py, event_processing.py,                       *)
(* activity_telemetry.py, activity.py).                                    *)
(*                                                                         *)
(* A connection opens a session, each minute played is an event, and the   *)
(* disconnect carries the number of the last minute, its watermark.        *)
(* Counting a minute is one transaction; the other handlers write several  *)
(* documents one after the other, so a request is a thread with a step.    *)
(* The Agent may stop waiting for a thread that goes on.                   *)
(*                                                                         *)
(* A WRONG variant that nothing uses stands before the definition it would *)
(* replace; PROJECT.json names the property that notices it.               *)
(***************************************************************************)
EXTENDS Naturals, FiniteSets

CONSTANTS
  Players,
  Sessions,      \* 1..n, in the order the game opens them
  Owner,         \* Owner[s]: the player of session s
  Threads,       \* request handlers of Central
  Hazards,       \* which of HazardNames this instance lets happen
  MaxMinutes,    \* bound on the minutes of a session
  MaxWorlds,     \* bound on world generations
  MaxFaults,     \* bound on timeouts, failed requests and stops together
  BatchSize,     \* event_batch_size: posts per event pass
  MaxLookahead,  \* MAX_EVENT_LOOKAHEAD: files looked at beyond them
  MaxAttempts,   \* max_attempts of the publisher
  Published,     \* kinds of card this instance follows to Discord
  NoThread, NoCard

(***************************************************************************)
(*   early_events   a player connects before Central has accepted the      *)
(*                  first snapshot of the world that is played             *)
(***************************************************************************)
HazardNames == {"early_events"}

ASSUME BoundAssumption ==
  /\ MaxMinutes \in Nat
  /\ MaxWorlds \in Nat \ {0}
  /\ MaxFaults \in Nat
  /\ BatchSize \in Nat \ {0}
  /\ MaxLookahead \in Nat
  /\ MaxAttempts \in Nat \ {0}
  /\ Published \subseteq {"joined", "left"}
  /\ Hazards \subseteq HazardNames
ASSUME SessionAssumption ==
  /\ Sessions \subseteq Nat
  /\ Owner \in [Sessions -> Players]

VARIABLES
  (* Game *)
  gameWorld,     \* world generation of the running savegame
  game,          \* game[s]: how far session s is
  minute,        \* minute[s]: its minuteSequence
  born,          \* born[s]: world it was opened in, 0 for none
  (* Mailbox *)
  mailbox,       \* event files
  quarantined,   \* event files moved away for good
  acknowledged,  \* events unlinked after a 200
  (* Agent *)
  pending,       \* events of this pass still to be posted
  blocked,       \* blocked_sessions of this pass
  attempted,     \* posts in this pass
  waiting,       \* the thread whose answer the Agent waits for
  (* Central *)
  activeWorld,
  request,       \* request[t]: the event thread t handles
  session,       \* session[s]: the player_activity_sessions row
  counted,       \* <<s, n>>: rows of player_activity_minutes
  aggregate,     \* aggregate[<<p, w>>]: connected_minutes
  processed,     \* events with a row in processed_server_events
  outbox,        \* outbox[c]: the activity_outbox row of card c
  (* Publisher and Discord *)
  inFlight,      \* the card delivered and not yet marked
  sent,          \* sent[c]: copies of card c in Discord
  faults

gameVars == <<gameWorld, game, minute, born>>
agentVars == <<pending, blocked, attempted, waiting>>
fileVars == <<mailbox, quarantined, acknowledged>>
rowVars == <<session, counted, aggregate, processed, outbox>>
publisherVars == <<inFlight, sent>>
vars == <<gameVars, fileVars, agentVars, activeWorld, request, rowVars, publisherVars, faults>>

Worlds == 1..MaxWorlds

Connect(s)       == [kind |-> "player_connected", session |-> s, number |-> 0]
Minute(s, n)     == [kind |-> "player_activity_minute", session |-> s, number |-> n]
Disconnect(s, n) == [kind |-> "player_disconnected", session |-> s, number |-> n]
Minutes == {Minute(s, n) : s \in Sessions, n \in 1..MaxMinutes}
Disconnects == {Disconnect(s, n) : s \in Sessions, n \in 0..MaxMinutes}
Events == {Connect(s) : s \in Sessions} \cup Minutes \cup Disconnects

Joined(s) == [about |-> "joined", session |-> s]
Left(s)   == [about |-> "left", session |-> s]
Cards == {Joined(s) : s \in Sessions} \cup {Left(s) : s \in Sessions}
ASSUME NullAssumption == NoThread \notin Threads /\ NoCard \notin Cards

NoRow == [state |-> "none", total |-> 0]
NoMessage == [status |-> "absent", total |-> 0, attempts |-> 0, historical |-> FALSE]
Idle == [step |-> "idle", event |-> Connect(0), total |-> 0]

Init ==
  /\ gameWorld = 1
  /\ game = [s \in Sessions |-> "new"]
  /\ minute = [s \in Sessions |-> 0]
  /\ born = [s \in Sessions |-> 0]
  /\ mailbox = {} /\ quarantined = {} /\ acknowledged = {}
  /\ pending = {} /\ blocked = {} /\ attempted = 0
  /\ waiting = NoThread
  /\ activeWorld = 1
  /\ request = [t \in Threads |-> Idle]
  /\ session = [s \in Sessions |-> NoRow]
  /\ counted = {}
  /\ aggregate = [q \in Players \X Worlds |-> 0]
  /\ processed = {}
  /\ outbox = [c \in Cards |-> NoMessage]
  /\ inFlight = NoCard
  /\ sent = [c \in Cards |-> 0]
  /\ faults = 0

Fault == faults < MaxFaults /\ faults' = faults + 1

-------------------------------------------------------------------------------
(* Game                                                                    *)

(* An event is lost when its file cannot be written.                       *)
Emit(e) == mailbox' \in {mailbox, mailbox \cup {e}}

PlayerConnects(s) ==
  /\ game[s] = "new"
  /\ \A r \in Sessions : r < s => game[r] # "new"
  /\ \A r \in Sessions : game[r] = "playing" => Owner[r] # Owner[s]
  /\ "early_events" \in Hazards \/ gameWorld = activeWorld
  /\ game' = [game EXCEPT ![s] = "playing"]
  /\ born' = [born EXCEPT ![s] = gameWorld]
  /\ Emit(Connect(s))
  /\ UNCHANGED <<gameWorld, minute, quarantined, acknowledged, agentVars, activeWorld, request,
                 rowVars, publisherVars, faults>>

(* A minute whose event cannot be written is not numbered.                 *)
MinutePasses(s) ==
  /\ game[s] = "playing"
  /\ minute[s] < MaxMinutes
  /\ minute' = [minute EXCEPT ![s] = @ + 1]
  /\ mailbox' = mailbox \cup {Minute(s, minute[s] + 1)}
  /\ UNCHANGED <<gameWorld, game, born, quarantined, acknowledged, agentVars, activeWorld, request,
                 rowVars, publisherVars, faults>>

PlayerDisconnects(s) ==
  /\ game[s] = "playing"
  /\ game' = [game EXCEPT ![s] = "left"]
  /\ Emit(Disconnect(s, minute[s]))
  /\ UNCHANGED <<gameWorld, minute, born, quarantined, acknowledged, agentVars, activeWorld,
                 request, rowVars, publisherVars, faults>>

(* A restart forgets the sessions, perhaps with another savegame.          *)
GameRestart(w) ==
  /\ w \in {gameWorld, gameWorld + 1} \cap Worlds
  /\ w # gameWorld \/ \E s \in Sessions : game[s] = "playing"
  /\ gameWorld' = w
  /\ game' = [s \in Sessions |-> IF game[s] = "playing" THEN "lost" ELSE game[s]]
  /\ UNCHANGED <<minute, born, fileVars, agentVars, activeWorld, request, rowVars, publisherVars,
                 faults>>

-------------------------------------------------------------------------------
(* Agent                                                                   *)

Priority(e) == CASE e.kind = "player_connected" -> 0
                 [] e.kind = "player_activity_minute" -> 1
                 [] e.kind = "player_disconnected" -> 2
SortsBefore(e, f) ==
  /\ e.session = f.session
  /\ \/ Priority(e) < Priority(f)
     \/ Priority(e) = Priority(f) /\ e.number < f.number

Postable == {e \in pending : e.session \notin blocked}
PassOver == waiting = NoThread /\ (attempted = BatchSize \/ Postable = {})

(* A window with a disconnect is widened by the minutes of that session    *)
(* found among the next MaxLookahead files.                                *)
NoLookahead(window, ahead) == {}
Lookahead(window, ahead) ==
  {e \in ahead : /\ e.kind = "player_activity_minute"
                   /\ \E f \in window : /\ f.kind = "player_disconnected"
                                        /\ f.session = e.session
                                        /\ e.number <= f.number}

(* The first limit files by name.  Names do not follow the order of the    *)
(* events ("10" sorts before "9"), so these may be any files.              *)
FirstFiles(files, limit) ==
  {some \in SUBSET files : \/ Cardinality(some) = limit
                           \/ Cardinality(files) < limit /\ some = files}

StartPass ==
  /\ PassOver
  /\ mailbox # {}
  /\ \E window \in FirstFiles(mailbox, BatchSize) :
       \E ahead \in FirstFiles(mailbox \ window, MaxLookahead) :
         pending' = window \cup Lookahead(window, ahead)
  /\ blocked' = {}
  /\ attempted' = 0
  /\ UNCHANGED <<gameVars, fileVars, waiting, activeWorld, request, rowVars, publisherVars, faults>>

PostEvent(t, e) ==
  /\ waiting = NoThread
  /\ attempted < BatchSize
  /\ request[t] = Idle
  /\ e \in Postable
  /\ \A f \in Postable : ~SortsBefore(f, e)
  /\ pending' = pending \ {e}
  /\ attempted' = attempted + 1
  /\ waiting' = t
  /\ request' = [request EXCEPT ![t] = [step |-> "admit", event |-> e, total |-> 0]]
  /\ UNCHANGED <<gameVars, fileVars, blocked, activeWorld, rowVars, publisherVars, faults>>

(* What a waiting Agent does with an answer (remove_or_quarantine).        *)
AcceptsWaiting(status) == status \in {200, 409}
Accepted(status) == status = 200
QuarantinesErrors(status) == status \in {404, 500}
Rejected(status) == status = 404

Answer(t, status) ==
  LET e == request[t].event
      heard == waiting = t
  IN /\ request' = [request EXCEPT ![t] = Idle]
     /\ waiting' = IF heard THEN NoThread ELSE waiting
     /\ mailbox' = IF heard /\ (Accepted(status) \/ Rejected(status)) THEN mailbox \ {e} ELSE mailbox
     /\ acknowledged' = IF heard /\ Accepted(status) THEN acknowledged \cup {e} ELSE acknowledged
     /\ quarantined' = IF heard /\ Rejected(status) THEN quarantined \cup {e} ELSE quarantined
     /\ blocked' = IF heard /\ ~Accepted(status) /\ ~Rejected(status)
                   THEN blocked \cup {e.session} ELSE blocked
     /\ UNCHANGED <<pending, attempted>>

(* The answer takes too long or is lost; the thread goes on.               *)
Timeout ==
  /\ Fault
  /\ waiting # NoThread
  /\ blocked' = blocked \cup {request[waiting].event.session}
  /\ waiting' = NoThread
  /\ UNCHANGED <<gameVars, fileVars, pending, attempted, activeWorld, request, rowVars,
                 publisherVars>>

AgentStops ==
  /\ Fault
  /\ waiting # NoThread \/ pending # {}
  /\ pending' = {} /\ blocked' = {} /\ attempted' = 0
  /\ waiting' = NoThread
  /\ UNCHANGED <<gameVars, fileVars, activeWorld, request, rowVars, publisherVars>>

-------------------------------------------------------------------------------
(* Central: EventProcessor.process                                         *)

At(t, step) == request[t].step = step
Event(t) == request[t].event
Goto(t, step) == /\ request' = [request EXCEPT ![t].step = step]
                 /\ UNCHANGED <<agentVars, fileVars>>
GotoWith(t, step, total) ==
  /\ request' = [request EXCEPT ![t] = [@ EXCEPT !.step = step, !.total = total]]
  /\ UNCHANGED <<agentVars, fileVars>>

(* A processed disconnect is handled again, to repair its card.            *)
Duplicate(e) == e \in processed /\ e.kind # "player_disconnected"

Admit(t) ==
  LET e == Event(t)
  IN /\ At(t, "admit")
     /\ \/ born[e.session] # activeWorld /\ Answer(t, 404)
        \/ born[e.session] = activeWorld /\ Duplicate(e) /\ Answer(t, 200)
        \/ /\ born[e.session] = activeWorld /\ ~Duplicate(e)
           /\ Goto(t, CASE e.kind = "player_connected" -> "observe"
                        [] e.kind = "player_activity_minute" -> "count"
                        [] e.kind = "player_disconnected" -> "lookup")
     /\ UNCHANGED rowVars

(* ActivitySessionProcessor.connected: an upsert, then the other sessions. *)
Reopened(row) == [row EXCEPT !.state = "active"]
Observed(row) == IF row.state = "none" THEN [row EXCEPT !.state = "active"] ELSE row
Observe(t) ==
  /\ At(t, "observe")
  /\ session' = [session EXCEPT ![Event(t).session] = Observed(@)]
  /\ Goto(t, "reconcile")
  /\ UNCHANGED <<counted, aggregate, processed, outbox>>

Others(s) == {r \in Sessions \ {s} : Owner[r] = Owner[s] /\ born[r] = born[s]}
Reconcile(t) ==
  /\ At(t, "reconcile")
  /\ session' = [r \in Sessions |->
                   IF r \in Others(Event(t).session) /\ session[r].state = "active"
                   THEN [session[r] EXCEPT !.state = "reconciled"] ELSE session[r]]
  /\ Goto(t, "enqueue")
  /\ UNCHANGED <<counted, aggregate, processed, outbox>>

(* ActivityTelemetryProcessor.process, one transaction.                    *)
NeverCounted(s, n) == FALSE
AlreadyCounted(s, n) == <<s, n>> \in counted
PlusMinute(row) == [Observed(row) EXCEPT !.total = @ + 1]
Count(t) ==
  LET s == Event(t).session
      n == Event(t).number
  IN /\ At(t, "count")
     /\ IF AlreadyCounted(s, n) THEN UNCHANGED <<counted, aggregate, session>>
        ELSE /\ counted' = counted \cup {<<s, n>>}
             /\ aggregate' = [aggregate EXCEPT ![<<Owner[s], born[s]>>] = @ + 1]
             /\ session' = [session EXCEPT ![s] = PlusMinute(@)]
     /\ Goto(t, "mark")
     /\ UNCHANGED <<processed, outbox>>

(* ActivitySessionProcessor.disconnected.                                  *)
Lookup(t) ==
  LET row == session[Event(t).session]
  IN /\ At(t, "lookup")
     /\ IF row.state = "completed" THEN GotoWith(t, "enqueue", row.total) ELSE Goto(t, "check")
     /\ UNCHANGED rowVars

Covered(e) == \A n \in 1..e.number : <<e.session, n>> \in counted
Check(t) ==
  /\ At(t, "check")
  /\ IF Covered(Event(t)) THEN Goto(t, "complete") ELSE Answer(t, 409)
  /\ UNCHANGED rowVars

Complete(t) ==
  /\ At(t, "complete")
  /\ session' = [session EXCEPT ![Event(t).session].state = "completed"]
  /\ Goto(t, "summarize")
  /\ UNCHANGED <<counted, aggregate, processed, outbox>>

Summarize(t) ==
  /\ At(t, "summarize")
  /\ GotoWith(t, "enqueue", session[Event(t).session].total)
  /\ UNCHANGED rowVars

(* ActivityOutbox.enqueue inserts once per event.                          *)
PendingMessage(total) ==
  [status |-> "pending", total |-> total, attempts |-> 0, historical |-> FALSE]
CardOf(e) == IF e.kind = "player_connected" THEN Joined(e.session) ELSE Left(e.session)
Enqueue(t) ==
  LET c == CardOf(Event(t))
  IN /\ At(t, "enqueue")
     /\ outbox' = IF outbox[c].status # "absent" THEN outbox
                  ELSE [outbox EXCEPT ![c] = PendingMessage(request[t].total)]
     /\ Goto(t, "mark")
     /\ UNCHANGED <<session, counted, aggregate, processed>>

Mark(t) ==
  /\ At(t, "mark")
  /\ processed' = processed \cup {Event(t)}
  /\ Answer(t, 200)
  /\ UNCHANGED <<session, counted, aggregate, outbox>>

ThreadStep(t) ==
  /\ \/ Admit(t) \/ Observe(t) \/ Reconcile(t) \/ Count(t) \/ Lookup(t) \/ Check(t)
     \/ Complete(t) \/ Summarize(t) \/ Enqueue(t) \/ Mark(t)
  /\ UNCHANGED <<gameVars, activeWorld, publisherVars, faults>>

(* An exception answers 500.                                               *)
RequestFails(t) ==
  /\ Fault
  /\ request[t] # Idle
  /\ Answer(t, 500)
  /\ UNCHANGED <<gameVars, activeWorld, rowVars, publisherVars>>

(* The snapshot of another world archives the rows of the old one.         *)
ActivateWorld ==
  /\ activeWorld # gameWorld
  /\ activeWorld' = gameWorld
  /\ outbox' = [c \in Cards |-> IF outbox[c].status = "absent" THEN outbox[c]
                                ELSE [outbox[c] EXCEPT !.historical = @ \/ born[c.session] # gameWorld]]
  /\ UNCHANGED <<gameVars, fileVars, agentVars, request, session, counted, aggregate, processed,
                 publisherVars, faults>>

-------------------------------------------------------------------------------
(* Publisher: ActivityPublisher                                            *)

(* A cycle reads the pending rows of the active world and publishes them   *)
(* one by one.  What it read before is not kept: a card archived since     *)
(* then is sent as if it had been sent just before.                        *)
AnyCurrent(c) == outbox[c].status # "absent" /\ ~outbox[c].historical
Due(c) == outbox[c].status = "pending" /\ ~outbox[c].historical
Turn(c) == inFlight = NoCard /\ c.about \in Published /\ Due(c)

Deliver(c) ==
  /\ Turn(c)
  /\ inFlight' = c
  /\ sent' = [sent EXCEPT ![c] = @ + 1]
  /\ UNCHANGED <<gameVars, fileVars, agentVars, activeWorld, request, rowVars, faults>>

OnlyInFlight(row) ==
  /\ outbox' = [outbox EXCEPT ![inFlight] = row]
  /\ inFlight' = NoCard
  /\ UNCHANGED <<gameVars, fileVars, agentVars, activeWorld, request, session, counted, aggregate,
                 processed, sent>>

MarkPublished ==
  /\ inFlight # NoCard
  /\ OnlyInFlight([outbox[inFlight] EXCEPT !.status = "published", !.attempts = @ + 1])
  /\ UNCHANGED faults

(* _record_failure; a missing channel or permission is permanent.          *)
AfterFailure(row, permanent) ==
  [row EXCEPT !.attempts = @ + 1,
              !.status = IF permanent \/ row.attempts + 1 >= MaxAttempts
                         THEN "failed" ELSE "pending"]

DeliveryFails(c, permanent) ==
  /\ Turn(c)
  /\ outbox' = [outbox EXCEPT ![c] = AfterFailure(@, permanent)]
  /\ UNCHANGED <<gameVars, fileVars, agentVars, activeWorld, request, session, counted, aggregate,
                 processed, publisherVars, faults>>

(* Discord has the card, but its answer or the mark is lost.               *)
MarkFails ==
  /\ Fault
  /\ inFlight # NoCard
  /\ OnlyInFlight(AfterFailure(outbox[inFlight], FALSE))

PublisherStops ==
  /\ Fault
  /\ inFlight # NoCard
  /\ OnlyInFlight(outbox[inFlight])

PublisherStep ==
  \/ \E c \in Cards : Deliver(c) \/ \E permanent \in BOOLEAN : DeliveryFails(c, permanent)
  \/ MarkPublished

-------------------------------------------------------------------------------
AgentStep == StartPass \/ \E t \in Threads, e \in Events : PostEvent(t, e)

Next ==
  \/ \E s \in Sessions : PlayerConnects(s) \/ MinutePasses(s) \/ PlayerDisconnects(s)
  \/ \E w \in Worlds : GameRestart(w)
  \/ AgentStep \/ Timeout \/ AgentStops
  \/ \E t \in Threads : ThreadStep(t) \/ RequestFails(t)
  \/ ActivateWorld
  \/ PublisherStep \/ MarkFails \/ PublisherStops

Spec == Init /\ [][Next]_vars

(* The Agent's loop, Central's threads and the publisher's loop run for    *)
(* ever; players, restarts and faults owe nothing.                         *)
LiveSpec ==
  /\ Spec
  /\ WF_vars(AgentStep)
  /\ \A t \in Threads : WF_vars(ThreadStep(t))
  /\ WF_vars(PublisherStep)
-------------------------------------------------------------------------------
(* Properties                                                              *)

(* Documents, files and threads keep their types.                          *)
TypeOK ==
  /\ gameWorld \in Worlds /\ activeWorld \in Worlds
  /\ game \in [Sessions -> {"new", "playing", "left", "lost"}]
  /\ minute \in [Sessions -> 0..MaxMinutes]
  /\ born \in [Sessions -> {0} \cup Worlds]
  /\ mailbox \subseteq Events /\ quarantined \subseteq Events /\ acknowledged \subseteq Events
  /\ pending \subseteq Events /\ blocked \subseteq Sessions
  /\ attempted \in 0..BatchSize
  /\ waiting \in Threads \cup {NoThread}
  /\ request \in [Threads -> {Idle} \cup
       [step : {"admit", "observe", "reconcile", "count", "lookup", "check", "complete",
                "summarize", "enqueue", "mark"}, event : Events, total : Nat]]
  /\ session \in [Sessions -> [state : {"none", "active", "reconciled", "completed"}, total : Nat]]
  /\ counted \subseteq Sessions \X (1..MaxMinutes)
  /\ aggregate \in [Players \X Worlds -> Nat]
  /\ processed \subseteq Events
  /\ outbox \in [Cards -> [status : {"absent", "pending", "published", "failed"}, total : Nat,
                           attempts : 0..MaxAttempts, historical : BOOLEAN]]
  /\ inFlight \in Cards \cup {NoCard}
  /\ sent \in [Cards -> Nat]
  /\ faults \in 0..MaxFaults

(* A minute counts once in its session and in the player's total, however  *)
(* often and by however many threads it is delivered.                      *)
MinutesCountedOnce ==
  /\ \A s \in Sessions : session[s].total = Cardinality({m \in counted : m[1] = s})
  /\ \A p \in Players, w \in Worlds :
       aggregate[<<p, w>>] = Cardinality({m \in counted : Owner[m[1]] = p /\ born[m[1]] = w})

(* The card of a disconnect shows every minute the game numbered in that   *)
(* session, although its minutes travel in other files and in any order.   *)
CardCountsTheSession ==
  \A s \in Sessions : outbox[Left(s)].status # "absent" =>
    game[s] = "left" /\ outbox[Left(s)].total = minute[s]

(* Played time: the totals, the minutes and the cards all say the same.    *)
CountsAgree == MinutesCountedOnce /\ CardCountsTheSession

(* What the Agent has unlinked on a 200 is in the database: a stop between *)
(* an event's effect, its card and its marker loses none of them.          *)
AcknowledgedIsDurable ==
  \A e \in acknowledged :
    CASE e.kind = "player_connected" ->
           session[e.session].state # "none" /\ outbox[Joined(e.session)].status # "absent"
      [] e.kind = "player_activity_minute" -> <<e.session, e.number>> \in counted
      [] e.kind = "player_disconnected" ->
           session[e.session].state = "completed" /\ outbox[Left(e.session)].status # "absent"

(* Only a replaced savegame's events are given up.                         *)
OnlyHistoricalQuarantined == \A e \in quarantined : born[e.session] < gameWorld

(* Discord repeats a card at most once per lost answer or stop.            *)
OneCopyPerFault == \A c \in Cards : sent[c] <= 1 + faults

(* Delivery from the mailbox to Discord: nothing the Agent deleted is lost *)
(* and nothing is repeated without a fault.                                *)
DeliveryHolds == AcknowledgedIsDurable /\ OneCopyPerFault

(* Played time as if the game told the database itself: what the files,    *)
(* threads and handlers together come to.                                  *)
Time == INSTANCE PlayTime WITH
  begun <- {s \in Sessions : game[s] # "new"}, world <- born, played <- minute,
  over <- {s \in Sessions : game[s] = "left"},
  total <- [s \in Sessions |-> session[s].total], hours <- aggregate,
  closed <- {s \in Sessions : session[s].state = "completed"},
  reported <- {<<s, outbox[Left(s)].total>> : s \in {r \in Sessions : outbox[Left(r)].status # "absent"}}

(* Posts in any order, repeated and handled by threads that overlap, count *)
(* and report what was played: a minute once, for its player and world, a  *)
(* session closed when it is left and complete and then neither reopened,  *)
(* reconciled nor counted on, and one card, with every minute.             *)
TimeIsKept == Time!Spec

(* A disconnect waiting in the mailbox gets its card, unless its savegame  *)
(* is replaced first.                                                      *)
DisconnectIsReported ==
  \A s \in Sessions :
    (\E n \in 0..MaxMinutes : Disconnect(s, n) \in mailbox)
      ~> (outbox[Left(s)].status # "absent" \/ activeWorld # born[s])

(* Every card is published or given up, unless its world is replaced.      *)
CardsSettle ==
  \A c \in {d \in Cards : d.about \in Published} : (outbox[c].status = "pending")
    ~> (outbox[c].status \in {"published", "failed"} \/ outbox[c].historical)

(* Mailbox and outbox both come to rest.                                   *)
EventsSettle == DisconnectIsReported /\ CardsSettle

(***************************************************************************)
(* Why nothing is lost, as an inductive invariant.  Every event anybody    *)
(* handles is genuine: the game wrote it, and a session that was left      *)
(* numbers no further minutes.  A thread that completes a session has seen *)
(* all of its minutes counted, so a completed row can never change again,  *)
(* and what a thread is about to put on a card is final.                   *)
(***************************************************************************)
Genuine(e) ==
  CASE e.kind = "player_connected" -> game[e.session] # "new"
    [] e.kind = "player_activity_minute" ->
         game[e.session] # "new" /\ e.number <= minute[e.session]
    [] e.kind = "player_disconnected" ->
         game[e.session] = "left" /\ e.number = minute[e.session]

Completed(s) == session[s].state = "completed"
HasCard(c) == outbox[c].status # "absent"
Durable(e) ==
  CASE e.kind = "player_connected" ->
         session[e.session].state # "none" /\ HasCard(Joined(e.session))
    [] e.kind = "player_activity_minute" -> <<e.session, e.number>> \in counted
    [] e.kind = "player_disconnected" -> Completed(e.session) /\ HasCard(Left(e.session))

ThreadInv(t) ==
  LET e == Event(t)
  IN request[t] = Idle \/
     /\ Genuine(e)
     /\ At(t, "observe") => e.kind = "player_connected"
     /\ At(t, "reconcile") => e.kind = "player_connected" /\ session[e.session].state # "none"
     /\ At(t, "count") => e.kind = "player_activity_minute"
     /\ (At(t, "lookup") \/ At(t, "check")) => e.kind = "player_disconnected"
     /\ At(t, "complete") => e.kind = "player_disconnected" /\ Covered(e)
     /\ At(t, "summarize") => e.kind = "player_disconnected" /\ Completed(e.session)
     /\ At(t, "enqueue") =>
          \/ e.kind = "player_connected" /\ session[e.session].state # "none"
          \/ /\ e.kind = "player_disconnected" /\ Completed(e.session)
             /\ request[t].total = session[e.session].total
     /\ At(t, "mark") => Durable(e)

IntakeInv ==
  /\ \A e \in mailbox \cup pending : Genuine(e)
  /\ \A e \in acknowledged : Durable(e)
  /\ \A e \in processed : Durable(e)
  /\ \A t \in Threads : ThreadInv(t)
  /\ \A s \in Sessions : game[s] = "new" => minute[s] = 0
  /\ \A s \in Sessions : Completed(s) =>
       game[s] = "left" /\ \A n \in 1..minute[s] : <<s, n>> \in counted
  /\ \A s \in Sessions : HasCard(Left(s)) =>
       Completed(s) /\ outbox[Left(s)].total = session[s].total
  /\ \A m \in counted : m[2] <= minute[m[1]]

(* A row's attempts stay below their limit while it may be tried again.    *)
OutboxInv ==
  /\ \A c \in Cards : outbox[c].status = "pending" => outbox[c].attempts < MaxAttempts
  /\ inFlight # NoCard => inFlight \in Cards /\ outbox[inFlight].status = "pending"

===============================================================================

------------------------ MODULE ActivityIntakeProofs ------------------------
(***************************************************************************)
(* Theorems about ActivityIntake for all players, sessions, threads and    *)
(* bounds.  They hold with early events and any faults; only               *)
(* OnlyHistoricalQuarantined needs early events excluded.                  *)
(*                                                                         *)
(* Three inductive invariants: TypeInv, IntakeInv (why nothing is lost)    *)
(* and CountInv (why nothing counts twice).                                *)
(***************************************************************************)
EXTENDS ActivityIntake, FiniteSetTheorems, FunctionTheorems, TLAPS

Steps == {"admit", "observe", "reconcile", "count", "lookup", "check", "complete",
          "summarize", "enqueue", "mark"}
Requests == [step : Steps, event : Events, total : Nat]
SessionRows == [state : {"none", "active", "reconciled", "completed"}, total : Nat]
OutboxRows == [status : {"absent", "pending", "published", "failed"}, total : Nat,
               attempts : 0..MaxAttempts, historical : BOOLEAN]

(* TypeOK by the groups of variables that actions change together.         *)
GameType ==
  /\ gameWorld \in Worlds /\ activeWorld \in Worlds
  /\ game \in [Sessions -> {"new", "playing", "left", "lost"}]
  /\ minute \in [Sessions -> 0..MaxMinutes]
  /\ born \in [Sessions -> {0} \cup Worlds]
  /\ faults \in 0..MaxFaults
FileType ==
  /\ mailbox \subseteq Events /\ quarantined \subseteq Events /\ acknowledged \subseteq Events
  /\ pending \subseteq Events /\ blocked \subseteq Sessions
  /\ attempted \in 0..BatchSize
  /\ waiting \in Threads \cup {NoThread}
  /\ request \in [Threads -> {Idle} \cup Requests]
RowType ==
  /\ session \in [Sessions -> SessionRows]
  /\ counted \subseteq Sessions \X (1..MaxMinutes)
  /\ aggregate \in [Players \X Worlds -> Nat]
  /\ processed \subseteq Events
CardType ==
  /\ outbox \in [Cards -> OutboxRows]
  /\ inFlight \in Cards \cup {NoCard}
  /\ sent \in [Cards -> Nat]
(* Only a minute is ever counted, and the Agent waits for a busy thread.   *)
HandlersFit ==
  /\ \A t \in Threads : At(t, "count") => Event(t).kind = "player_activity_minute"
  /\ waiting # NoThread => request[waiting] # Idle

TypeInv == TypeOK /\ OutboxInv /\ HandlersFit

LEMMA TypeParts == TypeOK <=> GameType /\ FileType /\ RowType /\ CardType
BY DEF TypeOK, GameType, FileType, RowType, CardType, Requests, Steps, SessionRows, OutboxRows

LEMMA TypePartsNext == TypeOK' <=> GameType' /\ FileType' /\ RowType' /\ CardType'
BY DEF TypeOK, GameType, FileType, RowType, CardType, Requests, Steps, SessionRows, OutboxRows

-------------------------------------------------------------------------------
(* Events and cards                                                        *)

LEMMA EventKinds ==
  ASSUME NEW e \in Events
  PROVE  /\ e.session \in Sessions
         /\ e.number \in 0..MaxMinutes
         /\ e.kind \in {"player_connected", "player_activity_minute", "player_disconnected"}
         /\ e.kind = "player_connected" => e = Connect(e.session)
         /\ e.kind = "player_activity_minute" =>
              e.number \in 1..MaxMinutes /\ e = Minute(e.session, e.number)
         /\ e.kind = "player_disconnected" => e = Disconnect(e.session, e.number)
BY BoundAssumption, SMT DEF Events, Minutes, Disconnects, Connect, Minute, Disconnect

LEMMA EventFields ==
  ASSUME NEW s \in Sessions, NEW n \in 0..MaxMinutes
  PROVE  /\ Connect(s) \in Events /\ Connect(s).kind = "player_connected"
         /\ Connect(s).session = s
         /\ n # 0 => Minute(s, n) \in Events
         /\ Minute(s, n).kind = "player_activity_minute"
         /\ Minute(s, n).session = s /\ Minute(s, n).number = n
         /\ Disconnect(s, n) \in Events /\ Disconnect(s, n).kind = "player_disconnected"
         /\ Disconnect(s, n).session = s /\ Disconnect(s, n).number = n
<1>1. n # 0 => n \in 1..MaxMinutes BY BoundAssumption
<1> QED BY <1>1 DEF Events, Minutes, Disconnects, Connect, Minute, Disconnect

LEMMA CardFields ==
  /\ \A s \in Sessions : Joined(s) \in Cards /\ Left(s) \in Cards
  /\ \A s \in Sessions : Joined(s).about = "joined" /\ Joined(s).session = s
  /\ \A s \in Sessions : Left(s).about = "left" /\ Left(s).session = s
  /\ \A c \in Cards : c.session \in Sessions
<1>1. \A s \in Sessions : Joined(s).about = "joined" /\ Joined(s).session = s BY DEF Joined
<1>2. \A s \in Sessions : Left(s).about = "left" /\ Left(s).session = s BY DEF Left
<1>3. \A s \in Sessions : Joined(s) \in Cards /\ Left(s) \in Cards BY DEF Cards
<1>4. \A c \in Cards : c.session \in Sessions BY <1>1, <1>2 DEF Cards
<1> QED BY <1>1, <1>2, <1>3, <1>4

LEMMA CardsDiffer ==
  ASSUME NEW s \in Sessions, NEW r \in Sessions
  PROVE  /\ Joined(s) # Left(r)
         /\ Joined(s) = Joined(r) => s = r
         /\ Left(s) = Left(r) => s = r
<1>1. Joined(s).about # Left(r).about BY CardFields
<1>2. Joined(s) = Joined(r) => Joined(s).session = Joined(r).session OBVIOUS
<1>3. Left(s) = Left(r) => Left(s).session = Left(r).session OBVIOUS
<1> QED BY <1>1, <1>2, <1>3, CardFields

(* A thread between two steps handles an event.                            *)
LEMMA Handles ==
  ASSUME FileType, NEW t \in Threads, request[t] # Idle
  PROVE  /\ request[t] \in Requests /\ Event(t) \in Events
         /\ Event(t).session \in Sessions /\ request[t].total \in Nat
<1>1. request[t] \in Requests BY DEF FileType
<1> QED BY <1>1, EventKinds DEF Requests, Event

LEMMA Busy ==
  ASSUME NEW t, NEW step \in Steps, At(t, step)
  PROVE  request[t] # Idle
BY DEF At, Idle, Steps

-------------------------------------------------------------------------------
(* Type correctness                                                        *)

(* An answer ends the thread; what it does with the file follows.          *)
LEMMA AnswerType ==
  ASSUME FileType, HandlersFit, NEW t \in Threads, request[t] # Idle, NEW status,
         Answer(t, status)
  PROVE  FileType' /\ HandlersFit'
<1> DEFINE e == request[t].event
<1>1. e \in Events /\ e.session \in Sessions
  BY Handles DEF Event
<1>2. request' = [request EXCEPT ![t] = Idle]
  BY DEF Answer
<1>3. request' \in [Threads -> {Idle} \cup Requests]
  BY <1>2 DEF FileType
<1>4. FileType'
  BY <1>1, <1>3 DEF FileType, Answer
<1>5. \A k \in Threads : At(k, "count")' => Event(k)'.kind = "player_activity_minute"
  BY <1>2 DEF FileType, HandlersFit, At, Event, Idle
<1>6. waiting' # NoThread => waiting' # t /\ waiting' = waiting
  BY DEF Answer
<1>7. waiting' # NoThread => request'[waiting'] # Idle
  BY <1>2, <1>6 DEF FileType, HandlersFit
<1> QED BY <1>4, <1>5, <1>7 DEF HandlersFit

LEMMA GotoType ==
  ASSUME FileType, HandlersFit, NEW t \in Threads, request[t] # Idle, NEW step \in Steps,
         step = "count" => Event(t).kind = "player_activity_minute",
         Goto(t, step)
  PROVE  FileType' /\ HandlersFit'
<1>1. [request[t] EXCEPT !.step = step] \in Requests
  BY Handles DEF Requests
<1>2. request' = [request EXCEPT ![t] = [request[t] EXCEPT !.step = step]]
  BY DEF Goto, FileType
<1>3. request' \in [Threads -> {Idle} \cup Requests]
  BY <1>1, <1>2 DEF FileType
<1>4. request[t] \in Requests
  BY Handles
<1>5. \A k \in Threads : At(k, "count")' => Event(k)'.kind = "player_activity_minute"
  BY <1>2, <1>4 DEF FileType, HandlersFit, At, Event, Requests
<1>6. request'[t].step = step /\ Idle.step \notin Steps
  BY <1>2, <1>4 DEF FileType, Idle, Requests, Steps
<1>7. waiting' # NoThread => request'[waiting'] # Idle
  BY <1>2, <1>6 DEF FileType, HandlersFit, Goto, agentVars
<1> QED BY <1>3, <1>5, <1>7 DEF FileType, HandlersFit, Goto, agentVars, fileVars

LEMMA GotoWithType ==
  ASSUME FileType, HandlersFit, NEW t \in Threads, request[t] # Idle,
         NEW step \in Steps \ {"count"}, NEW total \in Nat, GotoWith(t, step, total)
  PROVE  FileType' /\ HandlersFit'
<1>1. [request[t] EXCEPT !.step = step, !.total = total] \in Requests
  BY Handles DEF Requests
<1>2. request' = [request EXCEPT ![t] = [request[t] EXCEPT !.step = step, !.total = total]]
  BY DEF GotoWith, FileType
<1>3. request' \in [Threads -> {Idle} \cup Requests]
  BY <1>1, <1>2 DEF FileType
<1>4. request[t] \in Requests
  BY Handles
<1>5. \A k \in Threads : At(k, "count")' => Event(k)'.kind = "player_activity_minute"
  BY <1>2, <1>4 DEF FileType, HandlersFit, At, Event, Requests
<1>6. request'[t].step = step /\ Idle.step \notin Steps
  BY <1>2, <1>4 DEF FileType, Idle, Requests, Steps
<1>7. waiting' # NoThread => request'[waiting'] # Idle
  BY <1>2, <1>6 DEF FileType, HandlersFit, GotoWith, agentVars
<1> QED BY <1>3, <1>5, <1>7 DEF FileType, HandlersFit, GotoWith, agentVars, fileVars

LEMMA ObservedType ==
  ASSUME NEW row \in SessionRows
  PROVE  /\ Observed(row) \in SessionRows
         /\ row.state # "none" => Observed(row) = row
         /\ Observed(row).state # "none"
         /\ Observed(row).total = row.total
BY DEF Observed, SessionRows

LEMMA PlusMinuteType ==
  ASSUME NEW row \in SessionRows
  PROVE  PlusMinute(row) \in SessionRows /\ PlusMinute(row).total = row.total + 1
BY ObservedType DEF PlusMinute, SessionRows

(* Every step of a handler leaves the types of all documents.              *)
LEMMA ThreadType ==
  ASSUME TypeInv, NEW t \in Threads, ThreadStep(t)
  PROVE  FileType' /\ HandlersFit' /\ RowType' /\ CardType' /\ OutboxInv'
<1> DEFINE s == Event(t).session
<1>0. FileType /\ RowType /\ CardType /\ HandlersFit /\ OutboxInv
  BY TypeParts DEF TypeInv
<1>1. request[t] # Idle
  BY Busy DEF ThreadStep, Admit, Observe, Reconcile, Count, Lookup, Check, Complete, Summarize,
     Enqueue, Mark, Steps
<1>2. Event(t) \in Events /\ s \in Sessions /\ request[t].total \in Nat
  BY <1>0, <1>1, Handles
<1>3. session[s] \in SessionRows /\ session[s].total \in Nat
  BY <1>0, <1>2 DEF RowType, SessionRows
<1>4. ASSUME UNCHANGED <<outbox, inFlight, sent>> PROVE CardType' /\ OutboxInv'
  BY <1>0, <1>4 DEF CardType, OutboxInv
<1>5. UNCHANGED <<inFlight, sent>>
  BY DEF ThreadStep, publisherVars
<1>6. CASE Admit(t)
  <2>1. RowType' /\ UNCHANGED outbox
    BY <1>0, <1>6 DEF Admit, RowType, rowVars
  <2>2. ASSUME NEW step, step = CASE Event(t).kind = "player_connected" -> "observe"
                        [] Event(t).kind = "player_activity_minute" -> "count"
                        [] Event(t).kind = "player_disconnected" -> "lookup"
        PROVE step \in Steps /\ (step = "count" => Event(t).kind = "player_activity_minute")
    BY <1>2, <2>2, EventKinds DEF Steps
  <2>3. FileType' /\ HandlersFit'
    BY <1>0, <1>1, <1>6, <2>2, AnswerType, GotoType DEF Admit
  <2> QED BY <1>4, <1>5, <2>1, <2>3
<1>7. CASE Observe(t)
  <2>1. FileType' /\ HandlersFit'
    BY <1>0, <1>1, <1>7, GotoType DEF Observe, Steps
  <2>2. session' = [session EXCEPT ![s] = Observed(session[s])]
    BY <1>7 DEF Observe
  <2>3. RowType' /\ UNCHANGED outbox
    BY <1>0, <1>3, <1>7, <2>2, ObservedType DEF Observe, RowType
  <2> QED BY <1>4, <1>5, <2>1, <2>3
<1>8. CASE Reconcile(t)
  <2>1. FileType' /\ HandlersFit'
    BY <1>0, <1>1, <1>8, GotoType DEF Reconcile, Steps
  <2>2. \A row \in SessionRows : [row EXCEPT !.state = "reconciled"] \in SessionRows
    BY DEF SessionRows
  <2>3. RowType' /\ UNCHANGED outbox
    BY <1>0, <1>8, <2>2 DEF Reconcile, RowType
  <2> QED BY <1>4, <1>5, <2>1, <2>3
<1>9. CASE Count(t)
  <2>1. FileType' /\ HandlersFit'
    BY <1>0, <1>1, <1>9, GotoType DEF Count, Steps
  <2>2. UNCHANGED <<processed, outbox>>
    BY <1>9 DEF Count
  <2>3. RowType'
    <3>1. CASE UNCHANGED <<counted, aggregate, session>>
      BY <1>0, <2>2, <3>1 DEF RowType
    <3>2. CASE ~UNCHANGED <<counted, aggregate, session>>
      <4> DEFINE q == <<Owner[s], born[s]>>
                 new == PlusMinute(session[s])
      <4>1. /\ counted' = counted \cup {<<s, Event(t).number>>}
            /\ aggregate' = [aggregate EXCEPT ![q] = aggregate[q] + 1]
            /\ session' = [session EXCEPT ![s] = new]
        BY <1>0, <1>9, <3>2 DEF Count, RowType
      <4>2. Event(t).number \in 1..MaxMinutes
        BY <1>0, <1>2, <1>9, EventKinds DEF HandlersFit, Count
      <4>4. new \in SessionRows
        BY <1>3, PlusMinuteType
      <4> HIDE DEF q, new
      <4>5. session' \in [Sessions -> SessionRows]
        BY <1>0, <4>1, <4>4 DEF RowType
      <4>6. aggregate' \in [Players \X Worlds -> Nat]
        <5>1. CASE q \in Players \X Worlds
          BY <1>0, <4>1, <5>1 DEF RowType
        <5>2. CASE q \notin Players \X Worlds
          BY <1>0, <4>1, <5>2 DEF RowType
        <5> QED BY <5>1, <5>2
      <4> QED BY <1>0, <1>2, <2>2, <4>1, <4>2, <4>5, <4>6 DEF RowType
    <3> QED BY <3>1, <3>2
  <2> QED BY <1>4, <1>5, <2>1, <2>2, <2>3
<1>10. CASE Lookup(t)
  <2>1. FileType' /\ HandlersFit'
    BY <1>0, <1>1, <1>3, <1>10, GotoType, GotoWithType DEF Lookup, Steps
  <2>2. RowType' /\ UNCHANGED outbox
    BY <1>0, <1>10 DEF Lookup, RowType, rowVars
  <2> QED BY <1>4, <1>5, <2>1, <2>2
<1>11. CASE Check(t)
  <2>1. FileType' /\ HandlersFit'
    BY <1>0, <1>1, <1>11, GotoType, AnswerType DEF Check, Steps
  <2>2. RowType' /\ UNCHANGED outbox
    BY <1>0, <1>11 DEF Check, RowType, rowVars
  <2> QED BY <1>4, <1>5, <2>1, <2>2
<1>12. CASE Complete(t)
  <2>1. FileType' /\ HandlersFit'
    BY <1>0, <1>1, <1>12, GotoType DEF Complete, Steps
  <2>2. session' = [session EXCEPT ![s] = [session[s] EXCEPT !.state = "completed"]]
    BY <1>0, <1>12 DEF Complete, RowType
  <2>3. [session[s] EXCEPT !.state = "completed"] \in SessionRows
    BY <1>3 DEF SessionRows
  <2>4. RowType' /\ UNCHANGED outbox
    BY <1>0, <1>12, <2>2, <2>3 DEF Complete, RowType
  <2> QED BY <1>4, <1>5, <2>1, <2>4
<1>13. CASE Summarize(t)
  <2>1. FileType' /\ HandlersFit'
    BY <1>0, <1>1, <1>3, <1>13, GotoWithType DEF Summarize, Steps
  <2>2. RowType' /\ UNCHANGED outbox
    BY <1>0, <1>13 DEF Summarize, RowType, rowVars
  <2> QED BY <1>4, <1>5, <2>1, <2>2
<1>14. CASE Enqueue(t)
  <2> DEFINE c == CardOf(Event(t))
             new == PendingMessage(request[t].total)
  <2>1. FileType' /\ HandlersFit'
    BY <1>0, <1>1, <1>14, GotoType DEF Enqueue, Steps
  <2>2. RowType'
    BY <1>0, <1>14 DEF Enqueue, RowType
  <2>3. new \in OutboxRows /\ new.attempts < MaxAttempts
    BY <1>2, BoundAssumption DEF OutboxRows, PendingMessage
  <2>4. CASE UNCHANGED outbox
    BY <1>4, <1>5, <2>1, <2>2, <2>4
  <2>5. CASE outbox[c].status = "absent" /\ outbox' = [outbox EXCEPT ![c] = new]
    <3> HIDE DEF c, new
    <3>1. CardType'
      BY <1>0, <1>5, <2>3, <2>5 DEF CardType
    <3>2. \A d \in Cards : outbox'[d].status = "pending" => outbox'[d].attempts < MaxAttempts
      BY <1>0, <2>3, <2>5 DEF CardType, OutboxInv
    <3>3. inFlight' # NoCard => inFlight' \in Cards /\ outbox'[inFlight'].status = "pending"
      BY <1>0, <1>5, <2>5 DEF CardType, OutboxInv
    <3> QED BY <2>1, <2>2, <3>1, <3>2, <3>3 DEF OutboxInv
  <2> QED BY <1>14, <2>4, <2>5 DEF Enqueue
<1>15. CASE Mark(t)
  <2>1. FileType' /\ HandlersFit'
    BY <1>0, <1>1, <1>15, AnswerType DEF Mark
  <2>2. RowType' /\ UNCHANGED outbox
    BY <1>0, <1>2, <1>15 DEF Mark, RowType
  <2> QED BY <1>4, <1>5, <2>1, <2>2
<1> QED BY <1>6, <1>7, <1>8, <1>9, <1>10, <1>11, <1>12, <1>13, <1>14, <1>15 DEF ThreadStep

LEMMA AfterFailureType ==
  ASSUME NEW row \in OutboxRows, row.attempts < MaxAttempts, NEW permanent \in BOOLEAN
  PROVE  /\ AfterFailure(row, permanent) \in OutboxRows
         /\ AfterFailure(row, permanent).status = "pending" =>
              AfterFailure(row, permanent).attempts < MaxAttempts
         /\ AfterFailure(row, permanent).status # "absent"
         /\ AfterFailure(row, permanent).total = row.total
<1> DEFINE more == row.attempts + 1
           status == IF permanent \/ more >= MaxAttempts THEN "failed" ELSE "pending"
           new == [row EXCEPT !.attempts = more, !.status = status]
<1>1. row.attempts \in Nat /\ MaxAttempts \in Nat /\ more \in 0..MaxAttempts
  BY BoundAssumption DEF OutboxRows
<1>2. status \in {"failed", "pending"} /\ (status = "pending" => more < MaxAttempts)
  BY <1>1
<1> HIDE DEF more, status
<1>3. /\ new \in OutboxRows /\ new.attempts = more /\ new.status = status
      /\ new.total = row.total
  BY <1>1, <1>2 DEF OutboxRows
<1>4. AfterFailure(row, permanent) = new
  BY DEF AfterFailure, more, status
<1> HIDE DEF new
<1> QED BY <1>2, <1>3, <1>4

(* The publisher's steps write the row in flight, or start or drop it.     *)
LEMMA InFlightType ==
  ASSUME CardType, OutboxInv, inFlight # NoCard, NEW row \in OutboxRows,
         row.status = "pending" => row.attempts < MaxAttempts, OnlyInFlight(row)
  PROVE  CardType' /\ OutboxInv'
<1>1. /\ outbox' = [outbox EXCEPT ![inFlight] = row]
      /\ inFlight' = NoCard /\ sent' = sent
  BY DEF OnlyInFlight
<1> QED BY <1>1 DEF CardType, OutboxInv

LEMMA FaultType == ASSUME GameType, Fault PROVE faults' \in 0..MaxFaults
BY BoundAssumption DEF GameType, Fault

THEOREM TypesInit == Init => TypeInv
<1> SUFFICES ASSUME Init PROVE TypeInv
  OBVIOUS
<1>1. GameType
  BY BoundAssumption DEF Init, GameType, Worlds
<1>2. FileType /\ HandlersFit
  BY BoundAssumption DEF Init, FileType, HandlersFit, At, Idle
<1>3. NoRow \in SessionRows /\ NoMessage \in OutboxRows
  BY BoundAssumption DEF NoRow, NoMessage, SessionRows, OutboxRows
<1>4. RowType
  BY <1>3 DEF Init, RowType
<1>5. CardType
  BY <1>3 DEF Init, CardType
<1>6. OutboxInv
  BY DEF Init, OutboxInv, NoMessage
<1> QED BY <1>1, <1>2, <1>4, <1>5, <1>6, TypeParts DEF TypeInv

THEOREM TypesStep == TypeInv /\ [Next]_vars => TypeInv'
<1> SUFFICES ASSUME TypeInv, [Next]_vars PROVE TypeInv'
  OBVIOUS
<1>0. GameType /\ FileType /\ RowType /\ CardType /\ HandlersFit /\ OutboxInv
  BY TypeParts DEF TypeInv
<1>q. SUFFICES GameType' /\ FileType' /\ RowType' /\ CardType' /\ HandlersFit' /\ OutboxInv'
  BY TypePartsNext DEF TypeInv
<1>a. ASSUME UNCHANGED gameVars, UNCHANGED activeWorld, UNCHANGED faults PROVE GameType'
  BY <1>0, <1>a DEF GameType, gameVars
<1>b. ASSUME UNCHANGED <<agentVars, request>>, mailbox' \subseteq Events,
             UNCHANGED <<quarantined, acknowledged>>
      PROVE  FileType' /\ HandlersFit'
  BY <1>0, <1>b DEF FileType, HandlersFit, At, Event, agentVars
<1>c. ASSUME UNCHANGED rowVars PROVE RowType'
  BY <1>0, <1>c DEF RowType, rowVars
<1>d. ASSUME UNCHANGED <<rowVars, publisherVars>> PROVE CardType' /\ OutboxInv'
  BY <1>0, <1>d DEF CardType, OutboxInv, rowVars, publisherVars
<1>1. ASSUME NEW s \in Sessions, PlayerConnects(s) \/ MinutePasses(s) \/ PlayerDisconnects(s)
      PROVE  GameType' /\ FileType' /\ RowType' /\ CardType' /\ HandlersFit' /\ OutboxInv'
  <2>1. GameType'
    <3>1. CASE PlayerConnects(s)
      BY <1>0, <3>1 DEF GameType, PlayerConnects
    <3>2. CASE MinutePasses(s)
      <4>1. minute[s] + 1 \in 0..MaxMinutes
        BY <1>0, <3>2, BoundAssumption DEF GameType, MinutePasses
      <4> QED BY <1>0, <3>2, <4>1 DEF GameType, MinutePasses
    <3>3. CASE PlayerDisconnects(s)
      BY <1>0, <3>3 DEF GameType, PlayerDisconnects
    <3> QED BY <1>1, <3>1, <3>2, <3>3
  <2>2. minute[s] \in 0..MaxMinutes /\ (MinutePasses(s) => minute[s] + 1 \in 1..MaxMinutes)
    BY <1>0, BoundAssumption DEF GameType, MinutePasses
  <2>3. Connect(s) \in Events /\ Disconnect(s, minute[s]) \in Events
    BY <2>2, EventFields
  <2>4. MinutePasses(s) => Minute(s, minute[s] + 1) \in Events
    BY <2>2 DEF Events, Minutes
  <2>5. mailbox' \subseteq Events
    BY <1>0, <1>1, <2>3, <2>4
       DEF FileType, PlayerConnects, MinutePasses, PlayerDisconnects, Emit
  <2> QED BY <1>1, <1>b, <1>c, <1>d, <2>1, <2>5
          DEF PlayerConnects, MinutePasses, PlayerDisconnects
<1>2. ASSUME NEW w \in Worlds, GameRestart(w)
      PROVE  GameType' /\ FileType' /\ RowType' /\ CardType' /\ HandlersFit' /\ OutboxInv'
  <2>1. GameType'
    BY <1>0, <1>2 DEF GameType, GameRestart
  <2> QED BY <1>0, <1>2, <1>b, <1>c, <1>d, <2>1 DEF GameRestart, fileVars, FileType
<1>3. ASSUME StartPass
      PROVE  GameType' /\ FileType' /\ RowType' /\ CardType' /\ HandlersFit' /\ OutboxInv'
  <2>1. pending' \subseteq Events
    BY <1>0, <1>3 DEF StartPass, FirstFiles, Lookahead, FileType
  <2>2. FileType'
    BY <1>0, <1>3, <2>1, BoundAssumption DEF StartPass, fileVars, FileType
  <2>3. HandlersFit'
    BY <1>0, <1>3 DEF StartPass, HandlersFit, At, Event
  <2> QED BY <1>3, <1>a, <1>c, <1>d, <2>2, <2>3 DEF StartPass
<1>4. ASSUME NEW t \in Threads, NEW e \in Events, PostEvent(t, e)
      PROVE  GameType' /\ FileType' /\ RowType' /\ CardType' /\ HandlersFit' /\ OutboxInv'
  <2> DEFINE new == [step |-> "admit", event |-> e, total |-> 0]
  <2>1. new \in Requests /\ new.step = "admit"
    BY DEF Requests, Steps
  <2>2. request' = [request EXCEPT ![t] = new]
    BY <1>4 DEF PostEvent
  <2> HIDE DEF new
  <2>3. request' \in [Threads -> {Idle} \cup Requests]
    BY <1>0, <2>1, <2>2 DEF FileType
  <2>4. attempted' \in 0..BatchSize
    BY <1>0, <1>4, BoundAssumption DEF PostEvent, FileType
  <2>5. FileType'
    BY <1>0, <1>4, <2>3, <2>4 DEF PostEvent, FileType, fileVars
  <2>6. \A k \in Threads : At(k, "count")' => Event(k)'.kind = "player_activity_minute"
    BY <1>0, <2>1, <2>2 DEF HandlersFit, At, Event, FileType
  <2>7. request'[t] # Idle /\ waiting' = t
    BY <1>0, <1>4, <2>1, <2>2 DEF FileType, PostEvent, Idle
  <2> QED BY <1>4, <1>a, <1>c, <1>d, <2>5, <2>6, <2>7 DEF PostEvent, HandlersFit
<1>5. ASSUME Timeout
      PROVE  GameType' /\ FileType' /\ RowType' /\ CardType' /\ HandlersFit' /\ OutboxInv'
  <2>1. GameType'
    BY <1>0, <1>5, FaultType DEF Timeout, GameType, gameVars
  <2>2. waiting \in Threads /\ request[waiting] # Idle
    BY <1>0, <1>5 DEF Timeout, FileType, HandlersFit
  <2>3. request[waiting].event.session \in Sessions
    BY <1>0, <2>2, Handles DEF Event
  <2>4. FileType' /\ HandlersFit'
    BY <1>0, <1>5, <2>3 DEF Timeout, FileType, HandlersFit, At, Event, fileVars
  <2> QED BY <1>5, <1>c, <1>d, <2>1, <2>4 DEF Timeout
<1>6. ASSUME AgentStops
      PROVE  GameType' /\ FileType' /\ RowType' /\ CardType' /\ HandlersFit' /\ OutboxInv'
  <2>1. GameType'
    BY <1>0, <1>6, FaultType DEF AgentStops, GameType, gameVars
  <2>2. FileType' /\ HandlersFit'
    BY <1>0, <1>6, BoundAssumption DEF AgentStops, FileType, HandlersFit, At, Event, fileVars
  <2> QED BY <1>6, <1>c, <1>d, <2>1, <2>2 DEF AgentStops
<1>7. ASSUME NEW t \in Threads, ThreadStep(t)
      PROVE  GameType' /\ FileType' /\ RowType' /\ CardType' /\ HandlersFit' /\ OutboxInv'
  BY <1>7, <1>a, ThreadType DEF ThreadStep
<1>8. ASSUME NEW t \in Threads, RequestFails(t)
      PROVE  GameType' /\ FileType' /\ RowType' /\ CardType' /\ HandlersFit' /\ OutboxInv'
  <2>1. GameType'
    BY <1>0, <1>8, FaultType DEF RequestFails, GameType, gameVars
  <2>2. FileType' /\ HandlersFit'
    BY <1>0, <1>8, AnswerType DEF RequestFails
  <2> QED BY <1>8, <1>c, <1>d, <2>1, <2>2 DEF RequestFails
<1>9. ASSUME ActivateWorld
      PROVE  GameType' /\ FileType' /\ RowType' /\ CardType' /\ HandlersFit' /\ OutboxInv'
  <2>1. GameType'
    BY <1>0, <1>9 DEF ActivateWorld, GameType, gameVars
  <2>2. FileType' /\ HandlersFit'
    BY <1>0, <1>9, <1>b DEF ActivateWorld, fileVars, FileType
  <2>3. RowType'
    BY <1>0, <1>9 DEF ActivateWorld, RowType
  <2>4. \A row \in OutboxRows, flag \in BOOLEAN :
          LET new == [row EXCEPT !.historical = row.historical \/ flag]
          IN new \in OutboxRows /\ new.status = row.status /\ new.attempts = row.attempts
    BY DEF OutboxRows
  <2>5. \A c \in Cards : /\ outbox'[c] \in OutboxRows
                         /\ outbox'[c].status = outbox[c].status
                         /\ outbox'[c].attempts = outbox[c].attempts
    BY <1>0, <1>9, <2>4 DEF ActivateWorld, CardType
  <2>6. outbox' \in [Cards -> OutboxRows]
    BY <1>9, <2>5 DEF ActivateWorld
  <2> QED BY <1>0, <1>9, <2>1, <2>2, <2>3, <2>5, <2>6
          DEF ActivateWorld, CardType, OutboxInv, publisherVars
<1>e. ASSUME UNCHANGED <<fileVars, agentVars, request>> PROVE FileType' /\ HandlersFit'
  BY <1>0, <1>e, <1>b DEF fileVars, FileType
<1>f. ASSUME UNCHANGED <<session, counted, aggregate, processed>> PROVE RowType'
  BY <1>0, <1>f DEF RowType
<1>g. ASSUME NEW c \in Cards, Turn(c)
      PROVE  /\ outbox[c] \in OutboxRows /\ outbox[c].status = "pending"
             /\ outbox[c].attempts < MaxAttempts /\ inFlight = NoCard
  BY <1>0, <1>g DEF Turn, Due, CardType, OutboxInv
<1>h. ASSUME inFlight # NoCard
      PROVE  /\ inFlight \in Cards /\ outbox[inFlight] \in OutboxRows
             /\ outbox[inFlight].status = "pending" /\ outbox[inFlight].attempts < MaxAttempts
  BY <1>0, <1>h DEF CardType, OutboxInv
<1>10. ASSUME NEW c \in Cards, Deliver(c)
       PROVE  GameType' /\ FileType' /\ RowType' /\ CardType' /\ HandlersFit' /\ OutboxInv'
  <2>1. outbox[c].status = "pending" /\ inFlight' = c /\ outbox' = outbox
    BY <1>10, <1>g DEF Deliver, rowVars
  <2>2. sent' \in [Cards -> Nat]
    BY <1>0, <1>10 DEF Deliver, CardType
  <2> QED BY <1>0, <1>10, <1>a, <1>c, <1>e, <2>1, <2>2 DEF Deliver, CardType, OutboxInv
<1>11. ASSUME NEW c \in Cards, NEW permanent \in BOOLEAN, DeliveryFails(c, permanent)
       PROVE  GameType' /\ FileType' /\ RowType' /\ CardType' /\ HandlersFit' /\ OutboxInv'
  <2> DEFINE new == AfterFailure(outbox[c], permanent)
  <2>1. outbox' = [outbox EXCEPT ![c] = new] /\ UNCHANGED publisherVars /\ inFlight = NoCard
    BY <1>0, <1>11, <1>g DEF DeliveryFails, CardType
  <2>2. new \in OutboxRows /\ (new.status = "pending" => new.attempts < MaxAttempts)
    BY <1>11, <1>g, AfterFailureType DEF DeliveryFails
  <2> HIDE DEF new
  <2>3. CardType' /\ OutboxInv'
    BY <1>0, <2>1, <2>2 DEF CardType, OutboxInv, publisherVars
  <2> QED BY <1>11, <1>a, <1>e, <1>f, <2>3 DEF DeliveryFails
<1>12. ASSUME MarkPublished
       PROVE  GameType' /\ FileType' /\ RowType' /\ CardType' /\ HandlersFit' /\ OutboxInv'
  <2> DEFINE new == [outbox[inFlight] EXCEPT !.status = "published", !.attempts = @ + 1]
  <2>1. inFlight # NoCard /\ OnlyInFlight(new) /\ UNCHANGED faults
    BY <1>12 DEF MarkPublished
  <2>2. new \in OutboxRows /\ new.status = "published"
    <3> DEFINE row == outbox[inFlight]
               more == row.attempts + 1
    <3>1. row \in OutboxRows /\ more \in 0..MaxAttempts
      BY <1>h, <2>1, BoundAssumption DEF OutboxRows
    <3>2. new = [row EXCEPT !.status = "published", !.attempts = more]
      OBVIOUS
    <3> HIDE DEF row, more, new
    <3> QED BY <3>1, <3>2 DEF OutboxRows
  <2> HIDE DEF new
  <2>3. CardType' /\ OutboxInv'
    BY <1>0, <2>1, <2>2, InFlightType
  <2> QED BY <1>a, <1>e, <1>f, <2>1, <2>3 DEF OnlyInFlight
<1>13. ASSUME MarkFails
       PROVE  GameType' /\ FileType' /\ RowType' /\ CardType' /\ HandlersFit' /\ OutboxInv'
  <2> DEFINE new == AfterFailure(outbox[inFlight], FALSE)
  <2>1. inFlight # NoCard /\ OnlyInFlight(new)
    BY <1>13 DEF MarkFails
  <2>2. new \in OutboxRows /\ (new.status = "pending" => new.attempts < MaxAttempts)
    BY <1>h, <2>1, AfterFailureType
  <2> HIDE DEF new
  <2>3. CardType' /\ OutboxInv'
    BY <1>0, <2>1, <2>2, InFlightType
  <2>4. GameType'
    BY <1>0, <1>13, <2>1, FaultType DEF MarkFails, OnlyInFlight, GameType, gameVars
  <2> QED BY <1>e, <1>f, <2>1, <2>3, <2>4 DEF OnlyInFlight
<1>14. ASSUME PublisherStops
       PROVE  GameType' /\ FileType' /\ RowType' /\ CardType' /\ HandlersFit' /\ OutboxInv'
  <2>1. inFlight # NoCard /\ OnlyInFlight(outbox[inFlight])
    BY <1>14 DEF PublisherStops
  <2>2. CardType' /\ OutboxInv'
    BY <1>0, <1>h, <2>1, InFlightType
  <2>3. GameType'
    BY <1>0, <1>14, <2>1, FaultType DEF PublisherStops, OnlyInFlight, GameType, gameVars
  <2> QED BY <1>e, <1>f, <2>1, <2>2, <2>3 DEF OnlyInFlight
<1>15. CASE UNCHANGED vars
  BY <1>15, <1>a, <1>c, <1>d, <1>e DEF vars, rowVars
<1> QED
  BY <1>1, <1>2, <1>3, <1>4, <1>5, <1>6, <1>7, <1>8, <1>9, <1>10, <1>11, <1>12, <1>13, <1>14, <1>15
     DEF Next, AgentStep, PublisherStep

(* Documents, files and threads keep their types; a card still to be tried *)
(* has tries left.                                                         *)
THEOREM TypesHold == Spec => []TypeInv
<1> QED BY TypesInit, TypesStep, PTL DEF Spec

(* Documents, files and threads keep their types.                          *)
THEOREM TypeCorrect == Spec => []TypeOK
<1>1. TypeInv => TypeOK
  BY DEF TypeInv
<1> QED BY <1>1, TypesHold, PTL

-------------------------------------------------------------------------------
(* What steps may not undo                                                 *)

(* A session that was opened stays opened in its world, one that was left  *)
(* keeps its last minute.                                                  *)
LEMMA GameGrows ==
  ASSUME TypeInv, [Next]_vars, NEW s \in Sessions
  PROVE  /\ game[s] # "new" => game'[s] # "new" /\ born'[s] = born[s]
         /\ game[s] = "left" => game'[s] = "left" /\ minute'[s] = minute[s]
         /\ minute[s] <= minute'[s]
         /\ game'[s] = "new" => minute'[s] = minute[s]
<1>0. GameType
  BY TypeParts DEF TypeInv
<1>1. minute[s] \in Nat
  BY <1>0, BoundAssumption DEF GameType
<1>2. CASE UNCHANGED <<game, minute, born>>
  BY <1>1, <1>2
<1>3. ASSUME NEW r \in Sessions, PlayerConnects(r)
      PROVE  /\ game[s] # "new" => game'[s] # "new" /\ born'[s] = born[s]
             /\ game[s] = "left" => game'[s] = "left"
             /\ minute' = minute
  BY <1>0, <1>3 DEF PlayerConnects, GameType
<1>4. ASSUME NEW r \in Sessions, MinutePasses(r)
      PROVE  /\ game' = game /\ born' = born
             /\ game[s] \in {"left", "new"} => minute'[s] = minute[s]
             /\ minute[s] <= minute'[s]
  BY <1>0, <1>1, <1>4 DEF MinutePasses, GameType
<1>5. ASSUME NEW r \in Sessions, PlayerDisconnects(r)
      PROVE  /\ game[s] # "new" => game'[s] # "new"
             /\ game[s] = "left" => game'[s] = "left"
             /\ minute' = minute /\ born' = born
  BY <1>0, <1>5 DEF PlayerDisconnects, GameType
<1>6. ASSUME NEW w \in Worlds, GameRestart(w)
      PROVE  /\ game[s] # "new" => game'[s] # "new"
             /\ game[s] = "left" => game'[s] = "left"
             /\ minute' = minute /\ born' = born
  BY <1>0, <1>6 DEF GameRestart, GameType
<1>7. ASSUME AgentStep \/ Timeout \/ AgentStops \/ ActivateWorld
      PROVE  UNCHANGED <<game, minute, born>>
  BY <1>7 DEF AgentStep, StartPass, PostEvent, Timeout, AgentStops, ActivateWorld, gameVars
<1>8. ASSUME NEW t \in Threads, ThreadStep(t) \/ RequestFails(t)
      PROVE  UNCHANGED <<game, minute, born>>
  BY <1>8 DEF ThreadStep, RequestFails, gameVars
<1>9. ASSUME PublisherStep \/ MarkFails \/ PublisherStops
      PROVE  UNCHANGED <<game, minute, born>>
  BY <1>9 DEF PublisherStep, Deliver, DeliveryFails, MarkPublished, MarkFails, PublisherStops,
     OnlyInFlight, gameVars
<1>10. CASE UNCHANGED vars
  BY <1>2, <1>10 DEF vars, gameVars
<1> QED
  BY <1>1, <1>2, <1>3, <1>4, <1>5, <1>6, <1>7, <1>8, <1>9, <1>10 DEF Next

(* Only a handler's step inserts or changes rows; the others touch no more *)
(* than the state of cards.                                                *)
OnlyCardStates ==
  /\ UNCHANGED <<session, counted, aggregate, processed>>
  /\ \A c \in Cards : /\ HasCard(c) <=> outbox'[c].status # "absent"
                      /\ outbox'[c].total = outbox[c].total

LEMMA RowSteps ==
  ASSUME TypeInv, [Next]_vars
  PROVE  OnlyCardStates \/ \E t \in Threads : ThreadStep(t)
<1>0. CardType /\ OutboxInv
  BY TypeParts DEF TypeInv
<1>1. ASSUME UNCHANGED rowVars PROVE OnlyCardStates
  BY <1>1 DEF OnlyCardStates, HasCard, rowVars
<1>2. ASSUME NEW s \in Sessions, PlayerConnects(s) \/ MinutePasses(s) \/ PlayerDisconnects(s)
      PROVE  UNCHANGED rowVars
  BY <1>2 DEF PlayerConnects, MinutePasses, PlayerDisconnects
<1>3. ASSUME NEW w \in Worlds, GameRestart(w) PROVE UNCHANGED rowVars
  BY <1>3 DEF GameRestart
<1>4. ASSUME AgentStep \/ Timeout \/ AgentStops PROVE UNCHANGED rowVars
  BY <1>4 DEF AgentStep, StartPass, PostEvent, Timeout, AgentStops
<1>5. ASSUME NEW t \in Threads, RequestFails(t) PROVE UNCHANGED rowVars
  BY <1>5 DEF RequestFails
<1>6. ASSUME ActivateWorld PROVE OnlyCardStates
  <2>1. \A row \in OutboxRows, flag \in BOOLEAN :
          LET new == [row EXCEPT !.historical = row.historical \/ flag]
          IN new.status = row.status /\ new.total = row.total
    BY DEF OutboxRows
  <2>2. \A c \in Cards : outbox'[c].status = outbox[c].status /\ outbox'[c].total = outbox[c].total
    BY <1>0, <1>6, <2>1 DEF ActivateWorld, CardType
  <2> QED BY <1>6, <2>2 DEF ActivateWorld, OnlyCardStates, HasCard
<1>7. ASSUME NEW c \in Cards, Deliver(c) PROVE UNCHANGED rowVars
  BY <1>7 DEF Deliver
<1>8. ASSUME NEW c \in Cards, NEW row, outbox[c].status # "absent", row.status # "absent",
             row.total = outbox[c].total, outbox' = [outbox EXCEPT ![c] = row],
             UNCHANGED <<session, counted, aggregate, processed>>
      PROVE  OnlyCardStates
  BY <1>0, <1>8 DEF OnlyCardStates, HasCard, CardType
<1>9. ASSUME NEW c \in Cards, NEW permanent \in BOOLEAN, DeliveryFails(c, permanent)
      PROVE  OnlyCardStates
  <2> DEFINE new == AfterFailure(outbox[c], permanent)
  <2>1. /\ outbox[c] \in OutboxRows /\ outbox[c].status = "pending"
        /\ outbox[c].attempts < MaxAttempts
    BY <1>0, <1>9 DEF DeliveryFails, Turn, Due, CardType, OutboxInv
  <2>2. outbox' = [outbox EXCEPT ![c] = new]
    BY <1>0, <1>9 DEF DeliveryFails, CardType
  <2>3. new.status # "absent" /\ new.total = outbox[c].total
    BY <2>1, AfterFailureType
  <2> HIDE DEF new
  <2> QED BY <1>8, <1>9, <2>1, <2>2, <2>3 DEF DeliveryFails
<1>10. ASSUME inFlight # NoCard
       PROVE  /\ inFlight \in Cards /\ outbox[inFlight] \in OutboxRows
              /\ outbox[inFlight].status = "pending" /\ outbox[inFlight].attempts < MaxAttempts
  BY <1>0, <1>10 DEF CardType, OutboxInv
<1>11. ASSUME NEW row, row.status # "absent", row.total = outbox[inFlight].total,
              inFlight # NoCard, OnlyInFlight(row)
       PROVE  OnlyCardStates
  BY <1>8, <1>10, <1>11 DEF OnlyInFlight
<1>12. ASSUME MarkPublished PROVE OnlyCardStates
  <2> DEFINE more == outbox[inFlight].attempts + 1
             new == [outbox[inFlight] EXCEPT !.status = "published", !.attempts = more]
  <2>1. OnlyInFlight(new) /\ inFlight # NoCard
    BY <1>12 DEF MarkPublished
  <2> HIDE DEF more
  <2>2. new.status = "published" /\ new.total = outbox[inFlight].total
    BY <1>10, <2>1 DEF OutboxRows
  <2> HIDE DEF new
  <2> QED BY <1>11, <2>1, <2>2
<1>13. ASSUME MarkFails PROVE OnlyCardStates
  BY <1>10, <1>11, <1>13, AfterFailureType DEF MarkFails
<1>14. ASSUME PublisherStops PROVE OnlyCardStates
  BY <1>10, <1>11, <1>14 DEF PublisherStops
<1>15. CASE UNCHANGED vars
  BY <1>1, <1>15 DEF vars
<1> QED
  BY <1>1, <1>2, <1>3, <1>4, <1>5, <1>6, <1>7, <1>9, <1>12, <1>13, <1>14, <1>15
     DEF Next, PublisherStep

RowsGrow ==
  /\ counted \subseteq counted'
  /\ \A s \in Sessions : Completed(s) => session'[s] = session[s]
  /\ \A s \in Sessions : session[s].state # "none" => session'[s].state # "none"
  /\ \A c \in Cards : HasCard(c) => outbox'[c].status # "absent"
                                    /\ outbox'[c].total = outbox[c].total

(* No handler undoes another's row: a minute counted into a completed      *)
(* session would be one of its own, and those are all counted already.     *)
LEMMA ThreadRowsGrow ==
  ASSUME TypeInv, IntakeInv, NEW t \in Threads, ThreadStep(t)
  PROVE  RowsGrow
<1> DEFINE s == Event(t).session
<1>0. FileType /\ RowType /\ CardType /\ HandlersFit
  BY TypeParts DEF TypeInv
<1>1. request[t] # Idle
  BY Busy DEF ThreadStep, Admit, Observe, Reconcile, Count, Lookup, Check, Complete, Summarize,
     Enqueue, Mark, Steps
<1>2. Event(t) \in Events /\ s \in Sessions
  BY <1>0, <1>1, Handles
<1>3. session[s] \in SessionRows
  BY <1>0, <1>2 DEF RowType
<1>4. Genuine(Event(t))
  BY <1>1 DEF IntakeInv, ThreadInv
<1>5. CASE Admit(t) \/ Lookup(t) \/ Check(t) \/ Summarize(t) \/ Mark(t)
  BY <1>5 DEF Admit, Lookup, Check, Summarize, Mark, RowsGrow, rowVars, HasCard, Completed
<1>6. CASE Observe(t)
  <2>1. session' = [session EXCEPT ![s] = Observed(session[s])]
        /\ UNCHANGED <<counted, outbox>>
    BY <1>6 DEF Observe
  <2>3. session[s].state # "none" => session' = session
    BY <1>0, <1>3, <2>1, ObservedType DEF RowType
  <2> QED BY <1>0, <2>1, <2>3 DEF RowsGrow, Completed, HasCard, RowType
<1>7. CASE Reconcile(t)
  <2>1. \A row \in SessionRows : [row EXCEPT !.state = "reconciled"].state = "reconciled"
    BY DEF SessionRows
  <2> QED BY <1>0, <1>7, <2>1 DEF Reconcile, RowsGrow, Completed, HasCard, RowType
<1>8. CASE Count(t)
  <2>1. CASE UNCHANGED <<counted, aggregate, session>>
    BY <1>8, <2>1 DEF Count, RowsGrow, Completed, HasCard
  <2>2. CASE ~UNCHANGED <<counted, aggregate, session>>
    <3> DEFINE n == Event(t).number
               new == PlusMinute(session[s])
    <3>1. /\ <<s, n>> \notin counted /\ counted' = counted \cup {<<s, n>>}
          /\ session' = [session EXCEPT ![s] = new] /\ UNCHANGED outbox
      BY <1>0, <1>8, <2>2 DEF Count, AlreadyCounted, RowType
    <3>2. Event(t).kind = "player_activity_minute" /\ n \in 1..MaxMinutes
      BY <1>0, <1>2, <1>8, EventKinds DEF HandlersFit, Count
    <3>3. n <= minute[s]
      BY <1>4, <3>2 DEF Genuine
    <3>4. minute[s] \in Nat
      BY <1>2, TypeParts, BoundAssumption DEF TypeInv, GameType
    <3>5. ~Completed(s)
      BY <1>2, <3>1, <3>2, <3>3, <3>4, BoundAssumption DEF IntakeInv
    <3>6. session[s].state # "none" => new.state # "none"
      <4>1. session[s].state # "none" => Observed(session[s]) = session[s]
        BY <1>3, ObservedType
      <4>2. new.state = Observed(session[s]).state
        BY <1>3, ObservedType DEF PlusMinute, SessionRows
      <4> QED BY <4>1, <4>2
    <3> HIDE DEF new
    <3> QED BY <1>0, <3>1, <3>5, <3>6 DEF RowsGrow, Completed, HasCard, RowType
  <2> QED BY <2>1, <2>2
<1>9. CASE Complete(t)
  <2> DEFINE new == [session[s] EXCEPT !.state = "completed"]
  <2>1. session' = [session EXCEPT ![s] = new] /\ UNCHANGED <<counted, outbox>>
    BY <1>0, <1>9 DEF Complete, RowType
  <2>2. new.state = "completed" /\ (Completed(s) => new = session[s])
    BY <1>3 DEF SessionRows, Completed
  <2> HIDE DEF new
  <2> QED BY <1>0, <2>1, <2>2 DEF RowsGrow, Completed, HasCard, RowType
<1>10. CASE Enqueue(t)
  <2>1. UNCHANGED <<session, counted>>
    BY <1>10 DEF Enqueue
  <2>2. \A c \in Cards : HasCard(c) => outbox'[c] = outbox[c]
    BY <1>0, <1>10 DEF Enqueue, HasCard, CardType
  <2> QED BY <2>1, <2>2 DEF RowsGrow, Completed, HasCard
<1> QED BY <1>5, <1>6, <1>7, <1>8, <1>9, <1>10 DEF ThreadStep

LEMMA StepRowsGrow ==
  ASSUME TypeInv, IntakeInv, [Next]_vars
  PROVE  RowsGrow
<1>1. OnlyCardStates => RowsGrow
  BY DEF OnlyCardStates, RowsGrow, HasCard, Completed
<1> QED BY <1>1, RowSteps, ThreadRowsGrow

(* So what is genuine, durable or covered stays so.                        *)
LEMMA EventsKept ==
  ASSUME TypeInv, IntakeInv, [Next]_vars, NEW e \in Events
  PROVE  /\ Genuine(e) => Genuine(e)'
         /\ Durable(e) => Durable(e)'
         /\ Covered(e) => Covered(e)'
         /\ Completed(e.session) => Completed(e.session)'
<1> DEFINE s == e.session
<1>1. RowsGrow
  BY StepRowsGrow
<1>2. s \in Sessions /\ e.number \in 0..MaxMinutes
      /\ e.kind \in {"player_connected", "player_activity_minute", "player_disconnected"}
  BY EventKinds
<1>3. Joined(s) \in Cards /\ Left(s) \in Cards
  BY <1>2, CardFields
<1>4. minute[s] \in Nat /\ minute'[s] \in Nat
  BY <1>2, TypesStep, TypeParts, TypePartsNext, BoundAssumption DEF TypeInv, GameType
<1>5. Genuine(e) => Genuine(e)'
  <2>1. /\ game[s] # "new" => game'[s] # "new"
        /\ game[s] = "left" => game'[s] = "left" /\ minute'[s] = minute[s]
        /\ minute[s] <= minute'[s]
    BY <1>2, GameGrows
  <2>2. e.number <= minute[s] => e.number <= minute'[s]
    BY <1>2, <1>4, <2>1, BoundAssumption
  <2>3. CASE e.kind = "player_connected"
    BY <2>1, <2>3 DEF Genuine
  <2>4. CASE e.kind = "player_activity_minute"
    BY <2>1, <2>2, <2>4 DEF Genuine
  <2>5. CASE e.kind = "player_disconnected"
    BY <2>1, <2>5 DEF Genuine
  <2> QED BY <1>2, <2>3, <2>4, <2>5
<1>6. Completed(s) => Completed(s)'
  BY <1>1, <1>2 DEF RowsGrow, Completed
<1>7. Durable(e) => Durable(e)'
  BY <1>1, <1>2, <1>3, <1>6 DEF RowsGrow, Durable, HasCard
<1>8. Covered(e) => Covered(e)'
  BY <1>1 DEF RowsGrow, Covered
<1> QED BY <1>5, <1>6, <1>7, <1>8

-------------------------------------------------------------------------------
(* IntakeInv is inductive                                                  *)

LEMMA MovesTo ==
  ASSUME FileType, NEW t \in Threads, request[t] # Idle, NEW step \in Steps, Goto(t, step)
  PROVE  /\ request'[t].step = step /\ request'[t].event = request[t].event
         /\ \A k \in Threads \ {t} : request'[k] = request[k]
         /\ request'[t].total = request[t].total
<1> DEFINE new == [request[t] EXCEPT !.step = step]
<1>1. new.step = step /\ new.event = request[t].event /\ new.total = request[t].total
  BY Handles DEF Requests
<1>2. request' = [request EXCEPT ![t] = new]
  BY DEF Goto, FileType
<1> HIDE DEF new
<1> QED BY <1>1, <1>2 DEF FileType

LEMMA MovesWith ==
  ASSUME FileType, NEW t \in Threads, request[t] # Idle, NEW step \in Steps, NEW total \in Nat,
         GotoWith(t, step, total)
  PROVE  /\ request'[t].step = step /\ request'[t].event = request[t].event
         /\ \A k \in Threads \ {t} : request'[k] = request[k]
         /\ request'[t].total = total
<1> DEFINE new == [request[t] EXCEPT !.step = step, !.total = total]
<1>1. new.step = step /\ new.event = request[t].event /\ new.total = total
  BY Handles DEF Requests
<1>2. request' = [request EXCEPT ![t] = new]
  BY DEF GotoWith, FileType
<1> HIDE DEF new
<1> QED BY <1>1, <1>2 DEF FileType

LEMMA Answered ==
  ASSUME FileType, NEW t \in Threads, NEW status, Answer(t, status)
  PROVE  /\ request'[t] = Idle /\ \A k \in Threads \ {t} : request'[k] = request[k]
         /\ mailbox' \subseteq mailbox /\ pending' = pending
         /\ acknowledged' \subseteq acknowledged \cup {Event(t)}
         /\ status # 200 => acknowledged' = acknowledged
BY DEF Answer, FileType, Accepted, Event

(* A thread that stands still loses nothing it has relied on.              *)
LEMMA StandsStill ==
  ASSUME TypeInv, IntakeInv, [Next]_vars, NEW k \in Threads,
         request'[k] = request[k] \/ request'[k] = Idle
  PROVE  ThreadInv(k)'
<1>1. CASE request'[k] = Idle
  BY <1>1 DEF ThreadInv
<1>2. CASE request'[k] = request[k] /\ request[k] # Idle
  <2>1. PICK e \in Events : e = Event(k) /\ e.session \in Sessions
    BY <1>2, TypeParts, Handles DEF TypeInv
  <2>2. ThreadInv(k) /\ Event(k)' = e
    BY <1>2, <2>1 DEF IntakeInv, Event
  <2>3. /\ Genuine(e) => Genuine(e)'
        /\ Durable(e) => Durable(e)'
        /\ Covered(e) => Covered(e)'
        /\ Completed(e.session) => Completed(e.session)'
    BY <2>1, EventsKept
  <2>4. /\ session[e.session].state # "none" => session'[e.session].state # "none"
        /\ Completed(e.session) => session'[e.session] = session[e.session]
    BY <2>1, StepRowsGrow DEF RowsGrow
  <2> QED BY <1>2, <2>1, <2>2, <2>3, <2>4 DEF ThreadInv, At
<1> QED BY <1>1, <1>2

(* Each step of a handler establishes what the next one relies on.         *)
LEMMA ThreadMoves ==
  ASSUME TypeInv, IntakeInv, [Next]_vars, NEW t \in Threads, ThreadStep(t)
  PROVE  ThreadInv(t)'
<1>0. FileType /\ RowType /\ CardType
  BY TypeParts DEF TypeInv
<1>1. request[t] # Idle
  BY Busy DEF ThreadStep, Admit, Observe, Reconcile, Count, Lookup, Check, Complete, Summarize,
     Enqueue, Mark, Steps
<1>e. PICK e \in Events : e = Event(t)
  BY <1>0, <1>1, Handles
<1> DEFINE s == e.session
<1>2. /\ s \in Sessions /\ session[s] \in SessionRows /\ session[s].total \in Nat
      /\ e.kind \in {"player_connected", "player_activity_minute", "player_disconnected"}
  BY <1>0, EventKinds DEF RowType, SessionRows
<1>3. ThreadInv(t) /\ Genuine(e)'
  BY <1>1, <1>e, EventsKept DEF IntakeInv, ThreadInv
<1>4. /\ session[s].state # "none" => session'[s].state # "none"
      /\ Completed(s) => session'[s] = session[s] /\ Completed(s)'
      /\ Covered(e) => Covered(e)'
  BY <1>2, StepRowsGrow, EventsKept DEF RowsGrow
<1>5. ASSUME NEW status, Answer(t, status) PROVE ThreadInv(t)'
  BY <1>0, <1>5, Answered DEF ThreadInv
<1>6. ASSUME NEW step \in Steps, Goto(t, step)
      PROVE  request'[t].step = step /\ Event(t)' = e /\ request'[t].total = request[t].total
  BY <1>0, <1>1, <1>e, <1>6, MovesTo DEF Event
<1>7. CASE Admit(t)
  <2>1. ASSUME NEW step, Goto(t, step),
               step = CASE e.kind = "player_connected" -> "observe"
                        [] e.kind = "player_activity_minute" -> "count"
                        [] e.kind = "player_disconnected" -> "lookup"
        PROVE  ThreadInv(t)'
    <3>1. \/ step = "observe" /\ e.kind = "player_connected"
          \/ step = "count" /\ e.kind = "player_activity_minute"
          \/ step = "lookup" /\ e.kind = "player_disconnected"
      BY <1>2, <2>1
    <3>2. request'[t].step = step /\ Event(t)' = e
      BY <1>6, <2>1, <3>1 DEF Steps
    <3> QED BY <1>3, <3>1, <3>2 DEF ThreadInv, At
  <2> QED BY <1>5, <1>7, <1>e, <2>1 DEF Admit
<1>8. CASE Observe(t)
  <2>1. request'[t].step = "reconcile" /\ Event(t)' = e
    BY <1>6, <1>8 DEF Observe, Steps
  <2>2. session' = [session EXCEPT ![s] = Observed(session[s])]
    BY <1>8, <1>e DEF Observe
  <2>3. Observed(session[s]).state # "none"
    BY <1>2, ObservedType
  <2>4. session'[s].state # "none"
    BY <1>0, <1>2, <2>2, <2>3 DEF RowType
  <2>5. e.kind = "player_connected"
    BY <1>1, <1>3, <1>8, <1>e DEF ThreadInv, Observe
  <2> QED BY <1>3, <2>1, <2>4, <2>5 DEF ThreadInv, At
<1>9. CASE Reconcile(t)
  <2>1. request'[t].step = "enqueue" /\ Event(t)' = e
    BY <1>6, <1>9 DEF Reconcile, Steps
  <2>2. e.kind = "player_connected" /\ session'[s].state # "none"
    BY <1>1, <1>3, <1>4, <1>9, <1>e DEF ThreadInv, Reconcile
  <2> QED BY <1>3, <2>1, <2>2 DEF ThreadInv, At
<1>10. CASE Count(t)
  <2>1. request'[t].step = "mark" /\ Event(t)' = e
    BY <1>6, <1>10 DEF Count, Steps
  <2>2. e.kind = "player_activity_minute" /\ <<s, e.number>> \in counted'
    BY <1>1, <1>3, <1>10, <1>e DEF ThreadInv, Count, AlreadyCounted
  <2>3. Durable(e)'
    BY <2>2 DEF Durable
  <2> QED BY <1>3, <2>1, <2>3 DEF ThreadInv, At
<1>11. CASE Lookup(t)
  <2>1. e.kind = "player_disconnected" /\ session' = session
    BY <1>1, <1>3, <1>11, <1>e DEF ThreadInv, Lookup, rowVars
  <2>2. CASE Completed(s)
    <3>1. GotoWith(t, "enqueue", session[s].total)
      BY <1>11, <1>e, <2>2 DEF Lookup, Completed
    <3>2. request'[t].step = "enqueue" /\ Event(t)' = e /\ request'[t].total = session[s].total
      BY <1>0, <1>1, <1>2, <1>e, <3>1, MovesWith DEF Event, Steps
    <3> QED BY <1>3, <1>4, <2>1, <2>2, <3>2 DEF ThreadInv, At
  <2>3. CASE ~Completed(s)
    <3>1. request'[t].step = "check" /\ Event(t)' = e
      BY <1>6, <1>11, <1>e, <2>3 DEF Lookup, Completed, Steps
    <3> QED BY <1>3, <2>1, <3>1 DEF ThreadInv, At
  <2> QED BY <2>2, <2>3
<1>12. CASE Check(t)
  <2>1. e.kind = "player_disconnected"
    BY <1>1, <1>3, <1>12, <1>e DEF ThreadInv, Check
  <2>2. CASE Covered(e)
    <3>1. request'[t].step = "complete" /\ Event(t)' = e
      BY <1>6, <1>12, <1>e, <2>2 DEF Check, Steps
    <3> QED BY <1>3, <1>4, <2>1, <2>2, <3>1 DEF ThreadInv, At
  <2>3. CASE ~Covered(e)
    BY <1>5, <1>12, <1>e, <2>3 DEF Check
  <2> QED BY <2>2, <2>3
<1>13. CASE Complete(t)
  <2>1. request'[t].step = "summarize" /\ Event(t)' = e
    BY <1>6, <1>13 DEF Complete, Steps
  <2>2. e.kind = "player_disconnected"
    BY <1>1, <1>3, <1>13, <1>e DEF ThreadInv, Complete
  <2>3. Completed(s)'
    <3> DEFINE new == [session[s] EXCEPT !.state = "completed"]
    <3>1. session' = [session EXCEPT ![s] = new]
      BY <1>0, <1>13, <1>e DEF Complete, RowType
    <3>2. new.state = "completed"
      BY <1>2 DEF SessionRows
    <3> HIDE DEF new
    <3> QED BY <1>0, <1>2, <3>1, <3>2 DEF Completed, RowType
  <2> QED BY <1>3, <2>1, <2>2, <2>3 DEF ThreadInv, At
<1>14. CASE Summarize(t)
  <2>1. GotoWith(t, "enqueue", session[s].total) /\ session' = session
    BY <1>14, <1>e DEF Summarize, rowVars
  <2>2. request'[t].step = "enqueue" /\ Event(t)' = e /\ request'[t].total = session[s].total
    BY <1>0, <1>1, <1>2, <1>e, <2>1, MovesWith DEF Event, Steps
  <2>3. e.kind = "player_disconnected" /\ Completed(s)
    BY <1>1, <1>3, <1>14, <1>e DEF ThreadInv, Summarize
  <2> QED BY <1>3, <1>4, <2>1, <2>2, <2>3 DEF ThreadInv, At
<1>15. CASE Enqueue(t)
  <2>1. request'[t].step = "mark" /\ Event(t)' = e
    BY <1>6, <1>15 DEF Enqueue, Steps
  <2>2. \/ e.kind = "player_connected" /\ session[s].state # "none"
        \/ e.kind = "player_disconnected" /\ Completed(s)
    BY <1>1, <1>3, <1>15, <1>e DEF ThreadInv, Enqueue
  <2>3. CardOf(e) \in Cards
    BY <1>2, CardFields DEF CardOf
  <2>4. outbox'[CardOf(e)].status # "absent"
    BY <1>0, <1>15, <1>e, <2>3 DEF Enqueue, CardType, PendingMessage
  <2>5. Durable(e)'
    BY <1>4, <2>2, <2>4 DEF Durable, HasCard, CardOf
  <2> QED BY <1>3, <2>1, <2>5 DEF ThreadInv, At
<1>16. CASE Mark(t)
  BY <1>5, <1>16 DEF Mark
<1> QED
  BY <1>7, <1>8, <1>9, <1>10, <1>11, <1>12, <1>13, <1>14, <1>15, <1>16 DEF ThreadStep

THEOREM IntakeInit == Init => IntakeInv
<1> SUFFICES ASSUME Init PROVE IntakeInv
  OBVIOUS
<1>1. \A t \in Threads : request[t] = Idle
  BY DEF Init
<1>2. \A s \in Sessions : session[s].state = "none" /\ minute[s] = 0
  BY DEF Init, NoRow
<1>3. \A s \in Sessions : outbox[Left(s)].status = "absent"
  BY CardFields DEF Init, NoMessage
<1> QED BY <1>1, <1>2, <1>3 DEF Init, IntakeInv, ThreadInv, Completed, HasCard

(* Whatever a step leaves in the mailbox and the pass is genuine.          *)
LEMMA FilesStayGenuine ==
  ASSUME TypeInv, IntakeInv, [Next]_vars
  PROVE  \A e \in (mailbox \cup pending)' : Genuine(e)'
<1>0. GameType /\ FileType
  BY TypeParts DEF TypeInv
<1>1. ASSUME NEW e \in mailbox \cup pending PROVE Genuine(e)'
  BY <1>0, <1>1, EventsKept DEF FileType, IntakeInv
<1>2. ASSUME (mailbox \cup pending)' \subseteq mailbox \cup pending
      PROVE  \A e \in (mailbox \cup pending)' : Genuine(e)'
  BY <1>1, <1>2
<1>3. ASSUME NEW new, Genuine(new)', (mailbox \cup pending)' \subseteq mailbox \cup pending \cup {new}
      PROVE  \A e \in (mailbox \cup pending)' : Genuine(e)'
  BY <1>1, <1>3
<1>4. ASSUME NEW s \in Sessions, PlayerConnects(s)
      PROVE  \A e \in (mailbox \cup pending)' : Genuine(e)'
  <2>1. Connect(s).kind = "player_connected" /\ Connect(s).session = s
    BY DEF Connect
  <2>2. game'[s] = "playing"
    BY <1>0, <1>4 DEF PlayerConnects, GameType
  <2>3. Genuine(Connect(s))'
    BY <2>1, <2>2 DEF Genuine
  <2> QED BY <1>3, <1>4, <2>3 DEF PlayerConnects, Emit, agentVars
<1>5. ASSUME NEW s \in Sessions, MinutePasses(s)
      PROVE  \A e \in (mailbox \cup pending)' : Genuine(e)'
  <2>1. PICK n \in Nat : n = minute[s] + 1
    BY <1>0, BoundAssumption DEF GameType
  <2>2. /\ Minute(s, n).kind = "player_activity_minute"
        /\ Minute(s, n).session = s /\ Minute(s, n).number = n
    BY DEF Minute
  <2>3. game'[s] = "playing" /\ minute'[s] = n
    BY <1>0, <1>5, <2>1 DEF MinutePasses, GameType
  <2>4. Genuine(Minute(s, n))'
    BY <2>2, <2>3 DEF Genuine
  <2> QED BY <1>3, <1>5, <2>1, <2>4 DEF MinutePasses, agentVars
<1>6. ASSUME NEW s \in Sessions, PlayerDisconnects(s)
      PROVE  \A e \in (mailbox \cup pending)' : Genuine(e)'
  <2>1. PICK n \in Nat : n = minute[s]
    BY <1>0, BoundAssumption DEF GameType
  <2>2. /\ Disconnect(s, n).kind = "player_disconnected"
        /\ Disconnect(s, n).session = s /\ Disconnect(s, n).number = n
    BY DEF Disconnect
  <2>3. game'[s] = "left" /\ minute'[s] = n
    BY <1>0, <1>6, <2>1 DEF PlayerDisconnects, GameType
  <2>4. Genuine(Disconnect(s, n))'
    BY <2>2, <2>3 DEF Genuine
  <2> QED BY <1>3, <1>6, <2>1, <2>4 DEF PlayerDisconnects, Emit, agentVars
<1>7. ASSUME NEW w \in Worlds, GameRestart(w)
      PROVE  \A e \in (mailbox \cup pending)' : Genuine(e)'
  BY <1>2, <1>7 DEF GameRestart, fileVars, agentVars
<1>8. ASSUME StartPass PROVE \A e \in (mailbox \cup pending)' : Genuine(e)'
  BY <1>2, <1>8 DEF StartPass, FirstFiles, Lookahead, fileVars
<1>9. ASSUME NEW t \in Threads, NEW e \in Events, PostEvent(t, e)
      PROVE  \A f \in (mailbox \cup pending)' : Genuine(f)'
  BY <1>2, <1>9 DEF PostEvent, fileVars
<1>10. ASSUME Timeout \/ AgentStops \/ ActivateWorld
       PROVE  \A e \in (mailbox \cup pending)' : Genuine(e)'
  BY <1>2, <1>10 DEF Timeout, AgentStops, ActivateWorld, fileVars, agentVars
<1>11. ASSUME NEW t \in Threads, NEW status, Answer(t, status)
       PROVE  \A e \in (mailbox \cup pending)' : Genuine(e)'
  BY <1>0, <1>2, <1>11, Answered
<1>12. ASSUME UNCHANGED <<fileVars, agentVars>>
       PROVE  \A e \in (mailbox \cup pending)' : Genuine(e)'
  BY <1>2, <1>12 DEF fileVars, agentVars
<1>13. ASSUME NEW t \in Threads, ThreadStep(t) \/ RequestFails(t)
       PROVE  \A e \in (mailbox \cup pending)' : Genuine(e)'
  BY <1>11, <1>12, <1>13
     DEF ThreadStep, RequestFails, Admit, Observe, Reconcile, Count, Lookup, Check, Complete,
         Summarize, Enqueue, Mark, Goto, GotoWith
<1>14. ASSUME PublisherStep \/ MarkFails \/ PublisherStops
       PROVE  \A e \in (mailbox \cup pending)' : Genuine(e)'
  BY <1>12, <1>14 DEF PublisherStep, Deliver, DeliveryFails, MarkPublished, MarkFails,
     PublisherStops, OnlyInFlight
<1>15. CASE UNCHANGED vars
  BY <1>12, <1>15 DEF vars
<1> QED
  BY <1>4, <1>5, <1>6, <1>7, <1>8, <1>9, <1>10, <1>13, <1>14, <1>15 DEF Next, AgentStep

(* A handler that acknowledges an event or marks it has made it durable.   *)
LEMMA StaysDurable ==
  ASSUME TypeInv, IntakeInv, [Next]_vars
  PROVE  (\A e \in acknowledged' : Durable(e)') /\ (\A e \in processed' : Durable(e)')
<1>0. FileType /\ RowType
  BY TypeParts DEF TypeInv
<1>1. ASSUME NEW e \in acknowledged \cup processed PROVE Durable(e)'
  BY <1>0, <1>1, EventsKept DEF FileType, RowType, IntakeInv
<1>2. ASSUME acknowledged' \subseteq acknowledged, processed' = processed
      PROVE (\A e \in acknowledged' : Durable(e)') /\ (\A e \in processed' : Durable(e)')
  BY <1>1, <1>2
<1>3. ASSUME NEW t \in Threads, ThreadStep(t)
      PROVE (\A e \in acknowledged' : Durable(e)') /\ (\A e \in processed' : Durable(e)')
  <2>1. request[t] # Idle
    BY <1>3, Busy DEF ThreadStep, Admit, Observe, Reconcile, Count, Lookup, Check, Complete,
       Summarize, Enqueue, Mark, Steps
  <2>2. PICK e \in Events : e = Event(t)
    BY <1>0, <2>1, Handles
  <2>3. CASE Admit(t)
    <3>1. processed' = processed
      BY <2>3 DEF Admit, rowVars
    <3>2. acknowledged' = acknowledged \/ (Duplicate(e) /\ Answer(t, 200))
      BY <1>0, <2>2, <2>3, Answered DEF Admit, Goto, fileVars
    <3>3. Duplicate(e) => Durable(e)'
      BY <1>1 DEF Duplicate
    <3> QED BY <1>0, <1>1, <2>2, <3>1, <3>2, <3>3, Answered
  <2>4. CASE Mark(t)
    <3>1. Durable(e)
      BY <2>1, <2>2, <2>4 DEF IntakeInv, ThreadInv, Mark
    <3>2. Durable(e)'
      BY <3>1, EventsKept
    <3>3. acknowledged' \subseteq acknowledged \cup {e} /\ processed' = processed \cup {e}
      BY <1>0, <2>2, <2>4, Answered DEF Mark
    <3> QED BY <1>1, <3>2, <3>3
  <2>5. CASE Check(t)
    BY <1>0, <1>2, <2>5, Answered DEF Check, Goto, fileVars, rowVars
  <2>6. CASE ~Admit(t) /\ ~Mark(t) /\ ~Check(t)
    BY <1>2, <1>3, <2>6 DEF ThreadStep, Observe, Reconcile, Count, Lookup, Complete, Summarize,
       Enqueue, Goto, GotoWith, fileVars, rowVars
  <2> QED BY <2>3, <2>4, <2>5, <2>6
<1>4. ASSUME OnlyCardStates, acknowledged' = acknowledged
      PROVE (\A e \in acknowledged' : Durable(e)') /\ (\A e \in processed' : Durable(e)')
  BY <1>2, <1>4 DEF OnlyCardStates
<1>5. acknowledged' = acknowledged \/ \E t \in Threads : ThreadStep(t)
  <2>1. ASSUME NEW s \in Sessions, PlayerConnects(s) \/ MinutePasses(s) \/ PlayerDisconnects(s)
        PROVE  acknowledged' = acknowledged
    BY <2>1 DEF PlayerConnects, MinutePasses, PlayerDisconnects
  <2>2. ASSUME \E w \in Worlds : GameRestart(w) PROVE acknowledged' = acknowledged
    BY <2>2 DEF GameRestart, fileVars
  <2>3. ASSUME AgentStep \/ Timeout \/ AgentStops \/ ActivateWorld
        PROVE acknowledged' = acknowledged
    BY <2>3 DEF AgentStep, StartPass, PostEvent, Timeout, AgentStops, ActivateWorld, fileVars
  <2>4. ASSUME NEW t \in Threads, RequestFails(t) PROVE acknowledged' = acknowledged
    BY <1>0, <2>4, Answered DEF RequestFails
  <2>5. ASSUME PublisherStep \/ MarkFails \/ PublisherStops
        PROVE acknowledged' = acknowledged
    BY <2>5 DEF PublisherStep, Deliver, DeliveryFails, MarkPublished, MarkFails,
       PublisherStops, OnlyInFlight, fileVars
  <2>6. CASE UNCHANGED vars
    BY <2>6 DEF vars, fileVars
  <2> QED BY <2>1, <2>2, <2>3, <2>4, <2>5, <2>6 DEF Next
<1> QED BY <1>3, <1>4, <1>5, RowSteps

LEMMA ThreadsStaySound ==
  ASSUME TypeInv, IntakeInv, [Next]_vars, NEW k \in Threads
  PROVE  ThreadInv(k)'
<1>0. FileType
  BY TypeParts DEF TypeInv
<1>1. ASSUME request' = request PROVE ThreadInv(k)'
  BY <1>1, StandsStill
<1>2. ASSUME NEW t \in Threads, NEW e \in Events, PostEvent(t, e) PROVE ThreadInv(k)'
  <2> DEFINE new == [step |-> "admit", event |-> e, total |-> 0]
  <2>1. request' = [request EXCEPT ![t] = new]
    BY <1>2 DEF PostEvent
  <2>2. new.step = "admit" /\ new.event = e
    OBVIOUS
  <2> HIDE DEF new
  <2>3. CASE k # t
    BY <1>0, <2>1, <2>3, StandsStill DEF FileType
  <2>4. CASE k = t
    <3>1. request'[k].step = "admit" /\ Event(k)' = e
      BY <1>0, <2>1, <2>2, <2>4 DEF FileType, Event
    <3>2. Genuine(e)'
      BY <1>2, EventsKept DEF PostEvent, Postable, IntakeInv
    <3> QED BY <3>1, <3>2 DEF ThreadInv, At
  <2> QED BY <2>3, <2>4
<1>3. ASSUME NEW t \in Threads, ThreadStep(t) PROVE ThreadInv(k)'
  <2>1. CASE k = t
    BY <1>3, <2>1, ThreadMoves
  <2>2. CASE k # t
    <3>1. request'[k] = request[k]
      BY <1>0, <1>3, <2>2
         DEF FileType, ThreadStep, Admit, Observe, Reconcile, Count, Lookup, Check, Complete,
             Summarize, Enqueue, Mark, Goto, GotoWith, Answer
    <3> QED BY <3>1, StandsStill
  <2> QED BY <2>1, <2>2
<1>4. ASSUME NEW t \in Threads, RequestFails(t) PROVE ThreadInv(k)'
  <2>1. request'[k] = request[k] \/ request'[k] = Idle
    BY <1>0, <1>4, Answered DEF RequestFails
  <2> QED BY <2>1, StandsStill
<1>5. ASSUME NEW s \in Sessions, PlayerConnects(s) \/ MinutePasses(s) \/ PlayerDisconnects(s)
      PROVE  ThreadInv(k)'
  BY <1>1, <1>5 DEF PlayerConnects, MinutePasses, PlayerDisconnects
<1>6. ASSUME NEW w \in Worlds, GameRestart(w) PROVE ThreadInv(k)'
  BY <1>1, <1>6 DEF GameRestart
<1>7. ASSUME StartPass \/ Timeout \/ AgentStops \/ ActivateWorld PROVE ThreadInv(k)'
  BY <1>1, <1>7 DEF StartPass, Timeout, AgentStops, ActivateWorld
<1>8. ASSUME PublisherStep \/ MarkFails \/ PublisherStops PROVE ThreadInv(k)'
  BY <1>1, <1>8 DEF PublisherStep, Deliver, DeliveryFails, MarkPublished, MarkFails,
     PublisherStops, OnlyInFlight
<1>9. CASE UNCHANGED vars
  BY <1>1, <1>9 DEF vars
<1> QED BY <1>2, <1>3, <1>4, <1>5, <1>6, <1>7, <1>8, <1>9 DEF Next, AgentStep

(* What the rows say of a session agrees with what the game numbered.      *)
RowsAgreeWithGame ==
  /\ \A s \in Sessions : Completed(s) =>
       game[s] = "left" /\ \A n \in 1..minute[s] : <<s, n>> \in counted
  /\ \A s \in Sessions : HasCard(Left(s)) =>
       Completed(s) /\ outbox[Left(s)].total = session[s].total
  /\ \A m \in counted : m[2] <= minute[m[1]]

LEMMA ThreadsAgreeWithGame ==
  ASSUME TypeInv, IntakeInv, [Next]_vars, NEW t \in Threads, ThreadStep(t)
  PROVE  RowsAgreeWithGame'
<1>0. GameType /\ FileType /\ RowType /\ CardType /\ HandlersFit
  BY TypeParts DEF TypeInv
<1>1. request[t] # Idle
  BY Busy DEF ThreadStep, Admit, Observe, Reconcile, Count, Lookup, Check, Complete, Summarize,
     Enqueue, Mark, Steps
<1>2. PICK e \in Events : e = Event(t)
  BY <1>0, <1>1, Handles
<1> DEFINE s == e.session
<1>3. s \in Sessions /\ session[s] \in SessionRows
  BY <1>0, EventKinds DEF RowType
<1>4. ThreadInv(t)
  BY DEF IntakeInv
<1>5. game' = game /\ minute' = minute
  BY DEF ThreadStep, gameVars
<1>6. RowsGrow
  BY ThreadRowsGrow
<1>7. ASSUME NEW r \in Sessions, Completed(r) PROVE game[r] = "left"
        /\ \A n \in 1..minute[r] : <<r, n>> \in counted'
  BY <1>6, <1>7 DEF IntakeInv, RowsGrow
<1>8. ASSUME NEW r \in Sessions, HasCard(Left(r))
      PROVE  Completed(r)' /\ outbox'[Left(r)].total = session'[r].total
  BY <1>6, <1>8, CardFields DEF IntakeInv, RowsGrow, Completed
<1>9. ASSUME \A r \in Sessions : Completed(r)' => Completed(r)
      PROVE  \A r \in Sessions : Completed(r)' =>
               game'[r] = "left" /\ \A n \in 1..minute'[r] : <<r, n>> \in counted'
  BY <1>5, <1>7, <1>9
<1>10. ASSUME outbox' = outbox
       PROVE  \A r \in Sessions : HasCard(Left(r))' =>
                Completed(r)' /\ outbox'[Left(r)].total = session'[r].total
  BY <1>8, <1>10 DEF HasCard
<1>11. ASSUME counted' = counted PROVE \A m \in counted' : m[2] <= minute'[m[1]]
  BY <1>5, <1>11 DEF IntakeInv
<1>12. CASE Admit(t) \/ Lookup(t) \/ Check(t) \/ Summarize(t) \/ Mark(t)
  <2>1. UNCHANGED <<session, counted, outbox>>
    BY <1>12 DEF Admit, Lookup, Check, Summarize, Mark, rowVars
  <2> QED BY <1>9, <1>10, <1>11, <2>1 DEF RowsAgreeWithGame, Completed
<1>13. CASE Observe(t)
  <2>1. session' = [session EXCEPT ![s] = Observed(session[s])] /\ UNCHANGED <<counted, outbox>>
    BY <1>2, <1>13 DEF Observe
  <2>2. Observed(session[s]).state = "completed" => session[s].state = "completed"
    BY DEF Observed
  <2>3. \A r \in Sessions : Completed(r)' => Completed(r)
    BY <1>0, <2>1, <2>2 DEF Completed, RowType
  <2> QED BY <1>9, <1>10, <1>11, <2>1, <2>3 DEF RowsAgreeWithGame
<1>14. CASE Reconcile(t)
  <2>1. UNCHANGED <<counted, outbox>>
    BY <1>14 DEF Reconcile
  <2>2. \A row \in SessionRows : [row EXCEPT !.state = "reconciled"].state = "reconciled"
    BY DEF SessionRows
  <2>3. \A r \in Sessions : Completed(r)' => Completed(r)
    BY <1>0, <1>14, <2>2 DEF Reconcile, Completed, RowType
  <2> QED BY <1>9, <1>10, <1>11, <2>1, <2>3 DEF RowsAgreeWithGame
<1>15. CASE Count(t)
  <2>1. UNCHANGED outbox
    BY <1>15 DEF Count
  <2>2. CASE UNCHANGED <<counted, aggregate, session>>
    BY <1>9, <1>10, <1>11, <2>1, <2>2 DEF RowsAgreeWithGame, Completed
  <2>3. CASE ~UNCHANGED <<counted, aggregate, session>>
    <3> DEFINE new == PlusMinute(session[s])
    <3>1. counted' = counted \cup {<<s, e.number>>} /\ session' = [session EXCEPT ![s] = new]
      BY <1>2, <1>15, <2>3 DEF Count
    <3>2. e.number <= minute[s]
      BY <1>0, <1>1, <1>2, <1>4, <1>15 DEF ThreadInv, HandlersFit, Count, Genuine
    <3>3. \A m \in counted' : m[2] <= minute'[m[1]]
      BY <1>5, <3>1, <3>2 DEF IntakeInv
    <3>4. new.state = "completed" => session[s].state = "completed"
      BY <1>3, ObservedType DEF PlusMinute, SessionRows, Observed
    <3> HIDE DEF new
    <3>5. \A r \in Sessions : Completed(r)' => Completed(r)
      BY <1>0, <3>1, <3>4 DEF Completed, RowType
    <3> QED BY <1>9, <1>10, <2>1, <3>3, <3>5 DEF RowsAgreeWithGame
  <2> QED BY <2>2, <2>3
<1>16. CASE Complete(t)
  <2>1. UNCHANGED <<counted, outbox>>
    BY <1>16 DEF Complete
  <2>2. game[s] = "left" /\ e.number = minute[s] /\ Covered(e)
    BY <1>1, <1>2, <1>4, <1>16 DEF ThreadInv, Complete, Genuine
  <2>3. \A r \in Sessions \ {s} : Completed(r)' => Completed(r)
    BY <1>0, <1>2, <1>16 DEF Complete, Completed, RowType
  <2>4. \A r \in Sessions : Completed(r)' =>
          game'[r] = "left" /\ \A n \in 1..minute'[r] : <<r, n>> \in counted'
    BY <1>5, <1>7, <2>1, <2>2, <2>3 DEF Covered
  <2> QED BY <1>10, <1>11, <2>1, <2>4 DEF RowsAgreeWithGame
<1>17. CASE Enqueue(t)
  <2>1. UNCHANGED <<session, counted>>
    BY <1>17 DEF Enqueue
  <2>2. \A c \in Cards : outbox'[c] = outbox[c] \/ c = CardOf(e)
    BY <1>0, <1>2, <1>17 DEF Enqueue, CardType
  <2>3. ASSUME NEW r \in Sessions, HasCard(Left(r))', ~HasCard(Left(r))
        PROVE  Completed(r)' /\ outbox'[Left(r)].total = session'[r].total
    <3>1. Left(r) = CardOf(e) /\ Left(r) \in Cards
      BY <2>2, <2>3, CardFields DEF HasCard
    <3>2. r = s /\ e.kind # "player_connected"
      BY <1>3, <3>1, CardsDiffer DEF CardOf
    <3>3. Completed(s) /\ request[t].total = session[s].total
      BY <1>1, <1>2, <1>4, <1>17, <3>2 DEF ThreadInv, Enqueue
    <3>4. outbox'[Left(r)] = PendingMessage(request[t].total)
      BY <1>0, <1>2, <1>17, <2>3, <3>1 DEF Enqueue, CardType, HasCard
    <3> QED BY <2>1, <3>2, <3>3, <3>4 DEF PendingMessage, Completed
  <2>4. \A r \in Sessions : HasCard(Left(r))' =>
          Completed(r)' /\ outbox'[Left(r)].total = session'[r].total
    BY <1>8, <2>3
  <2> QED BY <1>9, <1>11, <2>1, <2>4 DEF RowsAgreeWithGame, Completed
<1> QED BY <1>12, <1>13, <1>14, <1>15, <1>16, <1>17 DEF ThreadStep

LEMMA StaysInAgreement ==
  ASSUME TypeInv, IntakeInv, [Next]_vars
  PROVE  RowsAgreeWithGame'
<1>0. GameType /\ RowType
  BY TypeParts DEF TypeInv
<1>1. ASSUME OnlyCardStates PROVE RowsAgreeWithGame'
  <2>1. ASSUME NEW s \in Sessions, Completed(s)'
        PROVE  game'[s] = "left" /\ \A n \in 1..minute'[s] : <<s, n>> \in counted'
    <3>1. Completed(s) /\ counted' = counted
      BY <1>1, <2>1 DEF OnlyCardStates, Completed
    <3> QED BY <3>1, GameGrows DEF IntakeInv
  <2>2. ASSUME NEW s \in Sessions, HasCard(Left(s))'
        PROVE  Completed(s)' /\ outbox'[Left(s)].total = session'[s].total
    BY <1>1, <2>2, CardFields DEF OnlyCardStates, HasCard, Completed, IntakeInv
  <2>3. ASSUME NEW m \in counted' PROVE m[2] <= minute'[m[1]]
    <3>1. m \in counted /\ m[1] \in Sessions /\ m[2] \in Nat
      BY <1>0, <1>1, <2>3, BoundAssumption DEF OnlyCardStates, RowType
    <3>2. minute[m[1]] <= minute'[m[1]] /\ m[2] <= minute[m[1]]
      BY <3>1, GameGrows DEF IntakeInv
    <3>3. minute[m[1]] \in Nat /\ minute'[m[1]] \in Nat
      BY <1>0, <3>1, TypesStep, TypePartsNext, BoundAssumption DEF TypeInv, GameType
    <3> QED BY <3>1, <3>2, <3>3
  <2> QED BY <2>1, <2>2, <2>3 DEF RowsAgreeWithGame
<1> QED BY <1>1, RowSteps, ThreadsAgreeWithGame

THEOREM IntakeStep == TypeInv /\ IntakeInv /\ [Next]_vars => IntakeInv'
<1> SUFFICES ASSUME TypeInv, IntakeInv, [Next]_vars PROVE IntakeInv'
  OBVIOUS
<1>1. \A s \in Sessions : game'[s] = "new" => minute'[s] = 0
  BY GameGrows DEF IntakeInv
<1> QED BY <1>1, FilesStayGenuine, StaysDurable, ThreadsStaySound, StaysInAgreement
        DEF IntakeInv, RowsAgreeWithGame

THEOREM IntakeHolds == Spec => []IntakeInv
<1> QED BY IntakeInit, IntakeStep, TypesInit, TypesStep, PTL DEF Spec

(* What the Agent has unlinked on a 200 is in the database: a stop between *)
(* an event's effect, its card and its marker loses none of them.          *)
THEOREM NothingAcknowledgedIsLost == Spec => []AcknowledgedIsDurable
<1>1. IntakeInv => AcknowledgedIsDurable
  BY DEF IntakeInv, AcknowledgedIsDurable, Durable, Completed, HasCard
<1> QED BY <1>1, IntakeHolds, PTL

-------------------------------------------------------------------------------
(* Counting                                                                *)

(* A minute counts only for a session that was opened, so the world of its *)
(* row is known and does not change; there are finitely many of them.      *)
CountInv ==
  /\ MinutesCountedOnce
  /\ IsFiniteSet(counted)
  /\ \A s \in Sessions : game[s] # "new" => born[s] \in Worlds

LEMMA OneMore ==
  ASSUME NEW S, NEW T, IsFiniteSet(S), NEW x, x \notin S, T = S \cup {x}
  PROVE  IsFiniteSet(T) /\ Cardinality(S) \in Nat /\ Cardinality(T) = Cardinality(S) + 1
BY FS_AddElement, FS_CardinalityType

THEOREM CountInit == Init => CountInv
<1> SUFFICES ASSUME Init PROVE CountInv
  OBVIOUS
<1>1. IsFiniteSet({}) /\ Cardinality({}) = 0
  BY FS_EmptySet
<1>2. \A s \in Sessions : {m \in counted : m[1] = s} = {}
  BY DEF Init
<1>3. \A p \in Players, w \in Worlds : {m \in counted : Owner[m[1]] = p /\ born[m[1]] = w} = {}
  BY DEF Init
<1>4. \A s \in Sessions : session[s].total = 0
  BY DEF Init, NoRow
<1>5. \A p \in Players, w \in Worlds : aggregate[<<p, w>>] = 0
  BY DEF Init
<1>6. MinutesCountedOnce
  BY <1>1, <1>2, <1>3, <1>4, <1>5 DEF MinutesCountedOnce
<1> QED BY <1>1, <1>6 DEF Init, CountInv

LEMMA BornKnown ==
  ASSUME TypeInv, CountInv, [Next]_vars, NEW s \in Sessions, game'[s] # "new"
  PROVE  born'[s] \in Worlds
<1>0. GameType
  BY TypeParts DEF TypeInv
<1>1. CASE game[s] # "new"
  BY <1>1, GameGrows DEF CountInv
<1>2. CASE game[s] = "new"
  <2>1. TypeInv'
    BY TypesStep
  <2>2. game' # game
    BY <1>2
  <2>3. ASSUME NEW r \in Sessions, PlayerConnects(r) PROVE born'[s] \in Worlds
    BY <1>0, <1>2, <2>3 DEF PlayerConnects, GameType
  <2>4. ASSUME NEW r \in Sessions, MinutePasses(r) \/ PlayerDisconnects(r) PROVE FALSE
    BY <1>0, <1>2, <2>4 DEF MinutePasses, PlayerDisconnects, GameType
  <2>5. ASSUME NEW w \in Worlds, GameRestart(w) PROVE FALSE
    BY <1>0, <1>2, <2>5 DEF GameRestart, GameType
  <2>6. ASSUME AgentStep \/ Timeout \/ AgentStops \/ ActivateWorld PROVE FALSE
    BY <2>2, <2>6 DEF AgentStep, StartPass, PostEvent, Timeout, AgentStops, ActivateWorld, gameVars
  <2>7. ASSUME NEW t \in Threads, ThreadStep(t) \/ RequestFails(t) PROVE FALSE
    BY <2>2, <2>7 DEF ThreadStep, RequestFails, gameVars
  <2>8. ASSUME PublisherStep \/ MarkFails \/ PublisherStops PROVE FALSE
    BY <2>2, <2>8 DEF PublisherStep, Deliver, DeliveryFails, MarkPublished, MarkFails,
       PublisherStops, OnlyInFlight, gameVars
  <2>9. ~UNCHANGED vars
    BY <2>2 DEF vars, gameVars
  <2> QED BY <2>3, <2>4, <2>5, <2>6, <2>7, <2>8, <2>9 DEF Next
<1> QED BY <1>1, <1>2

(* A counted minute keeps its place in every total.                        *)
LEMMA CountedKeepsWorld ==
  ASSUME TypeInv, IntakeInv, [Next]_vars, NEW m \in counted
  PROVE  m[1] \in Sessions /\ born'[m[1]] = born[m[1]]
<1>1. GameType /\ RowType
  BY TypeParts DEF TypeInv
<1>2. m[1] \in Sessions /\ m[2] \in 1..MaxMinutes /\ m[2] <= minute[m[1]]
  BY <1>1 DEF RowType, IntakeInv
<1>3. game[m[1]] # "new"
  BY <1>1, <1>2, BoundAssumption DEF IntakeInv, GameType
<1> QED BY <1>2, <1>3, GameGrows

(* Steps that count nothing change no total.                               *)
LEMMA NothingCounted ==
  ASSUME TypeInv, IntakeInv, CountInv, [Next]_vars, UNCHANGED <<counted, aggregate>>,
         \A s \in Sessions : session'[s].total = session[s].total
  PROVE  MinutesCountedOnce' /\ IsFiniteSet(counted')
<1>1. ASSUME NEW p \in Players, NEW w \in Worlds
      PROVE  {m \in counted : Owner[m[1]] = p /\ born'[m[1]] = w}
               = {m \in counted : Owner[m[1]] = p /\ born[m[1]] = w}
  BY CountedKeepsWorld
<1>2. \A p \in Players, w \in Worlds : aggregate'[<<p, w>>]
        = Cardinality({m \in counted' : Owner[m[1]] = p /\ born'[m[1]] = w})
  BY <1>1 DEF CountInv, MinutesCountedOnce
<1>3. \A s \in Sessions : session'[s].total = Cardinality({m \in counted' : m[1] = s})
  BY DEF CountInv, MinutesCountedOnce
<1> QED BY <1>2, <1>3 DEF CountInv, MinutesCountedOnce

LEMMA MinuteCounted ==
  ASSUME TypeInv, IntakeInv, CountInv, [Next]_vars, NEW s \in Sessions, NEW n \in 1..MaxMinutes,
         game[s] # "new", born' = born,
         <<s, n>> \notin counted, counted' = counted \cup {<<s, n>>},
         aggregate' = [aggregate EXCEPT ![<<Owner[s], born[s]>>] = aggregate[<<Owner[s], born[s]>>] + 1],
         session' = [session EXCEPT ![s] = PlusMinute(session[s])]
  PROVE  MinutesCountedOnce' /\ IsFiniteSet(counted')
<1> DEFINE x == <<s, n>>
           Of(r) == {m \in counted : m[1] = r}
           In(p, w) == {m \in counted : Owner[m[1]] = p /\ born[m[1]] = w}
<1>0. RowType
  BY TypeParts DEF TypeInv
<1>1. x[1] = s /\ x \notin counted /\ IsFiniteSet(counted)
  BY DEF CountInv
<1>2. IsFiniteSet(counted')
  BY <1>1, OneMore
<1>3. \A r \in Sessions : IsFiniteSet(Of(r)) /\ x \notin Of(r)
  BY <1>1, FS_Subset
<1>4. \A p \in Players, w \in Worlds : IsFiniteSet(In(p, w)) /\ x \notin In(p, w)
  BY <1>1, FS_Subset
<1>5. ASSUME NEW r \in Sessions
      PROVE  session'[r].total = Cardinality({m \in counted' : m[1] = r})
  <2>1. session[r].total = Cardinality(Of(r))
    BY DEF CountInv, MinutesCountedOnce
  <2>2. CASE r = s
    <3>1. {m \in counted' : m[1] = r} = Of(r) \cup {x}
      BY <1>1, <2>2
    <3>2. session'[r].total = session[r].total + 1
      BY <1>0, <2>2, PlusMinuteType DEF RowType
    <3> QED BY <1>3, <2>1, <3>1, <3>2, OneMore
  <2>3. CASE r # s
    <3>1. {m \in counted' : m[1] = r} = Of(r)
      BY <1>1, <2>3
    <3> QED BY <1>0, <2>1, <2>3, <3>1 DEF RowType
  <2> QED BY <2>2, <2>3
<1>6. Owner[s] \in Players /\ born[s] \in Worlds
  BY SessionAssumption DEF CountInv
<1>7. ASSUME NEW p \in Players, NEW w \in Worlds
      PROVE  aggregate'[<<p, w>>]
               = Cardinality({m \in counted' : Owner[m[1]] = p /\ born'[m[1]] = w})
  <2>1. aggregate[<<p, w>>] = Cardinality(In(p, w))
    BY DEF CountInv, MinutesCountedOnce
  <2>2. CASE Owner[s] = p /\ born[s] = w
    <3>1. {m \in counted' : Owner[m[1]] = p /\ born'[m[1]] = w} = In(p, w) \cup {x}
      BY <1>1, <2>2
    <3>2. aggregate'[<<p, w>>] = aggregate[<<p, w>>] + 1
      BY <1>0, <2>2 DEF RowType
    <3> QED BY <1>4, <2>1, <3>1, <3>2, OneMore
  <2>3. CASE ~(Owner[s] = p /\ born[s] = w)
    <3>1. {m \in counted' : Owner[m[1]] = p /\ born'[m[1]] = w} = In(p, w)
      BY <1>1, <2>3
    <3>2. aggregate'[<<p, w>>] = aggregate[<<p, w>>]
      BY <1>0, <2>3 DEF RowType
    <3> QED BY <2>1, <3>1, <3>2
  <2> QED BY <2>2, <2>3
<1> QED BY <1>2, <1>5, <1>7 DEF MinutesCountedOnce

THEOREM CountStep == TypeInv /\ IntakeInv /\ CountInv /\ [Next]_vars => CountInv'
<1> SUFFICES ASSUME TypeInv, IntakeInv, CountInv, [Next]_vars PROVE CountInv'
  OBVIOUS
<1>0. FileType /\ RowType /\ HandlersFit
  BY TypeParts DEF TypeInv
<1>q. SUFFICES MinutesCountedOnce' /\ IsFiniteSet(counted')
  BY BornKnown DEF CountInv
<1>1. CASE OnlyCardStates
  BY <1>1, NothingCounted DEF OnlyCardStates
<1>2. ASSUME NEW t \in Threads, ThreadStep(t)
      PROVE  MinutesCountedOnce' /\ IsFiniteSet(counted')
  <2>1. request[t] # Idle
    BY <1>2, Busy DEF ThreadStep, Admit, Observe, Reconcile, Count, Lookup, Check, Complete,
       Summarize, Enqueue, Mark, Steps
  <2>2. PICK e \in Events : e = Event(t)
    BY <1>0, <2>1, Handles
  <2> DEFINE s == e.session
  <2>3. s \in Sessions /\ session[s] \in SessionRows /\ born' = born
    BY <1>0, <1>2, EventKinds DEF RowType, ThreadStep, gameVars
  <2>4. CASE Count(t) /\ <<s, e.number>> \notin counted
    <3>1. e.kind = "player_activity_minute" /\ e.number \in 1..MaxMinutes
      BY <1>0, <2>2, <2>4, EventKinds DEF HandlersFit, Count
    <3>2. game[s] # "new"
      BY <2>1, <2>2, <3>1 DEF IntakeInv, ThreadInv, Genuine
    <3>3. /\ counted' = counted \cup {<<s, e.number>>}
          /\ aggregate' = [aggregate EXCEPT ![<<Owner[s], born[s]>>]
                                              = aggregate[<<Owner[s], born[s]>>] + 1]
          /\ session' = [session EXCEPT ![s] = PlusMinute(session[s])]
      BY <1>0, <2>2, <2>4 DEF Count, AlreadyCounted, RowType
    <3> QED BY <2>3, <2>4, <3>1, <3>2, <3>3, MinuteCounted
  <2>5. CASE Count(t) /\ <<s, e.number>> \in counted
    BY <2>2, <2>5, NothingCounted DEF Count, AlreadyCounted
  <2>6. CASE Observe(t)
    <3>1. session' = [session EXCEPT ![s] = Observed(session[s])] /\ UNCHANGED <<counted, aggregate>>
      BY <2>2, <2>6 DEF Observe
    <3>2. \A r \in Sessions : session'[r].total = session[r].total
      BY <1>0, <2>3, <3>1, ObservedType DEF RowType
    <3> QED BY <3>1, <3>2, NothingCounted
  <2>7. CASE Reconcile(t)
    <3>1. \A row \in SessionRows : [row EXCEPT !.state = "reconciled"].total = row.total
      BY DEF SessionRows
    <3>2. \A r \in Sessions : session'[r].total = session[r].total
      BY <1>0, <2>7, <3>1 DEF Reconcile, RowType
    <3> QED BY <2>7, <3>2, NothingCounted DEF Reconcile
  <2>8. CASE Complete(t)
    <3> DEFINE new == [session[s] EXCEPT !.state = "completed"]
    <3>1. session' = [session EXCEPT ![s] = new] /\ UNCHANGED <<counted, aggregate>>
      BY <1>0, <2>2, <2>8 DEF Complete, RowType
    <3>2. new.total = session[s].total
      BY <2>3 DEF SessionRows
    <3> HIDE DEF new
    <3>3. \A r \in Sessions : session'[r].total = session[r].total
      BY <1>0, <2>3, <3>1, <3>2 DEF RowType
    <3> QED BY <3>1, <3>3, NothingCounted
  <2>9. CASE Admit(t) \/ Lookup(t) \/ Check(t) \/ Summarize(t) \/ Enqueue(t) \/ Mark(t)
    BY <2>9, NothingCounted DEF Admit, Lookup, Check, Summarize, Enqueue, Mark, rowVars
  <2> QED BY <1>2, <2>4, <2>5, <2>6, <2>7, <2>8, <2>9 DEF ThreadStep
<1> QED BY <1>1, <1>2, RowSteps

THEOREM CountHolds == Spec => []CountInv
<1> QED BY CountInit, CountStep, IntakeInit, IntakeStep, TypesInit, TypesStep, PTL DEF Spec

(* A minute counts once in its session and in the player's total, however  *)
(* often and by however many threads it is delivered.                      *)
THEOREM MinutesCountOnce == Spec => []MinutesCountedOnce
<1>1. CountInv => MinutesCountedOnce
  BY DEF CountInv
<1> QED BY <1>1, CountHolds, PTL

(* The minutes of a completed session are those the game numbered in it.   *)
LEMMA CompleteTotal ==
  ASSUME TypeInv, IntakeInv, CountInv, NEW s \in Sessions, Completed(s)
  PROVE  session[s].total = minute[s]
<1>0. GameType /\ RowType
  BY TypeParts DEF TypeInv
<1>1. \A n \in 1..minute[s] : <<s, n>> \in counted
  BY DEF IntakeInv
<1> DEFINE S == {m \in counted : m[1] = s}
           k == minute[s]
           f == [n \in 1..k |-> <<s, n>>]
<1>2. k \in Nat
  BY <1>0, BoundAssumption DEF GameType
<1>3. \A m \in S : m = <<s, m[2]>> /\ m[2] \in 1..k
  BY <1>0, <1>2, BoundAssumption DEF RowType, IntakeInv
<1>4. f \in Bijection(1..k, S)
  <2>1. f \in Surjection(1..k, S)
    BY <1>1, <1>3, Fun_IsSurj
  <2>2. f \in Injection(1..k, S)
    BY <1>1, Fun_IsInj
  <2> QED BY <2>1, <2>2 DEF Bijection
<1>5. IsFiniteSet(1..k) /\ Cardinality(1..k) = k
  BY <1>2, FS_Interval
<1>6. Cardinality(S) = k
  BY <1>4, <1>5, FS_Bijection, Fun_ExistsBij
<1> QED BY <1>6 DEF CountInv, MinutesCountedOnce

(* The card of a disconnect shows every minute the game numbered in that   *)
(* session.                                                                *)
THEOREM CardsAreComplete == Spec => []CardCountsTheSession
<1>1. ASSUME TypeInv, IntakeInv, CountInv PROVE CardCountsTheSession
  BY <1>1, CompleteTotal DEF CardCountsTheSession, IntakeInv, HasCard
<1> QED BY <1>1, TypesHold, IntakeHolds, CountHolds, PTL

-------------------------------------------------------------------------------
(* The pipeline keeps the promise of PlayTime                              *)

\* What the rows say of played time, and what the game knows of it.
RowsSame == UNCHANGED <<Time!countVars, {s \in Sessions : Completed(s)},
  {<<s, outbox[Left(s)].total>> : s \in {r \in Sessions : HasCard(Left(r))}}>>
GameSame == UNCHANGED <<game, minute, born>>

LEMMA NothingPromisedChanges == RowsSame /\ GameSame => UNCHANGED Time!timeVars
BY DEF RowsSame, GameSame, Time!timeVars, Time!playedVars, Completed, HasCard

\* Other totals and cards than those of sessions do not show.
LEMMA SameRows ==
  ASSUME UNCHANGED <<counted, aggregate>>,
         \A s \in Sessions : /\ session'[s].total = session[s].total
                             /\ Completed(s)' <=> Completed(s)
                             /\ HasCard(Left(s))' <=> HasCard(Left(s))
                             /\ HasCard(Left(s)) => outbox'[Left(s)].total = outbox[Left(s)].total
  PROVE  RowsSame
<1>1. [s \in Sessions |-> session[s].total]' = [s \in Sessions |-> session[s].total]
  OBVIOUS
<1>2. {s \in Sessions : Completed(s)}' = {s \in Sessions : Completed(s)}
  OBVIOUS
<1>3. {r \in Sessions : HasCard(Left(r))}' = {r \in Sessions : HasCard(Left(r))}
  OBVIOUS
<1>4. {<<s, outbox[Left(s)].total>> : s \in {r \in Sessions : HasCard(Left(r))}}'
        = {<<s, outbox[Left(s)].total>> : s \in {r \in Sessions : HasCard(Left(r))}}
  BY <1>3
<1> QED BY <1>1, <1>2, <1>4 DEF RowsSame, Time!countVars

\* The game opens sessions, plays minutes and sees players leave; a session
\* it forgets stays as it is.
LEMMA GameTells ==
  ASSUME TypeInv, CountInv, UNCHANGED rowVars,
         \/ \E s \in Sessions : PlayerConnects(s) \/ MinutePasses(s) \/ PlayerDisconnects(s)
         \/ \E w \in Worlds : GameRestart(w)
  PROVE  [Time!Next]_(Time!timeVars)
<1>0. GameType
  BY TypeParts DEF TypeInv
<1>1. RowsSame
  BY SameRows DEF rowVars, Completed, HasCard
<1> DEFINE Begun == {s \in Sessions : game[s] # "new"}
           Over == {s \in Sessions : game[s] = "left"}
<1>2. ASSUME NEW s \in Sessions, PlayerConnects(s) PROVE Time!Next
  <2>1. game[s] = "new" /\ game' = [game EXCEPT ![s] = "playing"]
    BY <1>2 DEF PlayerConnects
  <2>2. s \notin Begun /\ Begun' = Begun \union {s} /\ Over' = Over
    BY <1>0, <2>1 DEF GameType
  <2>3. PICK w \in Worlds : born' = [born EXCEPT ![s] = w] /\ minute' = minute
    BY <1>0, <1>2 DEF PlayerConnects, GameType
  <2>4. Time!Begin(s, w)
    BY <1>1, <2>2, <2>3 DEF Time!Begin, RowsSame, Completed, HasCard
  <2> QED BY <2>4 DEF Time!Next
<1>3. ASSUME NEW s \in Sessions, MinutePasses(s) PROVE Time!Next
  <2>1. game[s] = "playing" /\ UNCHANGED <<game, born>> /\ minute' = [minute EXCEPT ![s] = @ + 1]
    BY <1>3 DEF MinutePasses
  <2>2. Time!Play(s)
    BY <1>1, <2>1 DEF Time!Play, RowsSame, Completed, HasCard
  <2> QED BY <2>2 DEF Time!Next
<1>4. ASSUME NEW s \in Sessions, PlayerDisconnects(s) PROVE Time!Next
  <2>1. /\ game[s] = "playing" /\ game' = [game EXCEPT ![s] = "left"]
        /\ UNCHANGED <<minute, born>>
    BY <1>4 DEF PlayerDisconnects
  <2>2. s \in Begun \ Over /\ Begun' = Begun /\ Over' = Over \union {s}
    BY <1>0, <2>1 DEF GameType
  <2>3. Time!Leave(s)
    BY <1>1, <2>1, <2>2 DEF Time!Leave, RowsSame, Completed, HasCard
  <2> QED BY <2>3 DEF Time!Next
<1>5. ASSUME NEW w \in Worlds, GameRestart(w) PROVE UNCHANGED Time!timeVars
  <2>1. /\ game' = [s \in Sessions |-> IF game[s] = "playing" THEN "lost" ELSE game[s]]
        /\ UNCHANGED <<minute, born>>
    BY <1>5 DEF GameRestart
  <2>2. Begun' = Begun /\ Over' = Over
    BY <2>1
  <2> QED BY <1>1, <2>1, <2>2 DEF RowsSame, Time!timeVars, Time!playedVars, Completed, HasCard
<1> QED BY <1>2, <1>3, <1>4, <1>5

\* A transaction counts a genuine minute that was not counted, and so one of a
\* session that is not completed.
LEMMA CountTells ==
  ASSUME TypeInv, IntakeInv, CountInv, [Next]_vars, NEW t \in Threads, Count(t), GameSame
  PROVE  [Time!Next]_(Time!timeVars)
<1>0. GameType /\ FileType /\ RowType /\ HandlersFit
  BY TypeParts DEF TypeInv
<1>1. request[t] # Idle
  BY Busy DEF Count, Steps
<1>2. PICK e \in Events : e = Event(t)
  BY <1>0, <1>1, Handles
<1>3. e.kind = "player_activity_minute" /\ e.number \in 1..MaxMinutes
  BY <1>0, <1>2, EventKinds DEF HandlersFit, Count
<1>s. PICK s \in Sessions, n \in 1..MaxMinutes : e.session = s /\ e.number = n
  BY <1>3, EventKinds
<1>r. session[s] \in SessionRows
  BY <1>0 DEF RowType
<1>4. game[s] # "new" /\ n <= minute[s] /\ minute[s] \in Nat
  <2>1. Genuine(e)
    BY <1>1, <1>2 DEF IntakeInv, ThreadInv
  <2> QED BY <1>0, <1>3, <1>s, <2>1, BoundAssumption DEF Genuine, GameType
<1>5. CASE AlreadyCounted(s, n)
  <2>1. UNCHANGED <<counted, aggregate, session, outbox>>
    BY <1>2, <1>s, <1>5 DEF Count
  <2> QED BY <2>1, SameRows, NothingPromisedChanges DEF Completed, HasCard
<1>6. CASE ~AlreadyCounted(s, n)
  <2>1. /\ <<s, n>> \notin counted /\ counted' = counted \union {<<s, n>>}
        /\ aggregate' = [aggregate EXCEPT ![<<Owner[s], born[s]>>] = @ + 1]
        /\ session' = [session EXCEPT ![s] = PlusMinute(session[s])] /\ UNCHANGED outbox
    BY <1>0, <1>2, <1>s, <1>6 DEF Count, AlreadyCounted, RowType
  <2>2. n \in 1..minute[s] /\ ~Completed(s)
    BY <1>4, <2>1, BoundAssumption DEF IntakeInv
  <2>3. \A r \in Sessions : session'[r].total = IF r = s THEN session[s].total + 1 ELSE session[r].total
    BY <1>0, <2>1, PlusMinuteType DEF RowType
  <2>4. [r \in Sessions |-> session[r].total]' =
          [[r \in Sessions |-> session[r].total] EXCEPT ![s] = @ + 1]
    BY <2>3
  <2>5. ~Completed(s)'
    <3>1. PlusMinute(session[s]).state = Observed(session[s]).state
      BY <1>r, ObservedType DEF PlusMinute, SessionRows
    <3>2. Observed(session[s]).state # "completed"
      BY <1>r, <2>2 DEF Observed, Completed, SessionRows
    <3>3. session'[s] = PlusMinute(session[s])
      BY <1>0, <2>1 DEF RowType
    <3> QED BY <3>1, <3>2, <3>3 DEF Completed
  <2>6. {r \in Sessions : Completed(r)}' = {r \in Sessions : Completed(r)}
    <3>1. \A r \in Sessions \ {s} : session'[r] = session[r]
      BY <1>0, <2>1 DEF RowType
    <3> QED BY <2>2, <2>5, <3>1 DEF Completed
  <2>7. Time!Count(s, n)
    <3>1. s \in {r \in Sessions : game[r] # "new"} \ {r \in Sessions : Completed(r)}
      BY <1>4, <2>2
    <3> QED BY <2>1, <2>4, <2>6, <3>1 DEF Time!Count, Time!playedVars, GameSame, Completed, HasCard
  <2> QED BY <2>2, <2>7 DEF Time!Next
<1> QED BY <1>5, <1>6

\* A handler completes a session after it has seen every minute counted, and
\* writes one card.
LEMMA HandlersTell ==
  ASSUME TypeInv, IntakeInv, CountInv, [Next]_vars, NEW t \in Threads, ThreadStep(t)
  PROVE  [Time!Next]_(Time!timeVars)
<1>0. GameType /\ FileType /\ RowType /\ CardType /\ HandlersFit
  BY TypeParts DEF TypeInv
<1>1. request[t] # Idle
  BY Busy DEF ThreadStep, Admit, Observe, Reconcile, Count, Lookup, Check, Complete, Summarize,
     Enqueue, Mark, Steps
<1>e. PICK e \in Events : e = Event(t)
  BY <1>0, <1>1, Handles
<1>s. PICK s \in Sessions : e.session = s
  BY EventKinds
<1>2. session[s] \in SessionRows
  BY <1>0 DEF RowType
<1>3. GameSame
  BY DEF ThreadStep, GameSame, gameVars
<1>4. CASE Count(t)
  BY <1>3, <1>4, CountTells
<1>5. CASE Admit(t) \/ Lookup(t) \/ Check(t) \/ Summarize(t) \/ Mark(t)
  <2>1. UNCHANGED <<session, counted, aggregate, outbox>>
    BY <1>5 DEF Admit, Lookup, Check, Summarize, Mark, rowVars
  <2> QED BY <1>3, <2>1, SameRows, NothingPromisedChanges DEF Completed, HasCard
<1>6. CASE Observe(t) \/ Reconcile(t)
  <2>1. RowsGrow /\ UNCHANGED <<counted, aggregate, outbox>>
    BY <1>6, StepRowsGrow DEF Observe, Reconcile
  <2>2. ASSUME NEW r \in Sessions
        PROVE session'[r].total = session[r].total /\ (Completed(r)' <=> Completed(r))
    <3>1. session[r] \in SessionRows
      BY <1>0 DEF RowType
    <3>2. \/ session'[r] = session[r] \/ session'[r] = Observed(session[r])
          \/ ~Completed(r) /\ session'[r] = [session[r] EXCEPT !.state = "reconciled"]
      BY <1>0, <1>6 DEF Observe, Reconcile, RowType, Completed
    <3>3. Observed(session[r]).total = session[r].total
          /\ (Observed(session[r]).state = "completed" <=> session[r].state = "completed")
      BY <3>1 DEF Observed, SessionRows
    <3>4. LET row == [session[r] EXCEPT !.state = "reconciled"]
          IN row.total = session[r].total /\ row.state = "reconciled"
      BY <3>1 DEF SessionRows
    <3> QED BY <3>2, <3>3, <3>4 DEF Completed
  <2>3. RowsSame
    BY <2>1, <2>2, SameRows DEF HasCard
  <2> QED BY <1>3, <2>3, NothingPromisedChanges
<1>7. CASE Complete(t)
  <2> DEFINE new == [session[s] EXCEPT !.state = "completed"]
  <2>1. session' = [session EXCEPT ![s] = new] /\ UNCHANGED <<counted, aggregate, outbox>>
    BY <1>0, <1>e, <1>s, <1>7 DEF Complete, RowType
  <2>2. new.state = "completed" /\ new.total = session[s].total
    BY <1>2 DEF SessionRows
  <2> HIDE DEF new
  <2>3. game[s] = "left" /\ \A n \in 1..minute[s] : <<s, n>> \in counted
    BY <1>1, <1>e, <1>s, <1>7 DEF Complete, IntakeInv, ThreadInv, Genuine, Covered
  <2>4. \A r \in Sessions : session'[r].total = session[r].total
                            /\ (Completed(r)' <=> Completed(r) \/ r = s)
    BY <1>0, <2>1, <2>2 DEF RowType, Completed
  <2>5. CASE Completed(s)
    <3>1. \A r \in Sessions : Completed(r)' <=> Completed(r)
      BY <2>4, <2>5
    <3>2. RowsSame
      BY <2>1, <2>4, <3>1, SameRows DEF HasCard
    <3> QED BY <1>3, <3>2, NothingPromisedChanges
  <2>6. CASE ~Completed(s)
    <3>1. {r \in Sessions : Completed(r)}' = {r \in Sessions : Completed(r)} \union {s}
      BY <2>4
    <3>2. [r \in Sessions |-> session[r].total]' = [r \in Sessions |-> session[r].total]
      BY <2>4
    <3>3. Time!Close(s)
      BY <1>3, <2>1, <2>3, <2>6, <3>1, <3>2
         DEF Time!Close, Time!countVars, Time!playedVars, GameSame, Completed
    <3> QED BY <3>3 DEF Time!Next
  <2> QED BY <2>5, <2>6
<1>8. CASE Enqueue(t)
  <2> DEFINE c == CardOf(e)
  <2>1. /\ UNCHANGED <<session, counted, aggregate>>
        /\ outbox' = IF HasCard(c) THEN outbox ELSE [outbox EXCEPT ![c] = PendingMessage(request[t].total)]
    BY <1>e, <1>8 DEF Enqueue, HasCard
  <2>2. CASE HasCard(c)
    BY <1>3, <2>1, <2>2, SameRows, NothingPromisedChanges DEF Completed, HasCard
  <2>3. CASE ~HasCard(c) /\ e.kind = "player_connected"
    <3>1. c = Joined(s) /\ \A r \in Sessions : Left(r) # c
      BY <1>s, <2>3, CardsDiffer DEF CardOf
    <3>2. \A r \in Sessions : outbox'[Left(r)] = outbox[Left(r)]
      BY <1>0, <2>1, <3>1, CardFields DEF CardType
    <3>3. RowsSame
      BY <2>1, <3>2, SameRows DEF Completed, HasCard
    <3> QED BY <1>3, <3>3, NothingPromisedChanges
  <2>4. CASE ~HasCard(c) /\ e.kind # "player_connected"
    <3>1. Completed(s) /\ request[t].total = session[s].total
      BY <1>1, <1>e, <1>s, <1>8, <2>4 DEF Enqueue, IntakeInv, ThreadInv
    <3>2. request[t].total = minute[s]
      BY <3>1, CompleteTotal
    <3>3. c = Left(s) /\ Left(s) \in Cards
      BY <1>s, <2>4, CardFields DEF CardOf
    <3>4. outbox'[Left(s)].total = minute[s] /\ outbox'[Left(s)].status # "absent"
      BY <1>0, <2>1, <2>4, <3>2, <3>3 DEF PendingMessage, CardType
    <3>5. \A r \in Sessions \ {s} : outbox'[Left(r)] = outbox[Left(r)]
      BY <1>0, <2>1, <3>3, CardFields, CardsDiffer DEF CardType
    <3>6. {r \in Sessions : HasCard(Left(r))}' = {r \in Sessions : HasCard(Left(r))} \union {s}
      BY <3>4, <3>5 DEF HasCard
    <3>7. s \notin {r \in Sessions : HasCard(Left(r))}
      BY <2>4, <3>3
    <3> DEFINE Told == {<<r, outbox[Left(r)].total>> : r \in {q \in Sessions : HasCard(Left(q))}}
    <3>8. Told' = Told \union {<<s, minute[s]>>}
      BY <3>4, <3>5, <3>6, <3>7
    <3>9. \A entry \in Told : entry[1] # s
      BY <3>7
    <3>10. Time!Report(s)
      BY <1>3, <2>1, <3>1, <3>8, <3>9
         DEF Time!Report, Time!countVars, Time!playedVars, GameSame, Completed, HasCard
    <3> QED BY <3>10 DEF Time!Next
  <2> QED BY <2>2, <2>3, <2>4
<1> QED BY <1>4, <1>5, <1>6, <1>7, <1>8 DEF ThreadStep

LEMMA StepTells ==
  ASSUME TypeInv, IntakeInv, CountInv, [Next]_vars
  PROVE  [Time!Next]_(Time!timeVars)
<1>1. ASSUME OnlyCardStates, GameSame PROVE UNCHANGED Time!timeVars
  <2>1. \A s \in Sessions : Left(s) \in Cards
    BY CardFields
  <2> QED BY <1>1, <2>1, SameRows, NothingPromisedChanges DEF OnlyCardStates, Completed, HasCard
<1>2. ASSUME NEW t \in Threads, ThreadStep(t) PROVE [Time!Next]_(Time!timeVars)
  BY <1>2, HandlersTell
<1>3. ASSUME \/ \E s \in Sessions : PlayerConnects(s) \/ MinutePasses(s) \/ PlayerDisconnects(s)
             \/ \E w \in Worlds : GameRestart(w)
      PROVE  [Time!Next]_(Time!timeVars)
  <2>1. UNCHANGED rowVars
    BY <1>3 DEF PlayerConnects, MinutePasses, PlayerDisconnects, GameRestart
  <2> QED BY <1>3, <2>1, GameTells
<1>4. ASSUME \/ AgentStep \/ Timeout \/ AgentStops \/ ActivateWorld
             \/ \E t \in Threads : RequestFails(t)
             \/ PublisherStep \/ MarkFails \/ PublisherStops \/ UNCHANGED vars
      PROVE  GameSame
  BY <1>4 DEF AgentStep, StartPass, PostEvent, Timeout, AgentStops, ActivateWorld, RequestFails,
     PublisherStep, Deliver, DeliveryFails, MarkPublished, MarkFails, PublisherStops, OnlyInFlight,
     GameSame, gameVars, vars
<1> QED BY <1>1, <1>2, <1>3, <1>4, RowSteps DEF Next

(* For any players, sessions, threads, batches and faults: files posted in *)
(* any order, lost answers, repeated and overlapping handlers come to the  *)
(* same as a game that told the database itself (EventProcessor.process,   *)
(* ActivityTelemetryProcessor, ActivitySessionProcessor, ActivityOutbox).  *)
THEOREM PlayedTimeIsKept == Spec => TimeIsKept
<1>1. Init => Time!Init
  <2> SUFFICES ASSUME Init PROVE Time!Init
    OBVIOUS
  <2>1. \A s \in Sessions : /\ game[s] = "new" /\ session[s].state = "none"
                            /\ session[s].total = 0 /\ outbox[Left(s)].status = "absent"
    BY CardFields DEF Init, NoRow, NoMessage
  <2> QED BY <2>1 DEF Init, Time!Init
<1>2. TypeInv /\ IntakeInv /\ CountInv /\ [Next]_vars => [Time!Next]_(Time!timeVars)
  BY StepTells
<1> QED BY <1>1, <1>2, TypesHold, IntakeHolds, CountHolds, PTL DEF Spec, Time!Spec, TimeIsKept

-------------------------------------------------------------------------------
(* Copies                                                                  *)

(* A card that may be sent again has cost a fault for each copy it has.    *)
CopyInv ==
  \A c \in Cards : /\ sent[c] <= 1 + faults
                   /\ outbox[c].status = "absent" => sent[c] = 0
                   /\ outbox[c].status = "pending" /\ inFlight # c => sent[c] <= faults

THEOREM CopyInit == Init => CopyInv
BY DEF Init, CopyInv, NoMessage

LEMMA NoNewCopies ==
  ASSUME TypeInv, CopyInv, UNCHANGED publisherVars, faults' \in {faults, faults + 1},
         \A c \in Cards : /\ outbox'[c].status = "absent" => outbox[c].status = "absent"
                          /\ outbox'[c].status = "pending"
                               => outbox[c].status \in {"absent", "pending"}
  PROVE  CopyInv'
<1>1. \A c \in Cards : sent[c] \in Nat /\ sent'[c] = sent[c] /\ inFlight' = inFlight
  BY TypeParts DEF TypeInv, CardType, publisherVars
<1>2. faults \in Nat /\ faults' \in Nat
  BY TypeParts, BoundAssumption DEF TypeInv, GameType
<1> QED BY <1>1, <1>2 DEF CopyInv

(* The card in flight leaves it, at the price of a fault if it stays       *)
(* pending.                                                                *)
LEMMA FlightEnds ==
  ASSUME TypeInv, CopyInv, inFlight # NoCard, NEW row, OnlyInFlight(row), row.status # "absent",
         \/ row.status # "pending" /\ faults' = faults
         \/ faults' = faults + 1
  PROVE  CopyInv'
<1>1. CardType /\ faults \in Nat
  BY TypeParts, BoundAssumption DEF TypeInv, GameType
<1>2. inFlight \in Cards /\ sent' = sent /\ inFlight' = NoCard
      /\ outbox' = [outbox EXCEPT ![inFlight] = row]
  BY DEF TypeInv, OutboxInv, OnlyInFlight
<1>3. ASSUME NEW c \in Cards, c # inFlight
      PROVE  /\ sent'[c] <= 1 + faults'
             /\ outbox'[c].status = "absent" => sent'[c] = 0
             /\ outbox'[c].status = "pending" => sent'[c] <= faults'
  BY <1>1, <1>2, <1>3 DEF CopyInv, CardType
<1>4. /\ sent'[inFlight] <= 1 + faults' /\ outbox'[inFlight].status # "absent"
      /\ outbox'[inFlight].status = "pending" => sent'[inFlight] <= faults'
  BY <1>1, <1>2 DEF CopyInv, CardType
<1> QED BY <1>3, <1>4 DEF CopyInv

THEOREM CopyStep == TypeInv /\ CopyInv /\ [Next]_vars => CopyInv'
<1> SUFFICES ASSUME TypeInv, CopyInv, [Next]_vars PROVE CopyInv'
  OBVIOUS
<1>0. GameType /\ FileType /\ CardType /\ OutboxInv /\ faults \in Nat
  BY TypeParts, BoundAssumption DEF TypeInv, GameType
<1>1. ASSUME UNCHANGED publisherVars, UNCHANGED outbox, faults' = faults \/ Fault PROVE CopyInv'
  BY <1>1, NoNewCopies DEF Fault
<1>2. ASSUME NEW s \in Sessions, PlayerConnects(s) \/ MinutePasses(s) \/ PlayerDisconnects(s)
      PROVE  CopyInv'
  BY <1>1, <1>2 DEF PlayerConnects, MinutePasses, PlayerDisconnects, rowVars
<1>3. ASSUME NEW w \in Worlds, GameRestart(w) PROVE CopyInv'
  BY <1>1, <1>3 DEF GameRestart, rowVars
<1>4. ASSUME AgentStep \/ Timeout \/ AgentStops PROVE CopyInv'
  BY <1>1, <1>4 DEF AgentStep, StartPass, PostEvent, Timeout, AgentStops, rowVars
<1>5. ASSUME NEW t \in Threads, RequestFails(t) PROVE CopyInv'
  BY <1>1, <1>5 DEF RequestFails, rowVars
<1>6. ASSUME NEW t \in Threads, ThreadStep(t) PROVE CopyInv'
  <2>1. CASE ~Enqueue(t)
    BY <1>1, <1>6, <2>1 DEF ThreadStep, Admit, Observe, Reconcile, Count, Lookup, Check, Complete,
       Summarize, Mark, rowVars
  <2>2. CASE Enqueue(t)
    <3>1. ASSUME NEW c \in Cards
          PROVE  outbox'[c] = outbox[c]
                 \/ (outbox[c].status = "absent" /\ outbox'[c].status = "pending")
      <4>1. CASE outbox' = outbox
        BY <4>1
      <4>2. CASE /\ outbox[CardOf(Event(t))].status = "absent"
                 /\ outbox' = [outbox EXCEPT ![CardOf(Event(t))] = PendingMessage(request[t].total)]
        <5>1. CASE c = CardOf(Event(t))
          BY <1>0, <4>2, <5>1 DEF CardType, PendingMessage
        <5>2. CASE c # CardOf(Event(t))
          BY <1>0, <4>2, <5>2 DEF CardType
        <5> QED BY <5>1, <5>2
      <4> QED BY <2>2, <4>1, <4>2 DEF Enqueue
    <3>2. UNCHANGED publisherVars /\ faults' = faults
      BY <1>6 DEF ThreadStep
    <3> QED BY <3>1, <3>2, NoNewCopies
  <2> QED BY <2>1, <2>2
<1>7. ASSUME ActivateWorld PROVE CopyInv'
  <2>1. \A row \in OutboxRows, flag \in BOOLEAN :
          [row EXCEPT !.historical = row.historical \/ flag].status = row.status
    BY DEF OutboxRows
  <2>2. \A c \in Cards : outbox'[c].status = outbox[c].status
    BY <1>0, <1>7, <2>1 DEF ActivateWorld, CardType
  <2> QED BY <1>7, <2>2, NoNewCopies DEF ActivateWorld
<1>8. ASSUME NEW c \in Cards, Deliver(c) PROVE CopyInv'
  <2>1. /\ outbox[c].status = "pending" /\ inFlight = NoCard /\ c # inFlight
        /\ inFlight' = c /\ sent' = [sent EXCEPT ![c] = sent[c] + 1]
        /\ outbox' = outbox /\ faults' = faults
    BY <1>0, <1>8, NullAssumption DEF Deliver, Turn, Due, rowVars, CardType
  <2>2. sent[c] <= faults
    BY <2>1 DEF CopyInv
  <2>3. sent'[c] = sent[c] + 1 /\ sent[c] \in Nat
    BY <1>0, <2>1 DEF CardType
  <2>4. ASSUME NEW d \in Cards, d # c
        PROVE  /\ sent'[d] <= 1 + faults'
               /\ outbox'[d].status = "absent" => sent'[d] = 0
               /\ outbox'[d].status = "pending" => sent'[d] <= faults'
    BY <1>0, <2>1, <2>4, NullAssumption DEF CopyInv, CardType
  <2> QED BY <1>0, <2>1, <2>2, <2>3, <2>4 DEF CopyInv
<1>9. ASSUME NEW c \in Cards, NEW permanent \in BOOLEAN, DeliveryFails(c, permanent)
      PROVE  CopyInv'
  <2>1. /\ outbox[c] \in OutboxRows /\ outbox[c].status = "pending"
        /\ outbox[c].attempts < MaxAttempts
    BY <1>0, <1>9 DEF DeliveryFails, Turn, Due, CardType, OutboxInv
  <2> DEFINE new == AfterFailure(outbox[c], permanent)
  <2>2. new.status # "absent" /\ outbox' = [outbox EXCEPT ![c] = new]
    BY <1>0, <1>9, <2>1, AfterFailureType DEF DeliveryFails, CardType
  <2> HIDE DEF new
  <2>3. ASSUME NEW d \in Cards
        PROVE  outbox'[d] = outbox[d]
               \/ (outbox[d].status = "pending" /\ outbox'[d].status # "absent")
    <3>1. CASE d = c
      BY <1>0, <2>1, <2>2, <3>1 DEF CardType
    <3>2. CASE d # c
      BY <1>0, <2>2, <3>2 DEF CardType
    <3> QED BY <3>1, <3>2
  <2> QED BY <1>9, <2>3, NoNewCopies DEF DeliveryFails
<1>10. ASSUME inFlight # NoCard
       PROVE  /\ outbox[inFlight] \in OutboxRows /\ outbox[inFlight].status = "pending"
              /\ outbox[inFlight].attempts < MaxAttempts
  BY <1>0, <1>10 DEF CardType, OutboxInv
<1>11. ASSUME MarkPublished PROVE CopyInv'
  <2> DEFINE more == outbox[inFlight].attempts + 1
             new == [outbox[inFlight] EXCEPT !.status = "published", !.attempts = more]
  <2>1. inFlight # NoCard /\ OnlyInFlight(new) /\ faults' = faults
    BY <1>11 DEF MarkPublished
  <2> HIDE DEF more
  <2>2. new.status = "published"
    BY <1>10, <2>1 DEF OutboxRows
  <2> HIDE DEF new
  <2> QED BY <2>1, <2>2, FlightEnds
<1>12. ASSUME MarkFails PROVE CopyInv'
  BY <1>10, <1>12, AfterFailureType, FlightEnds DEF MarkFails, Fault
<1>13. ASSUME PublisherStops PROVE CopyInv'
  BY <1>10, <1>13, FlightEnds DEF PublisherStops, Fault
<1>14. CASE UNCHANGED vars
  BY <1>1, <1>14 DEF vars, rowVars
<1> QED
  BY <1>2, <1>3, <1>4, <1>5, <1>6, <1>7, <1>8, <1>9, <1>11, <1>12, <1>13, <1>14
     DEF Next, PublisherStep

(* Discord repeats a card at most once per lost answer or stop.            *)
THEOREM CopiesCostFaults == Spec => []OneCopyPerFault
<1>1. CopyInv => OneCopyPerFault
  BY DEF CopyInv, OneCopyPerFault
<1> QED BY <1>1, CopyInit, CopyStep, TypesInit, TypesStep, PTL DEF Spec

(* From mailbox to Discord nothing the Agent deleted is lost, and nothing  *)
(* is repeated without a fault.                                            *)
THEOREM DeliveryIsSound == Spec => []DeliveryHolds
<1>1. AcknowledgedIsDurable /\ OneCopyPerFault => DeliveryHolds
  BY DEF DeliveryHolds
<1> QED BY <1>1, NothingAcknowledgedIsLost, CopiesCostFaults, PTL

(* Totals, minutes and cards all say the same of the time that was played. *)
THEOREM PlayedTimeAgrees == Spec => []CountsAgree
<1>1. MinutesCountedOnce /\ CardCountsTheSession => CountsAgree
  BY DEF CountsAgree
<1> QED BY <1>1, MinutesCountOnce, CardsAreComplete, PTL

-------------------------------------------------------------------------------
(* Worlds                                                                  *)

(* Without early events Central never lags behind an event's world.        *)
WorldInv ==
  /\ activeWorld <= gameWorld
  /\ \A s \in Sessions : born[s] <= activeWorld
  /\ \A e \in quarantined : game[e.session] # "new" /\ born[e.session] < gameWorld

THEOREM WorldInit == Init => WorldInv
BY DEF Init, WorldInv

THEOREM WorldStep ==
  ASSUME "early_events" \notin Hazards
  PROVE  TypeInv /\ IntakeInv /\ WorldInv /\ [Next]_vars => WorldInv'
<1> SUFFICES ASSUME TypeInv, IntakeInv, WorldInv, [Next]_vars PROVE WorldInv'
  OBVIOUS
<1>0. GameType /\ FileType /\ \A e \in quarantined : e.session \in Sessions
  BY TypeParts, EventKinds DEF TypeInv, FileType
<1>1. gameWorld \in Nat /\ activeWorld \in Nat /\ \A s \in Sessions : born[s] \in Nat
  BY <1>0, BoundAssumption DEF GameType, Worlds
<1>2. ASSUME UNCHANGED <<gameWorld, activeWorld, game, born, quarantined>> PROVE WorldInv'
  BY <1>2 DEF WorldInv
<1>3. ASSUME NEW s \in Sessions, PlayerConnects(s) PROVE WorldInv'
  <2>1. /\ gameWorld = activeWorld /\ game[s] = "new"
        /\ born' = [born EXCEPT ![s] = gameWorld] /\ game' = [game EXCEPT ![s] = "playing"]
        /\ UNCHANGED <<gameWorld, activeWorld, quarantined>>
    BY <1>3 DEF PlayerConnects
  <2>2. \A r \in Sessions : born'[r] <= activeWorld
    BY <1>0, <1>1, <2>1 DEF WorldInv, GameType
  <2>3. \A e \in quarantined : game'[e.session] # "new" /\ born'[e.session] < gameWorld
    BY <1>0, <2>1 DEF WorldInv, GameType
  <2> QED BY <2>1, <2>2, <2>3 DEF WorldInv
<1>4. ASSUME NEW s \in Sessions, MinutePasses(s) PROVE WorldInv'
  BY <1>2, <1>4 DEF MinutePasses
<1>5. ASSUME NEW s \in Sessions, PlayerDisconnects(s) PROVE WorldInv'
  BY <1>0, <1>5 DEF PlayerDisconnects, WorldInv, GameType
<1>6. ASSUME NEW w \in Worlds, GameRestart(w) PROVE WorldInv'
  <2>1. gameWorld' \in {gameWorld, gameWorld + 1} /\ born' = born
        /\ activeWorld' = activeWorld /\ quarantined' = quarantined
    BY <1>6 DEF GameRestart, fileVars
  <2>2. \A r \in Sessions : game[r] # "new" => game'[r] # "new"
    BY GameGrows
  <2> QED BY <1>0, <1>1, <2>1, <2>2 DEF WorldInv
<1>7. ASSUME AgentStep \/ Timeout \/ AgentStops PROVE WorldInv'
  BY <1>2, <1>7 DEF AgentStep, StartPass, PostEvent, Timeout, AgentStops, gameVars, fileVars
<1>8. ASSUME NEW t \in Threads, NEW status, Answer(t, status),
             UNCHANGED <<gameWorld, activeWorld, game, born>>, request[t] # Idle,
             status = 404 => born[Event(t).session] # activeWorld
      PROVE  WorldInv'
  <2>1. Event(t) \in Events /\ Event(t).session \in Sessions
    BY <1>0, <1>8, Handles
  <2>2. Genuine(Event(t)) /\ game[Event(t).session] # "new"
    BY <1>8, <2>1, EventKinds DEF IntakeInv, ThreadInv, Genuine
  <2>3. quarantined' = quarantined \/ (status = 404 /\ quarantined' = quarantined \cup {Event(t)})
    BY <1>8 DEF Answer, Rejected, Event
  <2>4. status = 404 => born[Event(t).session] < gameWorld
    BY <1>1, <1>8, <2>1 DEF WorldInv
  <2> QED BY <1>8, <2>2, <2>3, <2>4 DEF WorldInv
<1>9. ASSUME NEW t \in Threads, ThreadStep(t) PROVE WorldInv'
  <2>1. UNCHANGED <<gameWorld, activeWorld, game, born>>
    BY <1>9 DEF ThreadStep, gameVars
  <2>2. request[t] # Idle
    BY <1>9, Busy DEF ThreadStep, Admit, Observe, Reconcile, Count, Lookup, Check, Complete,
       Summarize, Enqueue, Mark, Steps
  <2>3. CASE quarantined' = quarantined
    BY <1>2, <2>1, <2>3
  <2>4. CASE Admit(t) \/ Check(t) \/ Mark(t)
    BY <1>2, <1>8, <2>1, <2>2, <2>4 DEF Admit, Check, Mark, Goto, fileVars
  <2>5. CASE ~(Admit(t) \/ Check(t) \/ Mark(t))
    BY <1>9, <2>3, <2>5 DEF ThreadStep, Observe, Reconcile, Count, Lookup, Complete, Summarize,
       Enqueue, Goto, GotoWith, fileVars
  <2> QED BY <2>4, <2>5
<1>10. ASSUME NEW t \in Threads, RequestFails(t) PROVE WorldInv'
  BY <1>8, <1>10 DEF RequestFails, gameVars
<1>11. ASSUME ActivateWorld PROVE WorldInv'
  BY <1>0, <1>1, <1>11 DEF ActivateWorld, WorldInv, gameVars, fileVars
<1>12. ASSUME PublisherStep \/ MarkFails \/ PublisherStops PROVE WorldInv'
  BY <1>2, <1>12 DEF PublisherStep, Deliver, DeliveryFails, MarkPublished, MarkFails,
     PublisherStops, OnlyInFlight, gameVars, fileVars
<1>13. CASE UNCHANGED vars
  BY <1>2, <1>13 DEF vars, gameVars, fileVars
<1> QED
  BY <1>3, <1>4, <1>5, <1>6, <1>7, <1>9, <1>10, <1>11, <1>12, <1>13 DEF Next

(* Without early events only a replaced savegame's events are given up.    *)
THEOREM OnlyOldWorldsQuarantined ==
  ASSUME "early_events" \notin Hazards
  PROVE  Spec => []OnlyHistoricalQuarantined
<1>1. WorldInv => OnlyHistoricalQuarantined
  BY DEF WorldInv, OnlyHistoricalQuarantined
<1>2. TypeInv /\ IntakeInv /\ WorldInv /\ [Next]_vars => WorldInv'
  BY WorldStep
<1> QED BY <1>1, <1>2, WorldInit, IntakeInit, IntakeStep, TypesInit, TypesStep, PTL DEF Spec

===============================================================================

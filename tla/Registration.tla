---------------------------- MODULE Registration ----------------------------
(***************************************************************************)
(* Linking one player of one savegame to a Discord member                  *)
(* (authorization.py, community.py).  The game writes a request file for a *)
(* connected player, the Agent posts it, and Central either knows the      *)
(* player (a link of this save, or one approved member's link of another   *)
(* save) or issues a code, which the game shows and somebody enters with   *)
(* /register.  A code is derived from the second it was issued in: it is   *)
(* represented by that second, and the stored hash of a code by the second *)
(* it was derived from.                                                    *)
(*                                                                         *)
(* The Agent's POST gives up after ten seconds: Central may still be       *)
(* working on the request when the Agent posts it again, so Handlers serve *)
(* requests of the same player at the same time.                           *)
(***************************************************************************)
EXTENDS Integers, FiniteSets

CONSTANTS Members, Handlers, Life, LastSecond, MaxSlips, Nobody, NoHandler

LinkAssumption == Nobody \notin Members

NoCode == [state |-> "none", issued |-> 0, hash |-> 0, until |-> 0]
NoAnswer == [status |-> "none", shown |-> 0]
Idle == [at |-> "idle", began |-> 0, found |-> 0, result |-> NoAnswer]

Seconds == 0..LastSecond
Statuses == {"none", "registered", "registration_required"}
Answers == [status : Statuses, shown : Seconds]

VARIABLES
  application,   \* community_applications: each member's state
  elsewhere,     \* members linked to this player in other saves of the server
  taken,         \* members linked to another player in this save
  owner,         \* the member of this save's link, Nobody without one
  code,          \* the player's registration_codes row
  second,        \* the clock
  screen,        \* registrationState of the player in the running game
  file,          \* whether the request file waits in the mailbox
  posting,       \* the handler whose answer the Agent awaits
  serving,       \* what each handler of the HTTP server is doing
  answerFile,    \* the response file
  timeouts       \* how often a POST was given up, or the game restarted

registrationVars == <<application, elsewhere, taken, owner, code, second, screen, file,
                      posting, serving, answerFile, timeouts>>

Approved(d) == application[d] = "approved"
Usable(c) == c.state = "pending" /\ c.until > second

Init ==
  /\ application \in [Members -> {"denied", "approved"}]
  /\ elsewhere \in SUBSET Members
  /\ taken \in {{}} \cup {{d} : d \in Members}
  /\ owner = Nobody
  /\ code = NoCode
  /\ second = 1
  /\ screen = NoAnswer
  /\ file = FALSE
  /\ posting = NoHandler
  /\ serving = [h \in Handlers |-> Idle]
  /\ answerFile = NoAnswer
  /\ timeouts = 0

----------------------------------------------------------------------------
(* The community application: staff turn a pending one into a decision.  A *)
(* member who never applied is taken with those who were denied and may    *)
(* apply again.                                                            *)
Apply(d) ==
  /\ application[d] = "denied"
  /\ application' = [application EXCEPT ![d] = "pending"]
  /\ UNCHANGED <<elsewhere, taken, owner, code, second, screen, file, posting, serving, answerFile, timeouts>>

Decide(d) ==
  /\ application[d] = "pending"
  /\ \E to \in {"approved", "denied"} : application' = [application EXCEPT ![d] = to]
  /\ UNCHANGED <<elsewhere, taken, owner, code, second, screen, file, posting, serving, answerFile, timeouts>>

----------------------------------------------------------------------------
(* The game: the player joins, or the 20 s reconciliation refreshes a      *)
(* player who still has to register.  A request that was refused leaves    *)
(* the player waiting; it is written again after 15 minutes.               *)
Refreshable(s) == s.status # "registered"

QueueRequest ==
  /\ ~file /\ answerFile = NoAnswer
  /\ Refreshable(screen)
  /\ file' = TRUE
  /\ UNCHANGED <<application, elsewhere, taken, owner, code, second, screen, posting, serving, answerFile, timeouts>>

ReadAnswer ==
  /\ answerFile # NoAnswer
  /\ screen' = answerFile
  /\ answerFile' = NoAnswer
  /\ UNCHANGED <<application, elsewhere, taken, owner, code, second, file, posting, serving, timeouts>>

Restart ==
  /\ timeouts < MaxSlips
  /\ timeouts' = timeouts + 1
  /\ screen' = NoAnswer
  /\ UNCHANGED <<application, elsewhere, taken, owner, code, second, file, posting, serving, answerFile>>

----------------------------------------------------------------------------
(* The Agent.                                                              *)
Post(h) ==
  /\ file
  /\ posting = NoHandler
  /\ serving[h] = Idle
  /\ posting' = h
  /\ serving' = [serving EXCEPT ![h].at = "enroll"]
  /\ UNCHANGED <<application, elsewhere, taken, owner, code, second, screen, file, answerFile, timeouts>>

GiveUp ==
  /\ posting # NoHandler
  /\ timeouts < MaxSlips
  /\ timeouts' = timeouts + 1
  /\ posting' = NoHandler
  /\ UNCHANGED <<application, elsewhere, taken, owner, code, second, screen, file, serving, answerFile>>

(* The handler's answer: 200 writes the response file and removes the      *)
(* request, 400 quarantines it, 500 keeps it for the next pass.  The       *)
(* answer to a POST that was given up is lost.                             *)
Answer(h) ==
  /\ serving[h].at \in {"answer", "refused", "failed"}
  /\ serving' = [serving EXCEPT ![h] = Idle]
  /\ posting' = IF posting = h THEN NoHandler ELSE posting
  /\ IF posting # h THEN UNCHANGED <<file, answerFile>>
     ELSE /\ file' = (file /\ serving[h].at = "failed")
          /\ answerFile' = IF serving[h].at = "answer" THEN serving[h].result ELSE answerFile
  /\ UNCHANGED <<application, elsewhere, taken, owner, code, second, screen, timeouts>>

----------------------------------------------------------------------------
(* Central.  _auto_enroll_registration, one transaction.                   *)
Registered == [Idle EXCEPT !.at = "answer", !.result = [status |-> "registered", shown |-> 0]]

Enroll(h) ==
  /\ serving[h].at = "enroll"
  /\ \/ /\ owner # Nobody
        /\ serving' = [serving EXCEPT ![h] = Registered]
        /\ UNCHANGED owner
     \/ /\ owner = Nobody
        /\ \/ elsewhere = {}
           \/ \E d \in Members : elsewhere = {d} /\ ~Approved(d)
        /\ serving' = [serving EXCEPT ![h].at = "look"]
        /\ UNCHANGED owner
     \/ /\ owner = Nobody
        /\ \/ Cardinality(elsewhere) > 1
           \/ \E d \in Members : elsewhere = {d} /\ Approved(d) /\ d \in taken
        /\ serving' = [serving EXCEPT ![h].at = "refused"]
        /\ UNCHANGED owner
     \/ /\ owner = Nobody
        /\ \E d \in Members \ taken : elsewhere = {d} /\ Approved(d) /\ owner' = d
        /\ serving' = [serving EXCEPT ![h] = Registered]
  /\ UNCHANGED <<application, elsewhere, taken, code, second, screen, file, posting, answerFile, timeouts>>

Required(c) == [Idle EXCEPT !.at = "answer",
                            !.result = [status |-> "registration_required", shown |-> c]]

(* create_registration_code reads the row ...                              *)
Look(h) ==
  /\ serving[h].at = "look"
  /\ serving' = [serving EXCEPT ![h] =
       IF Usable(code) THEN Required(code.issued)
       ELSE [Idle EXCEPT !.at = "put", !.began = second,
                         !.found = IF code.state = "pending" THEN code.until ELSE 0]]
  /\ UNCHANGED <<application, elsewhere, taken, owner, code, second, screen, file, posting, answerFile, timeouts>>

(* ... and writes it.  An expired row is replaced if it is still the one   *)
(* that was read; otherwise the row is inserted, or given the new hash and *)
(* its old second of issue when another handler was faster.  A row that    *)
(* was used meanwhile makes the insert fail on its key.                    *)
Put(h) ==
  LET now == serving[h].began
      issue == [state |-> "pending", issued |-> now, hash |-> now, until |-> now + Life]
  IN /\ serving[h].at = "put"
     /\ \/ /\ serving[h].found # 0
           /\ code' = IF code.state = "pending" /\ code.until = serving[h].found
                      THEN issue ELSE code
           /\ serving' = [serving EXCEPT ![h] = Required(now)]
        \/ /\ serving[h].found = 0 /\ code.state # "used"
           /\ code' = IF code.state = "none" THEN issue
                      ELSE [issue EXCEPT !.issued = code.issued]
           /\ serving' = [serving EXCEPT ![h] = Required(now)]
        \/ /\ serving[h].found = 0 /\ code.state = "used"
           /\ serving' = [serving EXCEPT ![h].at = "failed"]
           /\ UNCHANGED code
     /\ UNCHANGED <<application, elsewhere, taken, owner, second, screen, file, posting, answerFile, timeouts>>

(* /register in Discord, one transaction.                                  *)
Linkable(d) == d \notin taken /\ owner \in {Nobody, d}

Register(d) ==
  /\ screen.status = "registration_required"
  /\ Usable(code) /\ code.hash = screen.shown
  /\ Linkable(d)
  /\ owner' = d
  /\ code' = [code EXCEPT !.state = "used"]
  /\ UNCHANGED <<application, elsewhere, taken, second, screen, file, posting, serving, answerFile, timeouts>>

----------------------------------------------------------------------------
Tick ==
  /\ second + Life < LastSecond
  /\ second' = second + 1
  /\ UNCHANGED <<application, elsewhere, taken, owner, code, screen, file, posting, serving, answerFile, timeouts>>

(* The TTL index removes a row some time after its expiry.                 *)
Expire ==
  /\ code # NoCode /\ code.until <= second
  /\ code' = NoCode
  /\ UNCHANGED <<application, elsewhere, taken, owner, second, screen, file, posting, serving, answerFile, timeouts>>

Next ==
  \/ \E d \in Members : Apply(d) \/ Decide(d) \/ Register(d)
  \/ QueueRequest \/ ReadAnswer \/ Restart \/ GiveUp
  \/ \E h \in Handlers : Post(h) \/ Answer(h) \/ Enroll(h) \/ Look(h) \/ Put(h)
  \/ Tick \/ Expire

Spec == Init /\ [][Next]_registrationVars

(* The game reconciles its players every 20 seconds, the Agent passes over *)
(* its mailbox every few seconds, and a handler runs to its answer.        *)
Posts == \E h \in Handlers : Post(h)
Serves(h) == Answer(h) \/ Enroll(h) \/ Look(h) \/ Put(h)
Fairness ==
  /\ WF_registrationVars(QueueRequest) /\ WF_registrationVars(ReadAnswer)
  /\ WF_registrationVars(Posts)
  /\ \A h \in Handlers : WF_registrationVars(Serves(h))
LiveSpec == Spec /\ Fairness

----------------------------------------------------------------------------
TypeOK ==
  /\ application \in [Members -> {"pending", "approved", "denied"}]
  /\ elsewhere \subseteq Members /\ taken \subseteq Members
  /\ owner \in Members \cup {Nobody}
  /\ code \in [state : {"none", "pending", "used"}, issued : Seconds, hash : Seconds, until : Seconds]
  /\ second \in Seconds
  /\ screen \in Answers
  /\ file \in BOOLEAN
  /\ posting \in Handlers \cup {NoHandler}
  /\ serving \in [Handlers -> [at : {"idle", "enroll", "look", "put", "answer", "refused", "failed"},
                               began : Seconds, found : Seconds, result : Answers]]
  /\ answerFile \in Answers
  /\ timeouts \in 0..MaxSlips

(* A link is made once: while a code is still on somebody's screen, the    *)
(* automatic enrollment of an approved member may link the player first,   *)
(* and a later /register of that code by somebody else changes nothing.    *)
(* The game never releases a player Central has not linked.                *)
LinkStays ==
  [][/\ owner # Nobody => owner' = owner
     /\ screen'.status = "registered" => owner # Nobody]_registrationVars

(* "run /register code:<CODE>, wait a few seconds, and confirm the prompt  *)
(* stops": a linked player who stays is released, whatever answers were    *)
(* lost or are still on their way.                                         *)
Linked == owner # Nobody
Released == screen.status = "registered"
LinkedIsReleased == Linked ~> Released

(* "Refresh issued_at here so future status polls derive the same token    *)
(* hash that was stored": the code later polls show is the stored one.     *)
PollsRepeatTheCode == Usable(code) => code.issued = code.hash

(* "/register ... Requires approved community membership and a valid       *)
(* code."                                                                  *)
OnlyMembersRegister ==
  [][\A d \in Members : owner = Nobody /\ owner' = d => Approved(d)]_registrationVars
=============================================================================

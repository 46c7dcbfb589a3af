----------------------------- MODULE SuggestionBoard ---------------------------
(***************************************************************************)
(* A forum post of #mod-suggestions (mod_suggestions.py and the gateway    *)
(* handlers of bot_frontend.py).  Discord holds the post: its tags, the    *)
(* members' votes, the bot's two seed reactions and the title.  Handlers   *)
(* run one at a time under a lock, yet each of their calls is an await in  *)
(* which members vote and moderators decide.                               *)
(***************************************************************************)
EXTENDS Naturals, FiniteSets, Sequences

CONSTANTS MaxChanges, MaxFailures    \* bounds on what people do and on calls that fail

VARIABLES
  tags,      \* applied_tags of the post, in order
  votes,     \* members' votes: [green, red]
  seeds,     \* the bot's own reactions
  title,     \* what the title prefix says: a decision, or the votes counted
  waiting,   \* gateway events whose handler has not begun: "prepare", "refresh"
  worker,    \* handlers that hold the lock (at most one): [task, step, tags, seeded, votes]
  changes, failed,
  lost       \* what went amiss and was not made good: a "decision" overwritten,
             \* a "refresh" of the title, a "seed" that may stand alone
boardVars == <<tags, votes, seeds, title, waiting, worker, changes, failed, lost>>

Decisions == {"Accepted", "Rejected"}
Both == {"green", "red"}

(* decision_label: the decision tag applied last *)
Label(ts) == LET d == SelectSeq(ts, LAMBDA t : t \in Decisions)
             IN IF d = <<>> THEN "open" ELSE d[Len(d)]
TitleOf(ts, v) == IF Label(ts) = "open" THEN <<v.green, v.red>> ELSE <<Label(ts)>>

(* A post of the form carries the tag, one written by hand may not. *)
Init ==
  /\ tags \in {<<>>, <<"Under Review">>} /\ votes = [green |-> 0, red |-> 0]
  /\ seeds = {} /\ title = <<>> /\ waiting = {"prepare"} /\ worker = {}
  /\ changes = 0 /\ failed = 0 /\ lost = {}

(* A call that fails may have taken effect before its answer was lost. *)
Fails == failed < MaxFailures /\ failed' = failed + 1

(* A reaction count includes the bot's own; member_vote_counts takes that one
   off where it stands, whatever became of the other seed.                    *)
Own(c) == IF c \in seeds THEN 1 ELSE 0
Reactions == [c \in Both |-> votes[c] + Own(c)]
MemberVotes == [c \in Both |-> Reactions[c] - Own(c)]

-----------------------------------------------------------------------------
Vote(c) ==
  /\ changes < MaxChanges /\ changes' = changes + 1
  /\ votes' = [votes EXCEPT ![c] = 1 - @]
  /\ waiting' = waiting \union {"refresh"}
  /\ UNCHANGED <<tags, seeds, title, worker, failed, lost>>

(* A moderator adds a decision tag or takes the decisions back. *)
Decide(ts) ==
  /\ changes < MaxChanges /\ changes' = changes + 1 /\ ts # tags
  /\ ts \in {Append(tags, d) : d \in Decisions} \union {SelectSeq(tags, LAMBDA t : t \notin Decisions)}
  /\ tags' = ts /\ waiting' = waiting \union {"refresh"}
  /\ UNCHANGED <<votes, seeds, title, worker, failed, lost>>

(* A moderator clears one emoji or all, the bot's own reactions with them. *)
Clear(cs) ==
  /\ changes < MaxChanges /\ changes' = changes + 1
  /\ votes' = [c \in Both |-> IF c \in cs THEN 0 ELSE votes[c]]
  /\ seeds' = seeds \ cs /\ lost' = lost \union {"seed"}
  /\ waiting' = waiting \union {"refresh"}
  /\ UNCHANGED <<tags, title, worker, failed>>

(* thread_create and the starter message arrive in either order, or again. *)
Replay ==
  /\ changes < MaxChanges /\ changes' = changes + 1 /\ waiting' = waiting \union {"prepare"}
  /\ UNCHANGED <<tags, votes, seeds, title, worker, failed, lost>>

-----------------------------------------------------------------------------
Free(w) == worker = {}

(* _handle_mod_suggestion or _refresh_mod_suggestion_votes, up to the fetch of
   the thread; a refresh goes on to the starter message at once.              *)
Begin(task) ==
  LET w == [task |-> task, step |-> IF task = "prepare" THEN "tag" ELSE "count",
            tags |-> tags, seeded |-> {}, votes |-> votes]
  IN /\ task \in waiting /\ waiting' = waiting \ {task}
     /\ Free(w) /\ worker' = worker \union {w}
     /\ UNCHANGED <<tags, votes, seeds, title, changes, failed, lost>>

Becomes(w, x) == worker' = (worker \ {w}) \union {x}
Ends(w) == worker' = worker \ {w}

(* prepare_suggestion writes back the tags it read and one more: a decision
   made since is gone.  Its own edit is an on_thread_update as well.           *)
Reviewed(w) == Label(w.tags) # "open" \/ \E i \in 1..Len(w.tags) : w.tags[i] = "Under Review"
Overwritten(w) == IF Reviewed(w) \/ tags = w.tags THEN {} ELSE {"decision"}
Review(w) ==
  IF Reviewed(w) THEN UNCHANGED <<tags, waiting>>
  ELSE tags' = Append(w.tags, "Under Review") /\ waiting' = waiting \union {"refresh"}

(* The seeds that stand are then read afresh, and what is missing is made good. *)
Tag(w) ==
  /\ w.step = "tag" /\ Becomes(w, [w EXCEPT !.step = "seed", !.seeded = seeds])
  /\ Review(w) /\ lost' = (lost \ {"seed"}) \union Overwritten(w)
  /\ UNCHANGED <<votes, seeds, title, changes, failed>>

(* The two seeds, green first; each is a reaction event of its own. *)
Missing(w) == IF "green" \notin w.seeded THEN "green" ELSE "red"
Seed(w) ==
  /\ w.step = "seed" /\ w.seeded # Both
  /\ seeds' = seeds \union {Missing(w)} /\ Becomes(w, [w EXCEPT !.seeded = @ \union {Missing(w)}])
  /\ waiting' = waiting \union {"refresh"}
  /\ UNCHANGED <<tags, votes, title, changes, failed, lost>>

(* A reaction enters `seeded` only once its call has returned: one that took
   effect and then raised is not among those taken back.                      *)
SeedFails(w) ==
  /\ w.step = "seed" /\ w.seeded # Both /\ Fails /\ Becomes(w, [w EXCEPT !.step = "retract"])
  /\ \/ UNCHANGED <<seeds, waiting, lost>>
     \/ /\ seeds' = seeds \union {Missing(w)} /\ lost' = lost \union {"seed"}
        /\ waiting' = waiting \union {"refresh"}
  /\ UNCHANGED <<tags, votes, title, changes>>

(* The seed known to stand is taken back; a failure here is logged only.  The
   handler then ends without a title, and a reaction taken back is an event.  *)
Withdraw(w) ==
  \/ /\ seeds' = seeds \ w.seeded /\ lost' = lost \union {"refresh"} /\ UNCHANGED failed
     /\ waiting' = IF w.seeded = {} THEN waiting ELSE waiting \union {"refresh"}
  \/ /\ w.seeded # {} /\ Fails /\ lost' = lost \union {"refresh", "seed"}
     /\ UNCHANGED <<seeds, waiting>>
Retract(w) ==
  /\ w.step = "retract" /\ Withdraw(w) /\ Ends(w)
  /\ UNCHANGED <<tags, votes, title, changes>>

(* fetch_message, then update_vote_title with the tags read at the beginning *)
Counting(w) == w.step = "count" \/ (w.step = "seed" /\ w.seeded = Both)
Count(w) ==
  /\ Counting(w) /\ Becomes(w, [w EXCEPT !.step = "title", !.votes = MemberVotes])
  /\ UNCHANGED <<tags, votes, seeds, title, waiting, changes, failed, lost>>

Retitle(w) ==
  /\ w.step = "title" /\ title' = TitleOf(w.tags, w.votes) /\ Ends(w)
  /\ lost' = lost \ {"refresh"}
  /\ UNCHANGED <<tags, votes, seeds, waiting, changes, failed>>

(* Any other call that raises ends its handler, its edit made or not. *)
CallFails(w) ==
  /\ Fails /\ Ends(w)
  /\ \/ /\ w.step \in {"tag", "title"} \/ Counting(w)
        /\ lost' = lost \union {"refresh"} /\ UNCHANGED <<tags, title, waiting>>
     \/ /\ w.step = "tag" /\ Review(w) /\ UNCHANGED title
        /\ lost' = lost \union {"refresh"} \union Overwritten(w)
     \/ /\ w.step = "title" /\ title' = TitleOf(w.tags, w.votes)
        /\ lost' = lost \union {"refresh"} /\ UNCHANGED <<tags, waiting>>
  /\ UNCHANGED <<votes, seeds, changes>>

(* The bot stops: its handler and the events that wait are gone.  Back again,
   on_ready refreshes the titles; an interrupted preparation is not resumed.  *)
BotStops ==
  /\ Fails /\ worker' = {} /\ waiting' = {"refresh"}
  /\ lost' = IF \E w \in worker : w.step \in {"seed", "retract"} THEN lost \union {"seed"} ELSE lost
  /\ UNCHANGED <<tags, votes, seeds, title, changes>>

Discord == (\E c \in Both : Vote(c) \/ Clear({c})) \/ Clear(Both) \/ Replay
           \/ (\E ts \in {Append(tags, d) : d \in Decisions}
                  \union {SelectSeq(tags, LAMBDA t : t \notin Decisions)} : Decide(ts))
Bot == (\E task \in waiting : Begin(task))
       \/ \E w \in worker : Tag(w) \/ Seed(w) \/ Retract(w) \/ Count(w) \/ Retitle(w)
Trouble == BotStops \/ \E w \in worker : SeedFails(w) \/ CallFails(w)
Next == Discord \/ Bot \/ Trouble
Spec == Init /\ [][Next]_boardVars
LiveSpec == Spec /\ WF_boardVars(Bot)

-----------------------------------------------------------------------------
TypeOK ==
  /\ votes \in [Both -> 0..1] /\ seeds \subseteq Both
  /\ waiting \subseteq {"prepare", "refresh"} /\ Cardinality(worker) <= 1
  /\ changes \in 0..MaxChanges /\ failed \in 0..MaxFailures

(* Between handlers the bot's two neutral votes stand together or not at all:
   events replayed and calls that fail without effect leave neither side ahead.
   One may stand alone after a call whose effect was not known, a retraction
   that failed, a stop or a moderator's clearing, but only until the next
   preparation, which reads what stands.  (prepare_suggestion, its except.)    *)
SeedsAreBalanced == worker = {} => seeds \in {{}, Both} \/ "seed" \in lost

(* What the comment of that except says (mod_suggestions.py:178).  Not so: the
   exceptions above leave one seed alone, and nothing need come after them.    *)
NeverOneSided == worker = {} => seeds \in {{}, Both}

(* Once people stop voting and deciding, the title comes to show the decision
   or the members' votes as they are, wherever the bot's own reactions stand and
   even after a stop, unless the last handler that should have set it failed.  *)
TitleIsRight == title = TitleOf(tags, votes) \/ "refresh" \in lost
TitleCatchesUp == <>[]TitleIsRight
=============================================================================

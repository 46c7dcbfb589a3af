------------------------------- MODULE PlayTime -------------------------------
(***************************************************************************)
(* What the activity pipeline promises about played time, with no file, no *)
(* event, no thread and no handler in it.  A minute that was played is     *)
(* counted at most once, in any order, for the player and the world it was *)
(* played in.  A session closes after it was left and all its minutes are  *)
(* counted; from then on nothing about it changes.  It is reported once,   *)
(* with every minute it has.                                               *)
(***************************************************************************)
EXTENDS Naturals

CONSTANTS
  Players, Sessions, Worlds,
  Owner      \* Owner[s]: the player of session s

VARIABLES
  begun,     \* sessions that were opened
  world,     \* world[s]: where session s was opened
  played,    \* played[s]: minutes of session s so far
  over,      \* sessions the player has left
  counted,   \* <<s, n>>: minute n of session s counts
  total,     \* total[s]: minutes counted in session s
  hours,     \* hours[<<p, w>>]: minutes counted for player p in world w
  closed,    \* sessions whose minutes are complete
  reported   \* <<s, n>>: session s was reported with n minutes

playedVars == <<begun, world, played, over>>
countVars == <<counted, total, hours>>
timeVars == <<playedVars, countVars, closed, reported>>

Init ==
  /\ begun = {} /\ over = {} /\ closed = {} /\ reported = {} /\ counted = {}
  /\ world = [s \in Sessions |-> 0]
  /\ played = [s \in Sessions |-> 0]
  /\ total = [s \in Sessions |-> 0]
  /\ hours = [q \in Players \X Worlds |-> 0]

Begin(s, w) ==
  /\ s \notin begun
  /\ begun' = begun \union {s} /\ world' = [world EXCEPT ![s] = w]
  /\ UNCHANGED <<played, over, countVars, closed, reported>>

Play(s) ==
  /\ s \in begun \ over
  /\ played' = [played EXCEPT ![s] = @ + 1]
  /\ UNCHANGED <<begun, world, over, countVars, closed, reported>>

Leave(s) ==
  /\ s \in begun \ over
  /\ over' = over \union {s}
  /\ UNCHANGED <<begun, world, played, countVars, closed, reported>>

Count(s, n) ==
  /\ s \in begun \ closed
  /\ <<s, n>> \notin counted
  /\ counted' = counted \union {<<s, n>>}
  /\ total' = [total EXCEPT ![s] = @ + 1]
  /\ hours' = [hours EXCEPT ![<<Owner[s], world[s]>>] = @ + 1]
  /\ UNCHANGED <<playedVars, closed, reported>>

Close(s) ==
  /\ s \in over \ closed
  /\ \A n \in 1..played[s] : <<s, n>> \in counted
  /\ closed' = closed \union {s}
  /\ UNCHANGED <<playedVars, countVars, reported>>

Report(s) ==
  /\ s \in closed /\ \A entry \in reported : entry[1] # s
  /\ reported' = reported \union {<<s, played[s]>>}
  /\ UNCHANGED <<playedVars, countVars, closed>>

Next ==
  \E s \in Sessions :
    \/ \E w \in Worlds : Begin(s, w)
    \/ Play(s) \/ Leave(s)
    \/ \E n \in 1..played[s] : Count(s, n)
    \/ Close(s) \/ Report(s)

Spec == Init /\ [][Next]_timeVars
===============================================================================

------------------------------ MODULE RuntimePointer ---------------------------
(***************************************************************************)
(* Which game runtime, save and world of a server central serves           *)
(* (server_registry.py, server_api.py do_snapshot).  The game restarts,    *)
(* changes saves and replaces worlds; its snapshots may be delayed past a  *)
(* restart, because a post that timed out at the Agent can still wait at   *)
(* central for the lock.                                                   *)
(***************************************************************************)
EXTENDS Naturals, FiniteSets

CONSTANTS
  Saves,       \* save keys
  Threads,     \* request threads
  MaxLoad, MaxSequence, MaxFlight, MaxLapses,   \* bounds
  None

Snapshot == [load : Nat, generation : Nat, sequence : Nat, save : Saves, world : Nat]
RuntimeAssumption == None \notin Snapshot /\ MaxLoad \in Nat \ {0}

VARIABLES
  game,       \* the running game: [load, generation, sequence, save]; load counts its starts
  world,      \* world[s]: the marker saved with save s
  flight,     \* snapshots posted and not yet taken up
  thread,     \* thread[t]: [step, post]
  pointer,    \* sin_servers.active_runtime
  snapshots,  \* server_snapshots[s]: the snapshot stored last for s
  active,     \* active[s]: the active world generation
  lapses      \* starts without a readable generation file, writes that failed half-way
runtimeVars == <<game, world, flight, thread, pointer, snapshots, active, lapses>>

Resting == [step |-> "free", post |-> None]
Start(s) == [load |-> 1, generation |-> 1, sequence |-> 1, save |-> s]
Init ==
  /\ game \in {Start(s) : s \in Saves} /\ world = [s \in Saves |-> 1] /\ flight = {}
  /\ thread = [t \in Threads |-> Resting] /\ pointer = None
  /\ snapshots = [s \in Saves |-> None] /\ active = [s \in Saves |-> 0] /\ lapses = 0

-----------------------------------------------------------------------------
(* initializeRuntimeGeneration: an unreadable file leaves the generation 0. *)
Load(s, unreadable, replaced) ==
  /\ game.load < MaxLoad
  /\ game' = [load |-> game.load + 1, sequence |-> 1, save |-> s,
              generation |-> IF unreadable THEN 0 ELSE game.load + 1]
  /\ IF unreadable THEN lapses < MaxLapses /\ lapses' = lapses + 1 ELSE UNCHANGED lapses
  /\ world' = IF replaced THEN [world EXCEPT ![s] = game.load + 1] ELSE world
  /\ UNCHANGED <<flight, thread, pointer, snapshots, active>>

ExportSnapshot ==
  /\ game.sequence < MaxSequence /\ game' = [game EXCEPT !.sequence = @ + 1]
  /\ UNCHANGED <<world, flight, thread, pointer, snapshots, active, lapses>>

Post ==
  /\ Cardinality(flight) < MaxFlight
  /\ flight' = flight \union {[load |-> game.load, generation |-> game.generation,
       sequence |-> game.sequence, save |-> game.save, world |-> world[game.save]]}
  /\ UNCHANGED <<game, world, thread, pointer, snapshots, active, lapses>>

-----------------------------------------------------------------------------
(* validate_runtime_snapshot; a session label grows with the loads *)
NewFormat(m) ==
  /\ m.generation >= pointer.generation
  /\ m.generation = pointer.generation =>
       m.load = pointer.load /\ m.save = pointer.save /\ m.sequence >= pointer.sequence
Legacy(m) ==
  /\ m.save = pointer.save /\ m.load >= pointer.load
  /\ m.load = pointer.load => m.sequence >= pointer.sequence
Valid(m) ==
  \/ pointer = None
  \/ pointer # None /\ m.generation > 0 /\ pointer.generation > 0 /\ NewFormat(m)
  \/ pointer # None /\ m.generation > 0 /\ pointer.generation = 0
  \/ pointer # None /\ m.generation = 0 /\ Legacy(m)

NeverLocked == Threads = {}   \* WRONG: no SNAPSHOT_LOCK
Locked == \E t \in Threads : thread[t].step # "free"

(* do_snapshot under SNAPSHOT_LOCK: validate, record, validate again and activate *)
Take(t, m) ==
  /\ ~Locked /\ thread[t] = Resting /\ m \in flight /\ flight' = flight \ {m}
  /\ thread' = IF Valid(m) THEN [thread EXCEPT ![t] = [step |-> "record", post |-> m]] ELSE thread
  /\ UNCHANGED <<game, world, pointer, snapshots, active, lapses>>

(* record_snapshot: world activation and snapshot in one transaction *)
Record(t) ==
  /\ thread[t].step = "record" /\ thread' = [thread EXCEPT ![t].step = "activate"]
  /\ snapshots' = [snapshots EXCEPT ![thread[t].post.save] = thread[t].post]
  /\ active' = [active EXCEPT ![thread[t].post.save] = thread[t].post.world]
  /\ UNCHANGED <<game, world, flight, pointer, lapses>>

ActivateRuntime(t) ==
  /\ thread[t].step = "activate" /\ thread' = [thread EXCEPT ![t] = Resting]
  /\ pointer' = IF Valid(thread[t].post) THEN thread[t].post ELSE pointer
  /\ UNCHANGED <<game, world, flight, snapshots, active, lapses>>

(* A write fails: the thread answers an error, what it wrote before stays. *)
Fail(t) ==
  /\ thread[t] # Resting /\ thread' = [thread EXCEPT ![t] = Resting]
  /\ lapses < MaxLapses /\ lapses' = lapses + 1
  /\ UNCHANGED <<game, world, flight, pointer, snapshots, active>>

Next ==
  \/ \E s \in Saves, unreadable, replaced \in BOOLEAN : Load(s, unreadable, replaced)
  \/ ExportSnapshot \/ Post
  \/ \E t \in Threads : \/ \E m \in flight : Take(t, m)
                        \/ Record(t) \/ ActivateRuntime(t) \/ Fail(t)
Spec == Init /\ [][Next]_runtimeVars

-----------------------------------------------------------------------------
TypeOK ==
  /\ game.load \in 1..MaxLoad /\ game.generation \in {0, game.load} /\ game.save \in Saves
  /\ \A t \in Threads : thread[t].step \in {"free", "record", "activate"}
  /\ Cardinality({t \in Threads : thread[t].step # "free"}) <= 1
  /\ \A s \in Saves : active[s] \in 0..MaxLoad /\ world[s] \in 1..MaxLoad

(* The runtime central serves, the snapshot it reads farms from and the world
   its operations run in are those of one and the same post between requests:
   no delayed snapshot of an older runtime has replaced the newer world.  After
   a write that failed between the record and the pointer, or a start without
   a generation file, what is stored is still at least as new as the pointer.  *)
OneRuntimeServed ==
  pointer # None =>
    /\ lapses = 0 /\ (\A t \in Threads : thread[t] = Resting) =>
         /\ snapshots[pointer.save] = pointer /\ active[pointer.save] = pointer.world
         /\ \A s \in Saves : snapshots[s] # None => snapshots[s].load <= pointer.load
    /\ pointer.generation > 0 =>
         snapshots[pointer.save] # None /\ snapshots[pointer.save].load >= pointer.load
=============================================================================

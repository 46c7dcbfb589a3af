------------------------------- MODULE MapRegistry -----------------------------
(***************************************************************************)
(* Map geometry from the game to the farm pickers (map_service.py MapStore *)
(* and MapService, event_processing.py).  The mod exports the map once per *)
(* start, often before the snapshot that activates its world; the API      *)
(* process stores it, the bot process reloads it before each use.  A map   *)
(* is told apart by the start that exported it.                            *)
(***************************************************************************)
EXTENDS Naturals, FiniteSets

CONSTANTS
  Threads,    \* request threads of the API
  Readers,    \* threads of the bot that load the map
  MaxStart    \* bound on the starts of the game

MapAssumption == MaxStart \in Nat \ {0}

VARIABLES
  start,     \* number of the running game's start, its runtime generation
  worldOf,   \* worldOf[n]: the world start n loaded
  files,     \* map_geometry events in the mailbox
  refused,   \* events quarantined
  kept,      \* events answered "accepted"
  servedWorld, servedStart,   \* the active world, and the runtime it is taken from
  maps,      \* sin_maps[w]: source_generation, 0 without a document
  request,   \* request[t]: {} or one [event, read]
  loaded,    \* MapService._maps[w], 0 if none
  reader,    \* reader[b]: {} or one [world, read]
  slips      \* "overlap": two deliveries were at central at once; "no pointer": one was refused
             \* although central did not know which runtime it serves
mapVars == <<start, worldOf, files, refused, kept, servedWorld, servedStart, maps, request,
             loaded, reader, slips>>

Starts == 1..MaxStart
Init ==
  /\ start = 1 /\ worldOf = [n \in Starts |-> 1] /\ files = {1} /\ refused = {} /\ kept = {}
  /\ servedWorld = 0 /\ servedStart = 0 /\ maps = [w \in Starts |-> 0]
  /\ request = [t \in Threads |-> {}] /\ loaded = [w \in Starts |-> 0]
  /\ reader = [b \in Readers |-> {}] /\ slips = {}

-----------------------------------------------------------------------------
(* The game starts again, with the same world or with a replaced one. *)
Restart(w) ==
  /\ start < MaxStart /\ start' = start + 1 /\ w \in {worldOf[start], start + 1}
  /\ worldOf' = [worldOf EXCEPT ![start + 1] = w] /\ files' = files \union {start + 1}
  /\ UNCHANGED <<refused, kept, servedWorld, servedStart, maps, request, loaded, reader, slips>>

(* A snapshot of the running game (RuntimePointer): the world, then the pointer. *)
ActivateWorld ==
  /\ servedWorld # worldOf[start] /\ servedWorld' = worldOf[start]
  /\ UNCHANGED <<start, worldOf, files, refused, kept, servedStart, maps, request, loaded, reader, slips>>
ActivateRuntime ==
  /\ servedWorld = worldOf[start] /\ servedStart # start /\ servedStart' = start
  /\ UNCHANGED <<start, worldOf, files, refused, kept, servedWorld, maps, request, loaded, reader, slips>>

-----------------------------------------------------------------------------
Current(n) == servedWorld \in {0, worldOf[n]}
Ahead(n) == servedStart > 0 /\ n > servedStart

Deliver(t, n) ==
  /\ n \in files /\ request[t] = {} /\ Current(n)
  /\ request' = [request EXCEPT ![t] = {[event |-> n, read |-> maps[worldOf[n]]]}]
  /\ slips' = slips \union (IF \E u \in Threads : request[u] # {} THEN {"overlap"} ELSE {})
  /\ UNCHANGED <<start, worldOf, files, refused, kept, servedWorld, servedStart, maps, loaded, reader>>

(* EventScopeError is permanent, EventRetryableError leaves the file. *)
Refuse(n) ==
  /\ n \in files /\ ~Current(n) /\ ~Ahead(n)
  /\ files' = files \ {n} /\ refused' = refused \union {n}
  /\ slips' = slips \union (IF servedStart = 0 THEN {"no pointer"} ELSE {})
  /\ UNCHANGED <<start, worldOf, kept, servedWorld, servedStart, maps, request, loaded, reader>>

(* MapStore.persist compares with the generation it read before. *)
Stale(x) == x.event < x.read
Persist(t) ==
  \E x \in request[t] :
    /\ request' = [request EXCEPT ![t] = {}]
    /\ maps' = IF Stale(x) THEN maps ELSE [maps EXCEPT ![worldOf[x.event]] = x.event]
    /\ files' = files \ {x.event} /\ kept' = kept \union {x.event}
    /\ UNCHANGED <<start, worldOf, refused, servedWorld, servedStart, loaded, reader, slips>>

(* The answer does not come or central stops: the file stays and is posted again. *)
Drop(t) ==
  \E x \in request[t], stored \in BOOLEAN :
    /\ request' = [request EXCEPT ![t] = {}]
    /\ maps' = IF Stale(x) \/ ~stored THEN maps ELSE [maps EXCEPT ![worldOf[x.event]] = x.event]
    /\ UNCHANGED <<start, worldOf, files, refused, kept, servedWorld, servedStart, loaded, reader, slips>>

-----------------------------------------------------------------------------
(* ensure_registered_map: load_persisted reads the document, and registers
   another revision than the one it holds, or none.                         *)
Read(b) ==
  /\ reader[b] = {} /\ servedWorld # 0
  /\ reader' = [reader EXCEPT ![b] = {[world |-> servedWorld, read |-> maps[servedWorld]]}]
  /\ UNCHANGED <<start, worldOf, files, refused, kept, servedWorld, servedStart, maps, request, loaded, slips>>

Register(b) ==
  \E x \in reader[b] :
    /\ reader' = [reader EXCEPT ![b] = {}] /\ loaded' = [loaded EXCEPT ![x.world] = x.read]
    /\ UNCHANGED <<start, worldOf, files, refused, kept, servedWorld, servedStart, maps, request, slips>>

Central == \/ ActivateWorld \/ ActivateRuntime
           \/ \E n \in files : Refuse(n) \/ (\E t \in Threads : Deliver(t, n))
           \/ \E t \in Threads : Persist(t)
Next == \/ Central \/ (\E w \in Starts : Restart(w)) \/ (\E t \in Threads : Drop(t))
        \/ \E b \in Readers : Read(b) \/ Register(b)
Spec == Init /\ [][Next]_mapVars

(* The Agent polls and posts the oldest event; the bot's users ask again.
   A post that is answered once in a while is answered in the end (SF).    *)
Served == ActivateWorld \/ ActivateRuntime
Refused == \E n \in Starts : Refuse(n)
Delivered(n) == n \in files /\ \E t \in Threads : Deliver(t, n)
Persisted == \E t \in Threads : Persist(t)
Reads(b) == Read(b) \/ Register(b)
LiveSpec ==
  /\ Spec /\ WF_mapVars(Served) /\ WF_mapVars(Refused)
  /\ (\A n \in Starts : SF_mapVars(Delivered(n))) /\ SF_mapVars(Persisted)
  /\ \A b \in Readers : WF_mapVars(Reads(b))

-----------------------------------------------------------------------------
TypeOK ==
  /\ start \in Starts /\ servedWorld \in 0..MaxStart /\ servedStart \in 0..start
  /\ maps \in [Starts -> 0..MaxStart] /\ loaded \in [Starts -> 0..MaxStart]
  /\ files \union refused \union kept = 1..start /\ files \intersect refused = {}
  /\ \A w \in Starts : maps[w] # 0 => worldOf[maps[w]] = w

(* The map stored for a world is never older than one accepted for it
   (docstring of MapStore), as long as two deliveries do not overlap.      *)
NewerMapStays == \A n \in kept : "overlap" \notin slips => maps[worldOf[n]] >= n

(* Once the game stays up, central serves the map of its very start, and the
   bot holds it: geometry that arrived before its world was active is not
   lost, unless it was refused when no runtime was known yet, and a document
   read late does not stick.                                                *)
MapIsThere ==
  /\ maps[worldOf[start]] = start \/ slips # {}
  /\ servedWorld # 0 => loaded[servedWorld] = maps[servedWorld]
MapArrives == <>[]MapIsThere
=============================================================================

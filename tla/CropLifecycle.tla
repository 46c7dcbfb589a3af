--------------------------- MODULE CropLifecycle ---------------------------
(***************************************************************************)
(* The annual crop policy (crop_settings.py).  A policy names the months   *)
(* in which a fruit may be planted and harvested and the order of its      *)
(* growth stages.  apply_policy checks that the fruit's native descriptor  *)
(* can carry it, computes what every stage becomes at the end of every     *)
(* month, and installs the whole table or nothing.  The game then replaces *)
(* the stage of every field by the table's entry on each month boundary.   *)
(*                                                                         *)
(* The stages are numbered 1..Stages in the policy's order.  NativeGrowth  *)
(* is a set of descriptors, each the set of <<from, to>> pairs that some   *)
(* month's native table holds.  The last two native states need not be in  *)
(* the policy: Second is one more state the descriptor marks as ready to   *)
(* harvest.                                                                *)
(***************************************************************************)
EXTENDS Integers, FiniteSets

CONSTANTS Stages, PlantingWindows, HarvestWindows, NativeGrowth

Months == 1..12
Seed == 0                 \* INVISIBLE
Dead == Stages + 1        \* DEAD
Second == Stages + 2
Bare == Stages + 3        \* no crop stands on the field
Known == 0..Second        \* _state_ids
NativeReady == {Stages, Second}    \* _native_harvest_state_ids
NoTable == <<>>

(* A policy names months, a fruit has a stage to be harvested at.           *)
CropAssumption ==
  /\ Stages \in Nat \ {0}
  /\ PlantingWindows \subseteq SUBSET Months /\ HarvestWindows \subseteq SUBSET Months

VARIABLES
  plant, reap,     \* the months the policy names
  growth,          \* the native growth pairs of the fruit
  table,           \* what apply_policy installed, NoTable when it refused
  month, crop,     \* the game's calendar and one field
  sown             \* whether the crop was sown after the policy was applied

cropVars == <<plant, reap, growth, table, month, crop, sown>>

After(m, n) == ((m - 1 + n) % 12) + 1
Since(m, first) == (m - first + 12) % 12
Least(S) == CHOOSE x \in S : \A y \in S : x <= y
Largest(S) == CHOOSE x \in S : \A y \in S : x >= y

----------------------------------------------------------------------------
(* walk: the longest way through the native pairs from the first stage to  *)
(* the last; among the longest the one that leaves each stage by the       *)
(* lowest next one.  A stage from which the last cannot be reached has     *)
(* length 0.                                                               *)
Ahead(g, s) == {t \in s + 1 .. Stages : <<s, t>> \in g}

Lengths(g) ==
  LET len[s \in 1..Stages] ==
        IF s = Stages THEN 1
        ELSE LET on == {len[t] : t \in Ahead(g, s)} \ {0}
             IN IF on = {} THEN 0 ELSE 1 + Largest(on)
  IN len

NativePath(g) ==
  LET len == Lengths(g)
      at[i \in 1..len[1]] ==
        IF i = 1 THEN 1
        ELSE Least({t \in Ahead(g, at[i - 1]) : len[t] = len[1] - i + 1})
  IN at

(* The months between planting and harvest leave room for every cohort.    *)
Aligned(p, h) ==
  LET first == Least(p)
      offsets == {Since(m, first) : m \in h}
      soonest == Least(offsets)
  IN /\ Cardinality(p) <= 2
     /\ soonest >= 2
     /\ Cardinality(p) = 2 => /\ After(first, 1) \in p
                              /\ soonest < 11
                              /\ soonest + 1 \in offsets

(* What the seed, and what the stage at position i of the path, becomes in *)
(* month m before the table is shifted to the outgoing month.              *)
SeedIn(p, h, path, m) ==
  IF m \in p THEN path[1]
  ELSE IF m \in h THEN Stages
  ELSE Seed

Spent(p, last, m) == Since(m, Least(p)) > last \/ m \in p

(* Harvest brings the stages the plan skips to maturity too.                *)
Ripens(i, anchor) == i >= anchor

StageIn(p, h, path, m, i) ==
  LET size == Cardinality(DOMAIN path)
      offset == Since(m, Least(p))
      offsets == {Since(k, Least(p)) : k \in h}
      soonest == Least(offsets)
      last == Largest(offsets)
      anchor == IF size - 1 < soonest - 1 THEN size - 1 ELSE soonest - 1
      during == offset <= last
      ripening == during /\ offset >= soonest /\ m \in h
  IN IF i = size
       THEN IF Spent(p, last, m) THEN Dead ELSE Stages
     ELSE IF ripening /\ Ripens(i, anchor) THEN Stages
     ELSE IF during /\ i = anchor - 1 /\ (offset <= anchor \/ offset >= soonest)
       THEN path[i + 1]
     ELSE IF during /\ i <= anchor - 2 THEN path[i + 1]
     ELSE path[i]

Position(path, s) == CHOOSE i \in DOMAIN path : path[i] = s
OnPath(path) == {path[i] : i \in DOMAIN path}

InMonth(p, h, path, m, s) ==
  LET last == Largest({Since(k, Least(p)) : k \in h})
  IN IF s \in NativeReady /\ Since(m, Least(p)) > last THEN Dead
     ELSE IF s \in OnPath(path) THEN StageIn(p, h, path, m, Position(path, s))
     ELSE s      \* held: states of the policy that the path leaves out, DEAD

(* GrowthSystem reads the outgoing month's table on the next boundary, so  *)
(* established growth is moved one month forward; germination is not.      *)
Shifted(m) == After(m, 1)

(* The table for every known state: the plan over the self-transitions     *)
(* that _totalized_mapping_plan adds for the states it controls.           *)
Table(p, h, g) ==
  LET path == NativePath(g)
  IN [m \in Months |-> [s \in Known |->
       IF s = Seed THEN SeedIn(p, h, path, m)
       ELSE InMonth(p, h, path, Shifted(m), s)]]

(* The rehearsal of each planting month: the seed must ripen first in the  *)
(* first month of harvest, stay ripe within the harvest and then wither.   *)
Rehearsed(p, h, t, start) ==
  LET first == Least(p)
      offsets == {Since(k, first) : k \in h}
      last == Largest(offsets) - Since(start, first)
      grown[n \in 0..12] ==
        IF n = 0 THEN Seed ELSE t[After(start, n - 1)][grown[n - 1]]
      ripe == {n \in 1..last : grown[n] = Stages}
  IN /\ last >= 1
     /\ ripe # {}
     /\ Least(ripe) = Least(offsets)
     /\ ripe = Least(ripe) .. last
     /\ \A n \in ripe : After(start, n) \in h
     /\ t[After(start, last)][grown[last]] = Dead

Unrehearsed(p, h, t) == p # {}    \* mutant
Completes(p, h, t) == \A start \in p : Rehearsed(p, h, t, start)

Plan(p, h, g) ==
  IF p = {} \/ h = {} \/ Lengths(g)[1] < 2 \/ ~Aligned(p, h) THEN NoTable
  ELSE LET t == Table(p, h, g) IN IF Completes(p, h, t) THEN t ELSE NoTable

----------------------------------------------------------------------------
(* apply_policy runs when the world is loaded: any month, and a field that *)
(* may already carry a crop at any stage.                                  *)
Init ==
  /\ plant \in PlantingWindows
  /\ reap \in HarvestWindows
  /\ growth \in NativeGrowth
  /\ table = Plan(plant, reap, growth)
  /\ month \in Months
  /\ crop \in Known \cup {Bare}
  /\ sown = FALSE

Sow ==
  /\ table # NoTable
  /\ crop = Bare
  /\ month \in plant
  /\ crop' = Seed
  /\ sown' = TRUE
  /\ UNCHANGED <<plant, reap, growth, table, month>>

Harvest ==
  /\ table # NoTable
  /\ crop \in NativeReady
  /\ month \in reap
  /\ crop' = Bare
  /\ sown' = FALSE
  /\ UNCHANGED <<plant, reap, growth, table, month>>

Plough ==
  /\ crop = Dead
  /\ crop' = Bare
  /\ sown' = FALSE
  /\ UNCHANGED <<plant, reap, growth, table, month>>

NextMonth ==
  /\ table # NoTable
  /\ month' = After(month, 1)
  /\ crop' = IF crop = Bare THEN Bare ELSE table[month][crop]
  /\ UNCHANGED <<plant, reap, growth, table, sown>>

Next == Sow \/ Harvest \/ Plough \/ NextMonth

Spec == Init /\ [][Next]_cropVars
LiveSpec == Spec /\ WF_cropVars(NextMonth)

----------------------------------------------------------------------------
TypeOK ==
  /\ plant \in PlantingWindows /\ reap \in HarvestWindows /\ growth \in NativeGrowth
  /\ table = NoTable \/ table \in [Months -> [Known -> Known]]
  /\ month \in Months /\ crop \in Known \cup {Bare} /\ sown \in BOOLEAN

(* A crop sown under the policy is ready in harvest months only: it never  *)
(* ripens early, late, or with the cohort of the other planting month      *)
(* outside the window (the shifted table and the rehearsal agree).         *)
RipeInSeason == table # NoTable /\ sown /\ crop \in NativeReady => month \in reap

(* "an existing ready crop must not survive forever merely because the     *)
(* calendar wrapped": whatever stage on the path the field had when the    *)
(* policy was applied, and whoever sowed it, the crop ends.                *)
Standing == table # NoTable /\ crop \in OnPath(NativePath(growth))
Cleared == crop \in {Dead, Bare}
CropsEnd == Standing ~> Cleared
=============================================================================

---------------------------- MODULE MCServicesLive ----------------------------
(***************************************************************************)
(* Safety and liveness of services that share no state: one behaviour      *)
(* exercises the component named by focus while the others rest.  Strong   *)
(* fairness doubles what TLC explores, so that of different components is  *)
(* stated together: only the component that has the floor takes steps.     *)
(***************************************************************************)
EXTENDS LiveServices

VARIABLE focus    \* the component exercised

MCCreator == <<"ann">>

\* Harvest windows of two months beginning anywhere, and a split one;
\* native growth along a chain, in one leap, with two paths, and unfinished.
Run(first, length) == {((first - 1 + i) % 12) + 1 : i \in 0..length}
MCHarvest == {Run(a, 1) : a \in 1..12} \cup {{5, 8}}
MCGrowth == {{<<i, i + 1>> : i \in 1..4}, {<<1, 5>>},
             {<<1, 2>>, <<2, 5>>, <<1, 3>>, <<3, 4>>, <<4, 5>>}, {<<1, 2>>, <<2, 4>>}}
-------------------------------------------------------------------------------
marketVars == <<contract, located, card, listening, handler, restoring, world>>
replyVars  == <<outcome, noted, command, reply, tracked, aged, expired, publisher>>
boardVars  == <<tags, votes, seeds, title, waiting, worker, changes, failed, lost>>
mapVars    == <<start, worldOf, files, refused, kept, servedWorld, servedStart, maps, request,
                loaded, reader, slips>>
linkVars   == <<application, elsewhere, taken, owner, code, second, screen, file, posting,
                serving, answerFile, timeouts>>
cropVars   == <<plant, reap, growth, table, month, crop, sown>>
grantVars  == <<farm, online, contracting, observed, approved, row, job, slip, late, authority,
                moves, lapses>>
vars == <<focus, marketVars, replyVars, boardVars, mapVars, linkVars, cropVars, grantVars>>

\* A component that rests does so in one of its initial states.  If one of the
\* members who compete for a link has another player, it is Bob.
Init ==
  /\ focus \in {"market", "replies", "board", "map", "link", "crop", "grant"}
  /\ IF focus = "crop" THEN TRUE
     ELSE plant = {3} /\ reap = Run(8, 1) /\ growth = {<<1, 5>>} /\ month = 1 /\ crop = Crop!Bare
  /\ IF focus = "link" THEN TRUE
     ELSE application = [d \in {"ann", "bob"} |-> "denied"] /\ elsewhere = {} /\ taken = {}
  /\ IF focus = "board" THEN TRUE ELSE tags = <<>>
  /\ IF focus = "grant" THEN TRUE ELSE farm = [m \in {"ann", "bob"} |-> "none"]
  /\ Market!Init /\ Replies!Init /\ Board!Init /\ Map!Init /\ Link!Init /\ Crop!Init /\ Grant!Init
  /\ taken # {"ann"}

Only(c) ==
  /\ focus = c
  /\ UNCHANGED focus
  /\ IF c = "market" THEN TRUE ELSE UNCHANGED marketVars
  /\ IF c = "replies" THEN TRUE ELSE UNCHANGED replyVars
  /\ IF c = "board" THEN TRUE ELSE UNCHANGED boardVars
  /\ IF c = "map" THEN TRUE ELSE UNCHANGED mapVars
  /\ IF c = "link" THEN TRUE ELSE UNCHANGED linkVars
  /\ IF c = "crop" THEN TRUE ELSE UNCHANGED cropVars
  /\ IF c = "grant" THEN TRUE ELSE UNCHANGED grantVars

Next ==
  \/ Only("market") /\ Market!Next
  \/ Only("replies") /\ Replies!Next
  \/ Only("board") /\ Board!Next
  \/ Only("map") /\ Map!Next
  \/ Only("link") /\ Link!Next
  \/ Only("crop") /\ Crop!Next
  \/ Only("grant") /\ Grant!Next

Spec == Init /\ [][Next]_vars
-------------------------------------------------------------------------------
\* The fairness each module states for its component.  As only the component
\* that has the floor takes steps, a conjunction over components of WF or SF
\* is the WF or SF of the disjunction.
Mill == [m \in {"ann", "bob"} |-> <<m, "mill">>]
WeakFairness ==
  /\ WF_vars(\/ Only("market") /\ Market!Handle(1)
             \/ Only("replies") /\ Replies!Ages(1)
             \/ Only("board") /\ Board!Bot
             \/ Only("map") /\ Map!Served
             \/ Only("link") /\ Link!QueueRequest
             \/ Only("crop") /\ Crop!NextMonth
             \/ Only("grant") /\ Grant!Operations)
  /\ WF_vars(\/ Only("market") /\ Market!Handle(2)
             \/ Only("replies") /\ Replies!Ages(2)
             \/ Only("map") /\ Map!Refused
             \/ Only("link") /\ Link!ReadAnswer
             \/ Only("grant") /\ Grant!Authority)
  /\ WF_vars(\/ Only("replies") /\ Replies!Finishes(1)
             \/ Only("map") /\ Map!Reads(1)
             \/ Only("link") /\ Link!Posts
             \/ Only("grant") /\ Grant!Answers(Mill["ann"]))
  /\ WF_vars(\/ Only("replies") /\ Replies!Finishes(2)
             \/ Only("link") /\ Link!Serves("h1")
             \/ Only("grant") /\ Grant!Answers(Mill["bob"]))
  /\ WF_vars(\/ Only("link") /\ Link!Serves("h2")
             \/ Only("grant") /\ Grant!Enforcement)
  /\ WF_vars(Only("grant") /\ Grant!Observation)

StrongFairness ==
  /\ SF_vars(\/ Only("market") /\ Market!RestoreCard(1)
             \/ Only("replies") /\ Replies!Closes(1)
             \/ Only("map") /\ Map!Delivered(1))
  /\ SF_vars(\/ Only("replies") /\ Replies!Closes(2)
             \/ Only("map") /\ Map!Delivered(2))
  /\ SF_vars(Only("map") /\ Map!Persisted)

LiveSpec == Spec /\ WeakFairness /\ StrongFairness
-------------------------------------------------------------------------------
\* Nothing is left hanging: every settled wish leaves the publisher's queue,
\* with or without its reply; a linked player is released from the prompt; and
\* a crop the field had when the policy was installed ends.
Hanging ==
  \/ focus = "replies" /\ Replies!Owed # {}
  \/ focus = "link" /\ Link!Linked
  \/ focus = "crop" /\ Crop!Standing
Over ==
  \/ focus = "replies" /\ Replies!Owed = {}
  \/ focus = "link" /\ Link!Released
  \/ focus = "crop" /\ Crop!Cleared
NothingHangs == Hanging ~> Over

\* Once the users stop, the suggestion's title shows its votes; once the game
\* stays up, central and the bot hold the map of its very start; and the card of
\* a contract that ended comes to show its end if the bot restarts again and again.
CatchesUp ==
  /\ <>[](/\ focus = "board" => Board!TitleIsRight
          /\ focus = "map" => Map!MapIsThere)
  /\ Market!EndedCardsAreRepaired

\* A member who stays on a source farm comes to be, and stays, a contractor of
\* SiN Harvest there.
WorkersAreContracted == Grant!WorkersAreContracted
===============================================================================

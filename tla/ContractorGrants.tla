------------------------- MODULE ContractorGrants -------------------------
(***************************************************************************)
(* Who may work for the shared SiN Harvest farm.  Central derives one      *)
(* membership per (member, source farm) from the farm a member was last    *)
(* seen on, queues a permission job for each change, and publishes the     *)
(* grants in force as manager-authority.xml; the game keeps contracting on *)
(* the source farm and re-applies the file on its own.                     *)
(*   farm_lifecycle.py, authorization.py, server_api.py, agent.py and      *)
(*   NetworkLocal.lua (contractor commands and authority file).            *)
(***************************************************************************)
EXTENDS Naturals

CONSTANTS
    Members,    \* registered members
    Farms,      \* personal farms, the possible source farms
    NoFarm,     \* farm 0, spectator, or no entry
    MaxMoves,   \* bound: times players change farm, connect or disconnect
    MaxLapses   \* bound: lost answers, failed setters and crashes

GrantAssumption == NoFarm \notin Farms /\ MaxMoves \in Nat /\ MaxLapses \in Nat

VARIABLES
    farm,        \* farm[m]: the farm m is on in the game
    online,      \* members connected to the game
    contracting, \* source farms that natively contract for SiN Harvest
    observed,    \* observed[m]: the newest farm observation central holds
    approved,    \* members with an approved community application
    row,         \* row[p]: the membership of p = <<member, source farm>>
    job,         \* job[p]: state of the newest permission job of p
    slip,        \* slip[p]: its command file, then its receipt file
    late,        \* receipt files of jobs that others have followed: <<p, answer>>
    authority,   \* authority[m]: m's contractor entry in the game's file
    moves, lapses

vars == <<farm, online, contracting, observed, approved, row, job, slip, late,
          authority, moves, lapses>>
game == <<farm, online, contracting>>

Pairs   == Members \X Farms
Places  == Farms \cup {NoFarm}
Blank   == [desired |-> "none", state |-> "none"]
States  == {"pending", "active", "revoked", "reconciliation_required"}

Init ==
    /\ farm \in [Members -> Places]      \* wherever the save has them
    /\ online = Members
    /\ contracting = {}
    /\ observed = [m \in Members |-> NoFarm]
    /\ approved = {}
    /\ row = [p \in Pairs |-> Blank]
    /\ job = [p \in Pairs |-> "none"]
    /\ slip = [p \in Pairs |-> "none"] /\ late = {}
    /\ authority = [m \in Members |-> NoFarm]
    /\ moves = 0 /\ lapses = 0

TypeOK ==
    /\ farm \in [Members -> Places] /\ observed \in [Members -> Places]
    /\ authority \in [Members -> Places]
    /\ online \subseteq Members /\ approved \subseteq Members
    /\ contracting \subseteq Farms
    /\ row \in [Pairs -> {Blank} \cup
                [desired: {"contractor", "revoked"}, state: States]]
    /\ job \in [Pairs -> {"none", "pending", "applied",
                          "reconciliation_required"}]
    /\ slip \in [Pairs -> {"none", "command", "applied", "refused"}]
    /\ late \subseteq Pairs \X {"applied", "refused"}
    /\ moves \in 0..MaxMoves /\ lapses \in 0..MaxLapses

---------------------------------------------------------------------------
(* Central's reconciliation, run by both the operations and the authority  *)
(* request of the Agent.                                                   *)

Is(p, desired, states) == row[p].desired = desired /\ row[p].state \in states

\* The source farm a member is eligible with, if any.
Eligible(m) == IF m \in approved THEN observed[m] ELSE NoFarm
Wanted(p) == Eligible(p[1]) = p[2]

\* The wrong test for the mutant: a grant that was refused is not tried again.
GrantedOnce(p) ==
    /\ Wanted(p)
    /\ row[p].state \in {"none", "revoked"}

\* assign() starts a new revision: nothing is open and nothing is in force.
Granted(p) ==
    /\ Wanted(p)
    /\ row[p].state # "pending"
    /\ ~Is(p, "contractor", {"active"})

\* revoke_contractor() starts a new revision.  A failed revocation is tried
\* again only while its member is eligible with no farm at all.
Withdrawn(p) ==
    /\ ~Wanted(p)
    /\ \/ Is(p, "contractor", {"active", "reconciliation_required"})
       \/ /\ Is(p, "revoked", {"reconciliation_required"})
          /\ Eligible(p[1]) = NoFarm

Fresh(p) == Granted(p) \/ Withdrawn(p)

Reconcile ==
    /\ row' = [p \in Pairs |->
                 IF Granted(p) THEN [desired |-> "contractor", state |-> "pending"]
                 ELSE IF Withdrawn(p)
                      THEN [desired |-> "revoked", state |-> "pending"]
                      ELSE row[p]]
    /\ job' = [p \in Pairs |-> IF Fresh(p) THEN "pending" ELSE job[p]]

\* Files are named by operation: a new job starts with none, and a receipt of
\* the job before it that is still in the mailbox stays there.
Unserved == [p \in Pairs |-> IF Fresh(p) THEN "none" ELSE slip[p]]
LeftOver == {<<p, slip[p]>> : p \in {q \in Pairs : Fresh(q) /\ slip[q] # "none"}}

\* The Agent fetches the pending jobs and writes a command for each that has
\* neither a command nor a receipt.
Operations ==
    /\ Reconcile
    /\ slip' = [p \in Pairs |-> IF job'[p] = "pending" /\ Unserved[p] = "none"
                                THEN "command" ELSE Unserved[p]]
    /\ late' = late \cup LeftOver
    /\ UNCHANGED <<game, observed, approved, authority, moves, lapses>>

\* Either request reconciles and its answer is lost: files stay as they are.
AnswerLost ==
    /\ lapses < MaxLapses
    /\ lapses' = lapses + 1
    /\ Reconcile
    /\ slip' = Unserved /\ late' = late \cup LeftOver
    /\ UNCHANGED <<game, observed, approved, authority, moves>>

\* The farms the projection lists for a member.
Projected(m) == {f \in Farms : row'[<<m, f>>].desired = "contractor"
                               /\ row'[<<m, f>>].state \in {"pending", "active"}}

\* The Agent replaces the file; the game keeps one entry per player of it.
Authority ==
    /\ Reconcile
    /\ slip' = Unserved /\ late' = late \cup LeftOver
    /\ authority' \in [Members -> Places]
    /\ \A m \in Members : IF Projected(m) = {} THEN authority'[m] = NoFarm
                                               ELSE authority'[m] \in Projected(m)
    /\ UNCHANGED <<game, observed, approved, moves, lapses>>

---------------------------------------------------------------------------
(* The game.                                                               *)

Plays(p) == p[1] \in online /\ farm[p[1]] = p[2]

\* A grant needs its player on the source farm, a revocation needs nobody.
Process(p) ==
    /\ slip[p] = "command"
    /\ \/ /\ row[p].desired = "contractor" /\ Plays(p)
          /\ contracting' = contracting \cup {p[2]}
          /\ slip' = [slip EXCEPT ![p] = "applied"]
          /\ lapses' = lapses
       \/ /\ row[p].desired = "contractor" /\ ~Plays(p)
          /\ slip' = [slip EXCEPT ![p] = "refused"]
          /\ UNCHANGED <<contracting, lapses>>
       \/ /\ row[p].desired = "revoked"
          /\ contracting' = contracting \ {p[2]}
          /\ slip' = [slip EXCEPT ![p] = "applied"]
          /\ lapses' = lapses
       \/ /\ lapses < MaxLapses             \* the native setter fails
          /\ lapses' = lapses + 1
          /\ slip' = [slip EXCEPT ![p] = "refused"]
          /\ contracting' = contracting
    /\ UNCHANGED <<farm, online, observed, approved, row, job, late, authority,
                   moves>>

\* Periodic and farm-change enforcement of the file; it never takes away.
Enforced(m, f) == IF f # NoFarm /\ authority[m] = f
                  THEN contracting \cup {f} ELSE contracting

Enforce(m) ==
    /\ m \in online
    /\ contracting' = Enforced(m, farm[m])
    /\ UNCHANGED <<farm, online, observed, approved, row, job, slip, late,
                   authority, moves, lapses>>

Move(m, f) ==
    /\ moves < MaxMoves /\ m \in online /\ f # farm[m]
    /\ moves' = moves + 1
    /\ farm' = [farm EXCEPT ![m] = f]
    /\ contracting' = Enforced(m, f)
    /\ UNCHANGED <<online, observed, approved, row, job, slip, late, authority,
                   lapses>>

Connection(m) ==
    /\ moves < MaxMoves
    /\ moves' = moves + 1
    /\ online' = IF m \in online THEN online \ {m} ELSE online \cup {m}
    /\ UNCHANGED <<farm, contracting, observed, approved, row, job, slip, late,
                   authority, lapses>>

---------------------------------------------------------------------------
(* What reaches central.                                                   *)

Observe(m) ==
    /\ m \in online
    /\ observed' = [observed EXCEPT ![m] = farm[m]]
    /\ UNCHANGED <<game, approved, row, job, slip, late, authority, moves, lapses>>

Approve(m) ==
    /\ approved' = approved \cup {m}
    /\ UNCHANGED <<game, observed, row, job, slip, late, authority, moves, lapses>>

\* The wrong test for the mutant: any receipt of the membership will do.
FindsAny(p, newest) == job[p] = "pending"

\* acknowledge() looks a job up by the operation and revision of its receipt;
\* of a membership's jobs only the newest can be open.
Finds(p, newest) == newest /\ job[p] = "pending"

JobAfter(answer) == IF answer = "applied" THEN "applied" ELSE "reconciliation_required"
RowAfter(p, answer) ==
    IF answer = "refused" THEN "reconciliation_required"
    ELSE IF row[p].desired = "revoked" THEN "revoked" ELSE "active"

\* A receipt settles the job it finds open and the row that job opened.  For any
\* other the answer is the same again, or a refusal, and nothing changes.
Acknowledge(p, answer, newest) ==
    IF Finds(p, newest)
    THEN /\ job' = [job EXCEPT ![p] = JobAfter(answer)]
         /\ row' = [row EXCEPT ![p].state = RowAfter(p, answer)]
    ELSE UNCHANGED <<job, row>>

\* The Agent posts a receipt.  With the answer it drops the file, or keeps it as
\* a quarantine marker; without one the file stays and is posted again.  A
\* refusal is recorded in two writes, and a crash between them leaves the row open.
Receipts == {"applied", "refused"}
Post(p) ==
    /\ slip[p] \in Receipts
    /\ \/ /\ Acknowledge(p, slip[p], TRUE)
          /\ slip' = [slip EXCEPT ![p] = "none"]
          /\ lapses' = lapses
       \/ /\ lapses < MaxLapses             \* the answer is lost
          /\ lapses' = lapses + 1
          /\ Acknowledge(p, slip[p], TRUE)
          /\ slip' = slip
       \/ /\ slip[p] = "refused" /\ Finds(p, TRUE) /\ lapses < MaxLapses
          /\ lapses' = lapses + 1
          /\ job' = [job EXCEPT ![p] = JobAfter("refused")]
          /\ UNCHANGED <<row, slip>>
    /\ UNCHANGED <<game, observed, approved, late, authority, moves>>

\* A receipt whose answer was lost is posted again when a newer job has begun.
PostLate(p, answer) ==
    /\ <<p, answer>> \in late
    /\ Acknowledge(p, answer, FALSE)
    /\ late' = late \ {<<p, answer>>}
    /\ UNCHANGED <<game, observed, approved, slip, authority, moves, lapses>>

---------------------------------------------------------------------------
Next ==
    \/ Operations \/ AnswerLost \/ Authority
    \/ \E p \in Pairs : Process(p) \/ Post(p) \/ \E a \in Receipts : PostLate(p, a)
    \/ \E m \in Members : Enforce(m) \/ Connection(m) \/ Observe(m) \/ Approve(m)
    \/ \E m \in Members, f \in Places : Move(m, f)

Spec == Init /\ [][Next]_vars

\* The Agent's passes, the game's update loop and its observations recur.
Answers(p) == Process(p) \/ Post(p)
Enforcement == \E m \in Members : Enforce(m)
Observation == \E m \in Members : Observe(m)
Fairness ==
    /\ WF_vars(Operations) /\ WF_vars(Authority)
    /\ \A p \in Pairs : WF_vars(Answers(p))
    /\ WF_vars(Enforcement) /\ WF_vars(Observation)

LiveSpec == Spec /\ Fairness

---------------------------------------------------------------------------
\* A job was settled and its membership still says pending.
Torn(p) == row[p].state = "pending" /\ job[p] # "pending"

\* A member who stays connected on a farm gets, and keeps, the right to work
\* for SiN Harvest from it, whatever revocations and refused receipts came
\* before and whoever else shares the farm; unless a crash tore a receipt's
\* two writes apart.  (Reconciliation, enforcement of the authority file.)
WorkersAreContracted ==
    \A p \in Pairs :
        <>[](Plays(p) /\ p[1] \in approved /\ ~\E q \in Pairs : Torn(q))
            => <>[](p[2] \in contracting /\ Is(p, "contractor", {"active"}))

\* A farm works for SiN Harvest only if an approved member has, or had, a grant
\* for it; and an active grant is in force, unless the farm has another member,
\* whose revocation closes it for both.  (Reconciliation, Process, Enforce.)
Shared(p) == \E m \in Members \ {p[1]} : row[<<m, p[2]>>] # Blank
RolesAreGranted ==
    /\ \A f \in contracting : \E m \in approved : row[<<m, f>>] # Blank
    /\ \A p \in Pairs : Is(p, "contractor", {"active"})
                           => p[2] \in contracting \/ Shared(p)

\* A membership is turned round, or given a new job, only once its last job is
\* settled and has no command left that the game could still serve; and a job and
\* its row are settled only as the job's own receipt says, whatever receipts of
\* earlier jobs are posted late or again.  (Reconciliation, acknowledge().)
OneJobAtATime ==
    [][\A p \in Pairs :
          /\ \/ row'[p].desired # row[p].desired
             \/ job'[p] = "pending" /\ job[p] # "pending"
             => job[p] # "pending" /\ slip[p] # "command"
          /\ job[p] = "pending" /\ job'[p] # "pending"
             => slip[p] \in Receipts /\ job'[p] = JobAfter(slip[p])
          /\ row[p].state = "pending" /\ row'[p].state # "pending"
             => /\ slip[p] \in Receipts /\ job[p] = "pending"
                /\ row'[p].state = RowAfter(p, slip[p])]_vars

\* A farm that a settled revocation closed, and that the game's file does not
\* list any more, stays closed until its member is granted it anew or another
\* member joins, wherever its member moves.  (Projection and enforcement.)
Closed(p) ==
    /\ Is(p, "revoked", {"revoked"}) /\ ~Shared(p)
    /\ p[2] \notin contracting /\ authority[p[1]] # p[2]
ClosedStaysClosed ==
    [][\A p \in Pairs : Closed(p) =>
          /\ p[2] \notin contracting'
          /\ Closed(p)' \/ Is(p, "contractor", {"pending"})' \/ Shared(p)']_vars

\* A settled revocation has closed its farm, unless its member is back on it or
\* another member's row of the farm is not settled as revoked.  Not so: a file
\* fetched before the revocation opens the farm again when the member returns.
RevokedIsClosed ==
    \A p \in Pairs :
        (Is(p, "revoked", {"revoked"}) /\ p[2] \in contracting)
            => \/ Plays(p)
               \/ \E m \in Members : row[<<m, p[2]>>] # Blank
                                     /\ ~Is(<<m, p[2]>>, "revoked", {"revoked"})

===========================================================================

------------------------------ MODULE ServerPairing ----------------------------
(***************************************************************************)
(* Pairing of a game server with central: /server_register issues a        *)
(* one-time code, sinPair leaves it in the mailbox, the Agent claims it    *)
(* over HTTP until a response comes, the mod binds the credential once.    *)
(* A claim that timed out at the Agent may still run at central.           *)
(***************************************************************************)
EXTENDS Naturals, FiniteSets

CONSTANTS
  Claims,        \* pairing requests under way at once
  MaxCodes,      \* bound on the codes issued
  MaxSlips,      \* bound on lost responses and failed mailbox writes
  None

PairingAssumption == None \notin Nat /\ MaxCodes \in Nat

VARIABLES
  row,        \* sin_servers record: [credential, code, expired]
  issuedCodes,\* codes issued; credentials are numbered like the claims that succeed
  paired,     \* credentials issued
  staff,      \* a /server_register between its read and its write: the credential it read, or {}
  told,       \* its last answer: "nothing", "code", "preserved"
  requests,   \* pairing-request files: the codes typed at the game
  claim,      \* claim[c]: [step, code, credential]
  response,   \* server-pairing-response.xml: an unprocessed credential or None
  binding,    \* serverBinding.xml: a credential or None
  overlapped, \* a registration replaced a record paired since it was read
  slips
pairVars == <<row, issuedCodes, paired, staff, told, requests, claim, response, binding, overlapped, slips>>

Idle == [step |-> "idle", code |-> None, credential |-> None]
Init ==
  /\ row = [credential |-> None, code |-> None, expired |-> FALSE]
  /\ issuedCodes = 0 /\ paired = 0 /\ staff = {} /\ told = "nothing" /\ requests = {}
  /\ claim = [c \in Claims |-> Idle] /\ response = None /\ binding = None
  /\ overlapped = FALSE /\ slips = 0

Slip == slips < MaxSlips /\ slips' = slips + 1

-----------------------------------------------------------------------------
(* ServerRegistry.register: a read, then an update or a whole replacement. *)
RegisterRead ==
  /\ staff = {} /\ staff' = {row.credential}
  /\ UNCHANGED <<row, issuedCodes, paired, told, requests, claim, response, binding, overlapped, slips>>

Preserve ==
  /\ staff \notin {{}, {None}} /\ told' = "preserved" /\ staff' = {}
  /\ UNCHANGED <<row, issuedCodes, paired, requests, claim, response, binding, overlapped, slips>>

IssueCode ==
  /\ staff = {None} /\ issuedCodes < MaxCodes /\ issuedCodes' = issuedCodes + 1
  /\ row' = [credential |-> None, code |-> issuedCodes', expired |-> FALSE]
  /\ overlapped' = (overlapped \/ row.credential # None)
  /\ told' = "code" /\ staff' = {}
  /\ UNCHANGED <<paired, requests, claim, response, binding, slips>>

Expire ==
  /\ row.code # None /\ ~row.expired /\ row' = [row EXCEPT !.expired = TRUE]
  /\ UNCHANGED <<issuedCodes, paired, staff, told, requests, claim, response, binding, overlapped, slips>>

(* consoleCommandPair *)
TypeCode(k) ==
  /\ k \notin requests /\ requests' = requests \union {k}
  /\ UNCHANGED <<row, issuedCodes, paired, staff, told, claim, response, binding, overlapped, slips>>

-----------------------------------------------------------------------------
(* process_once posts each request file; pair_code and pair find the record
   twice, then claim it by a conditional update.                            *)
Matches(k) == row.credential = None /\ row.code = k /\ ~row.expired

Post(c, k) ==
  /\ claim[c] = Idle /\ k \in requests /\ Matches(k)
  /\ claim' = [claim EXCEPT ![c] = [step |-> "found", code |-> k, credential |-> None]]
  /\ UNCHANGED <<row, issuedCodes, paired, staff, told, requests, response, binding, overlapped, slips>>

FindAgain(c) ==
  /\ claim[c].step = "found"
  /\ claim' = [claim EXCEPT ![c] = IF Matches(claim[c].code) THEN [@ EXCEPT !.step = "claim"] ELSE Idle]
  /\ UNCHANGED <<row, issuedCodes, paired, staff, told, requests, response, binding, overlapped, slips>>

Found(k) == k # None   \* WRONG: the update does not repeat the condition
(* The update does not look at the expiry again. *)
Claimable(k) == row.credential = None /\ row.code = k
Claim(c) ==
  /\ claim[c].step = "claim"
  /\ IF Claimable(claim[c].code)
     THEN /\ paired' = paired + 1
          /\ row' = [credential |-> paired', code |-> None, expired |-> FALSE]
          /\ claim' = [claim EXCEPT ![c].step = "answer", ![c].credential = paired']
     ELSE claim' = [claim EXCEPT ![c] = Idle] /\ UNCHANGED <<row, paired>>
  /\ UNCHANGED <<issuedCodes, staff, told, requests, response, binding, overlapped, slips>>

(* The Agent reads the response, writes the mailbox and removes the request. *)
Deliver(c, removed) ==
  /\ claim[c].step = "answer" /\ claim' = [claim EXCEPT ![c] = Idle]
  /\ response' = claim[c].credential
  /\ IF removed THEN requests' = requests \ {claim[c].code} /\ UNCHANGED slips
                ELSE Slip /\ UNCHANGED requests
  /\ UNCHANGED <<row, issuedCodes, paired, staff, told, binding, overlapped>>

(* Lost on the way, timed out at the Agent, or the mailbox write failed:
   the request stays and is posted again.                                   *)
LoseAnswer(c) ==
  /\ claim[c].step = "answer" /\ claim' = [claim EXCEPT ![c] = Idle] /\ Slip
  /\ UNCHANGED <<row, issuedCodes, paired, staff, told, requests, response, binding, overlapped>>

(* processPairingResponse *)
Bind ==
  /\ response # None /\ response' = None
  /\ binding' = IF binding = None THEN response ELSE binding
  /\ UNCHANGED <<row, issuedCodes, paired, staff, told, requests, claim, overlapped, slips>>

StaffSide == RegisterRead \/ Preserve \/ IssueCode \/ Expire
AgentSide == \E c \in Claims :
  \/ \E k \in requests : Post(c, k)
  \/ FindAgain(c) \/ Claim(c) \/ LoseAnswer(c)
  \/ \E removed \in BOOLEAN : Deliver(c, removed)
Next == StaffSide \/ AgentSide \/ Bind \/ (\E k \in 1..issuedCodes : TypeCode(k))
Spec == Init /\ [][Next]_pairVars

-----------------------------------------------------------------------------
PairingCodes == 1..MaxCodes
Credentials == 1..MaxCodes   \* no code gives two
TypeOK ==
  /\ row \in [credential : Credentials \union {None}, code : PairingCodes \union {None}, expired : BOOLEAN]
  /\ row.credential # None => row.code = None
  /\ paired <= issuedCodes /\ requests \subseteq 1..issuedCodes
  /\ response \in Credentials \union {None} /\ binding \in Credentials \union {None}

(* A bound server keeps the credential central knows: two claims of one code
   never issue two, and a registration never takes it away, except one whose
   read came before the pairing and whose write came after.                  *)
BoundAuthenticates == binding # None /\ ~overlapped => row.credential = binding

(* docs/bot-commands.md:172: /server_register "Returns a one-time pairing code
   ... when new pairing is needed; preserves existing pairing otherwise".    *)
Held(x) == x \in {binding, response} \union {claim[c].credential : c \in Claims}
PreservedPairingExists == staff = {} /\ told = "preserved" /\ ~overlapped => Held(row.credential)
=============================================================================

--------------------------------- MODULE Kyc ---------------------------------
(***************************************************************************)
(* Identity verification: verifyUser and updateUserKYC of users.service.ts.*)
(* A user submits its identity under the key of a Passbase verification;   *)
(* Passbase calls back with its review of the key.  Both handlers first    *)
(* patch the status in the Rehive ledger and then copy it to the document. *)
(***************************************************************************)
EXTENDS Naturals

CONSTANTS
  Requests, \* HTTP calls: submissions of users and reviews of Passbase
  Users,
  Keys,     \* Passbase verifications
  KeyOwner, \* the user each verification is about
  None

ASSUME KycAssumption ==
  /\ KeyOwner \in [Keys -> Users]
  /\ None \notin Keys

VARIABLES
  req,    \* what each request asks for; never changed
  pc,     \* where the handler of each request stands
  reply,  \* what the caller was answered
  seen,   \* the kyc field a submission read before it saves
  ledger, \* the status of each user in the ledger
  kyc,    \* the kyc field of each document
  raced,  \* history: handlers that overlapped another for the same user
  torn    \* history: users for whom no handler ran alone since a race or failure

vars == <<req, pc, reply, seen, ledger, kyc, raced, torn>>

\* Only the presence of a status is checked; "other" is any Passbase did not name.
Reviews == {"pending", "approved", "declined", "other"}

Submission == [op : {"submit"}, key : Keys, review : {"pending"}]
Review     == [op : {"review"}, key : Keys, review : Reviews]

UserOf(r) == KeyOwner[req[r].key]

\* Mistake: the document takes the word of Passbase.
PassbaseStatus(review) == review

RehiveStatus(review) ==
  CASE review = "pending"  -> "pending"
    [] review = "approved" -> "verified"
    [] review = "declined" -> "declined"
    [] OTHER               -> "incomplete"

Status(r) == RehiveStatus(req[r].review)

KycField == [status : {"incomplete", "pending", "verified", "declined"},
             key : Keys \cup {None}]

\* The handlers that are about to change the status of u, or are changing it.
InFlight(u) ==
  {r \in Requests : pc[r] \in {"patch", "find", "save", "set"} /\ UserOf(r) = u}

-----------------------------------------------------------------------------
(* Handlers *)

Goto(r, label) ==
  /\ pc' = [pc EXCEPT ![r] = label]
  /\ UNCHANGED reply

Finish(r, answer) ==
  /\ pc' = [pc EXCEPT ![r] = "done"]
  /\ reply' = [reply EXCEPT ![r] = answer]

\* Handler r starts on its user; history notes whom it overlaps.
Enter(r) ==
  LET others == InFlight(UserOf(r))
  IN /\ Goto(r, "patch")
     /\ IF others = {} THEN UNCHANGED <<raced, torn>>
        ELSE raced' = raced \cup others \cup {r} /\ torn' = torn \cup {UserOf(r)}

\* The last write of r; unless r was raced, its user is whole again.
Leave(r) ==
  /\ Finish(r, "ok")
  /\ torn' = IF r \in raced THEN torn ELSE torn \ {UserOf(r)}
  /\ UNCHANGED raced

Submit(r) ==
  /\ pc[r] = "idle"
  /\ req[r].op = "submit"
  /\ Enter(r)
  /\ UNCHANGED <<req, seen, ledger, kyc>>

\* Mistake: the review is taken for the user, whatever it submitted last.
LookUpOwner(r) ==
  /\ pc[r] = "idle"
  /\ req[r].op = "review"
  /\ Enter(r)
  /\ UNCHANGED <<req, seen, ledger, kyc>>

\* A review looks for the document with its key; without one it is dropped, and
\* Passbase is told so in a successful answer.
LookUp(r) ==
  /\ pc[r] = "idle"
  /\ req[r].op = "review"
  /\ IF kyc[UserOf(r)].key = req[r].key
     THEN Enter(r)
     ELSE Finish(r, "unknown") /\ UNCHANGED <<raced, torn>>
  /\ UNCHANGED <<req, seen, ledger, kyc>>

AfterPatch(r) == IF req[r].op = "submit" THEN "find" ELSE "set"

\* Mistake: the document is updated even if the ledger was not.
PatchLedgerUnchecked(r) ==
  /\ pc[r] = "patch"
  /\ ledger' \in {ledger, [ledger EXCEPT ![UserOf(r)] = Status(r)]}
  /\ Goto(r, AfterPatch(r))
  /\ UNCHANGED <<req, seen, kyc, raced, torn>>

\* The ledger takes the status and returns it.  A call that fails may have been
\* applied; nothing is undone.
PatchLedger(r) ==
  /\ pc[r] = "patch"
  /\ \/ /\ ledger' = [ledger EXCEPT ![UserOf(r)] = Status(r)]
        /\ Goto(r, AfterPatch(r))
        /\ UNCHANGED torn
     \/ /\ ledger' \in {ledger, [ledger EXCEPT ![UserOf(r)] = Status(r)]}
        /\ Finish(r, "serverError")
        /\ torn' = torn \cup {UserOf(r)}
  /\ UNCHANGED <<req, seen, kyc, raced>>

FindUser(r) ==
  /\ pc[r] = "find"
  /\ seen' = [seen EXCEPT ![r] = kyc[UserOf(r)]]
  /\ Goto(r, "save")
  /\ UNCHANGED <<req, ledger, kyc, raced, torn>>

\* A submission replaces the whole field, if it differs from the one it read.
SaveUser(r) ==
  LET submitted == [status |-> Status(r), key |-> req[r].key]
  IN /\ pc[r] = "save"
     /\ kyc' = IF seen[r] = submitted THEN kyc
               ELSE [kyc EXCEPT ![UserOf(r)] = submitted]
     /\ Leave(r)
     /\ UNCHANGED <<req, seen, ledger>>

\* A review sets the status alone, under whatever key is there now.
SetStatus(r) ==
  /\ pc[r] = "set"
  /\ kyc' = [kyc EXCEPT ![UserOf(r)] = [status |-> Status(r), key |-> @.key]]
  /\ Leave(r)
  /\ UNCHANGED <<req, seen, ledger>>

\* The process stops; a handler that had patched the ledger leaves it so.
Crash ==
  /\ \E r \in Requests : pc[r] \notin {"idle", "done", "dead"}
  /\ pc' = [r \in Requests |->
              IF pc[r] \in {"idle", "done"} THEN pc[r] ELSE "dead"]
  /\ torn' = torn \cup {u \in Users : \E r \in InFlight(u) : pc[r] # "patch"}
  /\ UNCHANGED <<req, reply, seen, ledger, kyc, raced>>

-----------------------------------------------------------------------------
(* The specification *)

Unverified == [status |-> "incomplete", key |-> None]

Init ==
  /\ req \in [Requests -> Submission \cup Review]
  /\ pc = [r \in Requests |-> "idle"]
  /\ reply = [r \in Requests |-> "none"]
  /\ seen = [r \in Requests |-> Unverified]
  /\ ledger = [u \in Users |-> "incomplete"]
  /\ kyc = [u \in Users |-> Unverified]
  /\ raced = {}
  /\ torn = {}

Step(r) ==
  \/ Submit(r) \/ LookUp(r) \/ PatchLedger(r) \/ FindUser(r) \/ SaveUser(r)
  \/ SetStatus(r)

Next == (\E r \in Requests : Step(r)) \/ Crash

Spec == Init /\ [][Next]_vars

-----------------------------------------------------------------------------
(* Properties *)

TypeOK ==
  /\ req \in [Requests -> Submission \cup Review]
  /\ pc \in [Requests -> {"idle", "patch", "find", "save", "set", "done", "dead"}]
  /\ reply \in [Requests -> {"none", "ok", "unknown", "serverError"}]
  /\ seen \in [Requests -> KycField]
  /\ ledger \in [Users -> {"incomplete", "pending", "verified", "declined"}]
  /\ kyc \in [Users -> KycField]
  /\ raced \subseteq Requests
  /\ torn \subseteq Users

\* The ledger and the document agree on a user whenever no handler works on it,
\* unless handlers overlapped or one failed halfway; the next handler that runs
\* alone brings them together again.
LedgerAndDocumentAgree ==
  \A u \in Users \ torn : InFlight(u) = {} => ledger[u] = kyc[u].status

\* A verified user was approved under the key in its document, not under that of
\* an older submission, with the same exception.
ApprovedUnderItsKey ==
  \A u \in Users \ torn :
    kyc[u].status = "verified"
      => \E r \in Requests : /\ reply[r] = "ok"
                             /\ req[r] \in Review
                             /\ req[r].review = "approved"
                             /\ req[r].key = kyc[u].key
=============================================================================

------------------------------ MODULE Accounts ------------------------------
(***************************************************************************)
(* How accounts come into being and who holds which phone number:          *)
(* auth.service.ts (sign-up with a password or through Facebook, Facebook  *)
(* sign-in, which creates unknown users too) and updatePhoneNumber in      *)
(* users.service.ts.  An account is a document in MongoDB and a user of    *)
(* the Rehive ledger; no transaction spans the two, nor a handler's check  *)
(* and its write.  A handler runs in steps separated by its awaits.        *)
(***************************************************************************)
EXTENDS FiniteSets

CONSTANTS
  Requests,     \* HTTP calls; each also names the user it may create
  Names,        \* emails and usernames, see below
  Phones,
  Facebooks,    \* Facebook identities
  Lower,        \* toLowerCase on names
  FacebookName, \* the name Facebook reports for an identity, or None
  None

ASSUME AccountsAssumption ==
  /\ Lower \in [Names -> Names]
  /\ \A n \in Names : Lower[Lower[n]] = Lower[n]
  /\ FacebookName \in [Facebooks -> Names \cup {None}]
  /\ None \notin Names \cup Phones \cup Facebooks \cup Requests

VARIABLES
  req,    \* what each request asks for; never changed
  pc,     \* where the handler of each request stands
  reply,  \* what the client was answered
  seen,   \* the phone number a handler read from the document it updates
  rehive, \* the ledger's users
  stored, \* the users with a document in MongoDB
  phone,  \* the phone number in each document
  claim,  \* history: the request that last wrote each user's phone number
  raced   \* history: requests whose number another user got since their check

vars == <<req, pc, reply, seen, rehive, stored, phone, claim, raced>>

-----------------------------------------------------------------------------
(* Requests *)

\* email and username are checked, lowered and indexed in the same way; one
\* name stands for both.  The phone of a sign-up comes from a verification
\* token: tokens neither expire nor are used up, so any number may come.
SignUp ==
  [op : {"signUp"}, name : Names, facebook : {None}, phone : Phones, user : {None}]
FacebookSignUp ==
  [op : {"facebookSignUp"}, name : {None}, facebook : Facebooks, phone : Phones,
   user : {None}]
FacebookSignIn ==
  [op : {"facebookSignIn"}, name : {None}, facebook : Facebooks, phone : {None},
   user : {None}]
SetPhone ==
  [op : {"setPhone"}, name : {None}, facebook : {None}, phone : Phones,
   user : Requests]

AccountRequest == SignUp \cup FacebookSignUp \cup FacebookSignIn \cup SetPhone

-----------------------------------------------------------------------------
(* Documents *)

\* Mistake: the name is checked in lower case and stored as typed.
NameAsTyped(u) ==
  IF req[u].op = "signUp" THEN req[u].name ELSE FacebookName[req[u].facebook]

\* The name and the Facebook identity in the document that request u creates.
\* Only a sign-up with a password lowers the name.
NameOf(u) ==
  IF req[u].op = "signUp" THEN Lower[req[u].name]
                          ELSE FacebookName[req[u].facebook]
FacebookOf(u) == req[u].facebook

NameTaken(n) == \E u \in stored : NameOf(u) = n
PhoneTaken(p) == \E u \in stored : phone[u] = p
PhoneTakenByOther(p, user) == \E u \in stored \ {user} : phone[u] = p

\* Mistake: the schema has no unique index.
SchemaWithoutIndex(r) == NameOf(r) # None

\* The indexes and the required fields of the schema let r's document in.
SchemaAdmits(r) == NameOf(r) # None /\ ~NameTaken(NameOf(r))

-----------------------------------------------------------------------------
(* Handlers *)

Goto(r, label) ==
  /\ pc' = [pc EXCEPT ![r] = label]
  /\ UNCHANGED reply

Finish(r, answer) ==
  /\ pc' = [pc EXCEPT ![r] = "done"]
  /\ reply' = [reply EXCEPT ![r] = answer]

\* AuthGuard lets a change of number in only for a stored user.
Receive(r) ==
  /\ pc[r] = "idle"
  /\ req[r].op = "setPhone" => req[r].user \in stored
  /\ Goto(r, IF req[r].op = "facebookSignIn" THEN "lookup" ELSE "check")
  /\ UNCHANGED <<req, seen, rehive, stored, phone, claim, raced>>

\* Mistake: the sign-up does not look for the phone number.
ConflictOfNames(r) ==
  CASE req[r].op = "signUp" -> NameTaken(Lower[req[r].name])
    [] req[r].op = "facebookSignUp" -> PhoneTaken(req[r].phone)
    [] req[r].op = "setPhone" -> PhoneTakenByOther(req[r].phone, req[r].user)

Conflict(r) ==
  CASE req[r].op = "signUp" ->
         NameTaken(Lower[req[r].name]) \/ PhoneTaken(req[r].phone)
    [] req[r].op = "facebookSignUp" -> PhoneTaken(req[r].phone)
    [] req[r].op = "setPhone" -> PhoneTakenByOther(req[r].phone, req[r].user)

AfterCheck(op) ==
  CASE op = "signUp"         -> "rehive"
    [] op = "facebookSignUp" -> "lookup"
    [] op = "setPhone"       -> "find"

Check(r) ==
  /\ pc[r] = "check"
  /\ IF Conflict(r) THEN Finish(r, "badRequest")
                    ELSE Goto(r, AfterCheck(req[r].op))
  /\ UNCHANGED <<req, seen, rehive, stored, phone, claim, raced>>

\* Facebook names the user, or the call fails and nothing catches it.  A known
\* identity is signed in; an unknown one gets an account, at sign-in too.
LookUp(r) ==
  /\ pc[r] = "lookup"
  /\ \/ Finish(r, "serverError")
     \/ /\ \E u \in stored : FacebookOf(u) = FacebookOf(r)
        /\ Finish(r, "ok")
     \/ /\ \A u \in stored : FacebookOf(u) # FacebookOf(r)
        /\ Goto(r, "rehive")
  /\ UNCHANGED <<req, seen, rehive, stored, phone, claim, raced>>

\* Mistake: the error of the ledger is swallowed.
CreateLedgerUserUnchecked(r) ==
  /\ pc[r] = "rehive"
  /\ Goto(r, "insert")
  /\ rehive' \in {rehive, rehive \cup {r}}
  /\ UNCHANGED <<req, seen, stored, phone, claim, raced>>

\* The ledger makes a user.  When the call fails, the user may exist or not.
CreateLedgerUser(r) ==
  /\ pc[r] = "rehive"
  /\ \/ Goto(r, "insert") /\ rehive' = rehive \cup {r}
     \/ Finish(r, "badRequest") /\ rehive' \in {rehive, rehive \cup {r}}
  /\ UNCHANGED <<req, seen, stored, phone, claim, raced>>

\* The user whose number request r sets.
OwnerOf(r) == IF req[r].op = "setPhone" THEN req[r].user ELSE r

\* The requests that found p free for their user and have not written it yet.
Claiming(p) ==
  {r \in Requests : /\ req[r].phone = p
                    /\ pc[r] \in {"lookup", "rehive", "insert", "find", "update"}}

\* Request r makes p the phone number of user u.
WritePhone(r, u, p) ==
  /\ phone' = [phone EXCEPT ![u] = p]
  /\ claim' = [claim EXCEPT ![u] = r]
  /\ raced' = raced \cup {q \in Claiming(p) : OwnerOf(q) # u}

\* Mistake: the client is answered before the save has succeeded.
InsertUserUnawaited(r) ==
  /\ pc[r] = "insert"
  /\ IF SchemaAdmits(r)
     THEN stored' = stored \cup {r} /\ WritePhone(r, r, req[r].phone)
     ELSE UNCHANGED <<stored, phone, claim, raced>>
  /\ Finish(r, "ok")
  /\ UNCHANGED <<req, seen, rehive>>

\* The document is saved under the ledger's id.  A sign-up turns a refusal of
\* the database into a 400; createUserAccount returns the promise of the save
\* without awaiting it, so its catch block sees no refusal.
InsertUser(r) ==
  /\ pc[r] = "insert"
  /\ \/ /\ SchemaAdmits(r)
        /\ stored' = stored \cup {r}
        /\ WritePhone(r, r, req[r].phone)
        /\ Finish(r, "ok")
     \/ /\ ~SchemaAdmits(r)
        /\ Finish(r, IF req[r].op = "signUp" THEN "badRequest" ELSE "serverError")
        /\ UNCHANGED <<stored, phone, claim, raced>>
  /\ UNCHANGED <<req, seen, rehive>>

\* Mistake: the handler keeps the wrong field of the document.
FindUserId(r) ==
  /\ pc[r] = "find"
  /\ seen' = [seen EXCEPT ![r] = req[r].user]
  /\ Goto(r, "update")
  /\ UNCHANGED <<req, rehive, stored, phone, claim, raced>>

FindUser(r) ==
  /\ pc[r] = "find"
  /\ seen' = [seen EXCEPT ![r] = phone[req[r].user]]
  /\ Goto(r, "update")
  /\ UNCHANGED <<req, rehive, stored, phone, claim, raced>>

\* Mongoose writes only a field whose value differs from the one it read.
UpdatePhone(r) ==
  /\ pc[r] = "update"
  /\ IF seen[r] = req[r].phone
     THEN UNCHANGED <<phone, claim, raced>>
     ELSE WritePhone(r, req[r].user, req[r].phone)
  /\ Finish(r, "ok")
  /\ UNCHANGED <<req, seen, rehive, stored>>

\* The process stops; its handlers are gone.
Crash ==
  /\ \E r \in Requests : pc[r] \notin {"idle", "done", "dead"}
  /\ pc' = [r \in Requests |->
              IF pc[r] \in {"idle", "done"} THEN pc[r] ELSE "dead"]
  /\ UNCHANGED <<req, reply, seen, rehive, stored, phone, claim, raced>>

-----------------------------------------------------------------------------
(* The specification *)

Init ==
  /\ req \in [Requests -> AccountRequest]
  /\ pc = [r \in Requests |-> "idle"]
  /\ reply = [r \in Requests |-> "none"]
  /\ seen = [r \in Requests |-> None]
  /\ rehive = {}
  /\ stored = {}
  /\ phone = [u \in Requests |-> None]
  /\ claim = [u \in Requests |-> None]
  /\ raced = {}

Step(r) ==
  \/ Receive(r) \/ Check(r) \/ LookUp(r) \/ CreateLedgerUser(r)
  \/ InsertUser(r) \/ FindUser(r) \/ UpdatePhone(r)

Next == (\E r \in Requests : Step(r)) \/ Crash

Spec == Init /\ [][Next]_vars

-----------------------------------------------------------------------------
(* Properties *)

TypeOK ==
  /\ req \in [Requests -> AccountRequest]
  /\ pc \in [Requests -> {"idle", "check", "lookup", "rehive", "insert", "find",
                          "update", "done", "dead"}]
  /\ reply \in [Requests -> {"none", "ok", "badRequest", "serverError"}]
  /\ seen \in [Requests -> Phones \cup {None}]
  /\ rehive \subseteq Requests
  /\ stored \subseteq Requests
  /\ phone \in [Requests -> Phones \cup {None}]
  /\ claim \in [Requests -> Requests \cup {None}]
  /\ raced \subseteq Requests

\* However sign-ups race, no two accounts share a name, and no two made with a
\* password differ only by case: the check races, so this rests on the unique
\* indexes and on storing what was checked, in lower case.
NamesDistinct ==
  \A u, v \in stored :
    u # v => /\ NameOf(u) # NameOf(v)
             /\ req[u].op = "signUp" /\ req[v].op = "signUp"
                  => Lower[req[u].name] # Lower[req[v].name]

\* Two first sign-ins with one Facebook identity do not make two accounts,
\* although both find none and no index covers the identity.
OneAccountPerFacebook ==
  \A u, v \in stored :
    u # v /\ FacebookOf(u) # None => FacebookOf(u) # FacebookOf(v)

\* An account always has its ledger user, and a ledger user without an account
\* belongs to a request that is not answered, failed or died: whoever was told
\* that all is well has both.
AccountsHaveLedgerUsers ==
  /\ stored \subseteq rehive
  /\ \A r \in rehive \ stored : reply[r] # "ok"

\* The answer to a sign-up with a password tells whether the account exists.
SignUpAnswerIsTrue ==
  \A r \in Requests :
    req[r].op = "signUp"
      => /\ reply[r] = "ok" => r \in stored
         /\ reply[r] = "badRequest" => r \notin stored

\* Requests that do not overlap never give one phone number to two accounts:
\* of two holders, one wrote it after a check that another write outdated.
SharedPhoneNeedsRace ==
  \A u, v \in stored :
    u # v /\ phone[u] # None /\ phone[u] = phone[v]
      => claim[u] \in raced \/ claim[v] \in raced

\* What the errors of auth.service.ts and users.service.ts say: a number that is
\* registered is not registered again.  The check and the write are not atomic
\* and the schema has no index on the number, so overlapping requests break it.
UniquePhone ==
  \A u, v \in stored : u # v /\ phone[u] # None => phone[u] # phone[v]

-----------------------------------------------------------------------------
(* Refinement of CheckedInsertion *)

\* The requests that passed their check, if they have one, and have not ended.
Looked == {r \in Requests : r \in Claiming(req[r].phone)}

\* The numbers in the documents, by the requests that wrote them.
Claims == {claim[u] : u \in stored}

\* Requests that would give one number to two users.
Rivals ==
  [r \in Requests |-> {q \in Requests : /\ req[q].phone = req[r].phone
                                        /\ req[q].phone # None
                                        /\ OwnerOf(q) # OwnerOf(r)}]

\* Requests whose number another wrote after their check.
Stale == {r \in raced : req[r].phone # None}

Insertion == INSTANCE CheckedInsertion
  WITH Writers <- Requests,
       rivals <- Rivals,
       looked <- Looked,
       items <- Claims,
       stale <- Stale

\* The phone numbers of accounts are written by the idiom of CheckedInsertion,
\* whether a sign-up, a sign-in with Facebook or a change of number writes them:
\* whoever writes one had passed a check for its rivals, and those it overtakes
\* are exactly the rivals that have passed theirs.
ImplementsInsertion == Insertion!Spec
=============================================================================

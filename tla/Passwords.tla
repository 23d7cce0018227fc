------------------------------ MODULE Passwords ------------------------------
(***************************************************************************)
(* Passwords of existing accounts: signIn and resetPassword of             *)
(* auth.service.ts, resetPassword of users.service.ts.  Reading the hash,  *)
(* comparing, hashing and saving are separated by awaits, and a reset      *)
(* finds its user by a phone number that may change hands meanwhile.       *)
(***************************************************************************)
CONSTANTS
  Requests, \* HTTP calls
  Users,    \* users with a document
  Secrets,  \* passwords
  Phones,   \* phone numbers
  None

ASSUME PasswordsAssumption == None \notin Users \cup Secrets

VARIABLES
  req,      \* what each request asks for; never changed
  pc,       \* where the handler of each request stands
  reply,    \* what the client was answered
  target,   \* the user whose document each handler found
  seen,     \* the password in that document
  password, \* the password of each user; None for a Facebook account
  phone,    \* the phone number of each user
  held,     \* history: the passwords the user of a request had while it ran
  holders   \* history: the users who had the number of a reset while it ran

vars == <<req, pc, reply, target, seen, password, phone, held, holders>>

-----------------------------------------------------------------------------
(* Requests *)

\* No user: an email that nobody has.
SignIn ==
  [op : {"signIn"}, user : Users \cup {None}, secret : Secrets, new : {None},
   phone : {None}]
Change ==
  [op : {"change"}, user : Users, secret : Secrets, new : Secrets, phone : {None}]
\* The number comes from a verification token, which does not expire.
Reset ==
  [op : {"reset"}, user : {None}, secret : {None}, new : Secrets, phone : Phones]

PasswordRequest == SignIn \cup Change \cup Reset

Running == {r \in Requests : pc[r] \in {"find", "compare", "save"}}

-----------------------------------------------------------------------------
(* Handlers *)

Goto(r, label) ==
  /\ pc' = [pc EXCEPT ![r] = label]
  /\ UNCHANGED reply

Finish(r, answer) ==
  /\ pc' = [pc EXCEPT ![r] = "done"]
  /\ reply' = [reply EXCEPT ![r] = answer]

\* The look-up that comes first: somebody has the email or the number.
Known(r) ==
  CASE req[r].op = "signIn" -> req[r].user # None
    [] req[r].op = "change" -> TRUE
    [] req[r].op = "reset"  -> \E u \in Users : phone[u] = req[r].phone

Receive(r) ==
  /\ pc[r] = "idle"
  /\ IF Known(r) THEN Goto(r, "find") ELSE Finish(r, "badRequest")
  /\ held' = [held EXCEPT ![r] =
                IF req[r].user = None THEN {} ELSE {password[req[r].user]}]
  /\ holders' = [holders EXCEPT ![r] = {u \in Users : phone[u] = req[r].phone}]
  /\ UNCHANGED <<req, target, seen, password, phone>>

\* The user a request is about; a number several accounts share finds any.
Matches(r, u) ==
  IF req[r].op = "reset" THEN phone[u] = req[r].phone ELSE u = req[r].user

\* Mistake: the handler keeps the number in place of the user.
FindUserByPhone(r) ==
  /\ pc[r] = "find"
  /\ req[r].op = "reset"
  /\ target' = [target EXCEPT ![r] = req[r].phone]
  /\ Goto(r, "save")
  /\ UNCHANGED <<req, seen, password, phone, held, holders>>

\* A second read.  A reset whose number nobody has any more sets a field of
\* null.
FindUser(r) ==
  /\ pc[r] = "find"
  /\ \/ \E u \in Users :
          /\ Matches(r, u)
          /\ target' = [target EXCEPT ![r] = u]
          /\ seen' = [seen EXCEPT ![r] = password[u]]
          /\ Goto(r, IF req[r].op = "reset" THEN "save" ELSE "compare")
     \/ /\ \A u \in Users : ~Matches(r, u)
        /\ Finish(r, "serverError")
        /\ UNCHANGED <<target, seen>>
  /\ UNCHANGED <<req, password, phone, held, holders>>

\* Mistake: without a hash any password is right.
CompareIfAny(r) ==
  /\ pc[r] = "compare"
  /\ IF seen[r] \notin {None, req[r].secret} THEN Finish(r, "badRequest")
     ELSE IF req[r].op = "signIn" THEN Finish(r, "ok") ELSE Goto(r, "save")
  /\ UNCHANGED <<req, target, seen, password, phone, held, holders>>

\* bcrypt throws when there is no hash to compare with.
Compare(r) ==
  /\ pc[r] = "compare"
  /\ \/ seen[r] = None /\ Finish(r, "serverError")
     \/ seen[r] \notin {None, req[r].secret} /\ Finish(r, "badRequest")
     \/ /\ seen[r] = req[r].secret
        /\ IF req[r].op = "signIn" THEN Finish(r, "ok") ELSE Goto(r, "save")
  /\ UNCHANGED <<req, target, seen, password, phone, held, holders>>

\* Mistake: all users with the number are updated.
SetPasswordOfAll(r) ==
  /\ pc[r] = "save"
  /\ password' = [u \in Users |->
                    IF Matches(r, u) THEN req[r].new ELSE password[u]]
  /\ held' = [q \in Requests |->
                IF q # r /\ q \in Running /\ req[q].user = target[r]
                THEN held[q] \cup {req[r].new} ELSE held[q]]
  /\ Finish(r, "ok")
  /\ UNCHANGED <<req, target, seen, phone, holders>>

\* The password of the user found is replaced, whatever it has become.
SetPassword(r) ==
  /\ pc[r] = "save"
  /\ password' = [password EXCEPT ![target[r]] = req[r].new]
  /\ held' = [q \in Requests |->
                IF q # r /\ q \in Running /\ req[q].user = target[r]
                THEN held[q] \cup {req[r].new} ELSE held[q]]
  /\ Finish(r, "ok")
  /\ UNCHANGED <<req, target, seen, phone, holders>>

\* A user changes its phone number (Accounts); two users may come to share one.
ChangePhone(u, p) ==
  /\ phone[u] # p
  /\ phone' = [phone EXCEPT ![u] = p]
  /\ holders' = [r \in Requests |->
                   IF r \in Running /\ req[r].phone = p
                   THEN holders[r] \cup {u} ELSE holders[r]]
  /\ UNCHANGED <<req, pc, reply, target, seen, password, held>>

\* The process stops; its handlers are gone.
Crash ==
  /\ Running # {}
  /\ pc' = [r \in Requests |-> IF r \in Running THEN "dead" ELSE pc[r]]
  /\ UNCHANGED <<req, reply, target, seen, password, phone, held, holders>>

-----------------------------------------------------------------------------
(* The specification *)

Init ==
  /\ req \in [Requests -> PasswordRequest]
  /\ pc = [r \in Requests |-> "idle"]
  /\ reply = [r \in Requests |-> "none"]
  /\ target = [r \in Requests |-> None]
  /\ seen = [r \in Requests |-> None]
  /\ password \in [Users -> Secrets \cup {None}]
  /\ phone \in [Users -> Phones]
  /\ held = [r \in Requests |-> {}]
  /\ holders = [r \in Requests |-> {}]

Next ==
  \/ \E r \in Requests : Receive(r) \/ FindUser(r) \/ Compare(r) \/ SetPassword(r)
  \/ \E u \in Users, p \in Phones : ChangePhone(u, p)
  \/ Crash

Spec == Init /\ [][Next]_vars

-----------------------------------------------------------------------------
(* Properties *)

TypeOK ==
  /\ req \in [Requests -> PasswordRequest]
  /\ pc \in [Requests -> {"idle", "find", "compare", "save", "done", "dead"}]
  /\ reply \in [Requests -> {"none", "ok", "badRequest", "serverError"}]
  /\ target \in [Requests -> Users \cup {None}]
  /\ seen \in [Requests -> Secrets \cup {None}]
  /\ password \in [Users -> Secrets \cup {None}]
  /\ phone \in [Users -> Phones]
  /\ held \in [Requests -> SUBSET (Secrets \cup {None})]
  /\ holders \in [Requests -> SUBSET Users]

\* However changes and resets race with it, a sign-in and a change of password
\* succeed only with a password the user had while they ran, and refuse a known
\* user only if it had another one.  So the password of a finished change or
\* reset signs in until the next, and the one before it does not.
AnswerFitsPassword ==
  \A r \in Requests :
    req[r].op \in {"signIn", "change"} =>
      /\ reply[r] = "ok" => req[r].secret \in held[r]
      /\ reply[r] = "badRequest" /\ req[r].user # None
           => \E s \in held[r] : s \notin {None, req[r].secret}
      /\ reply[r] = "serverError" => None \in held[r]

\* A password is replaced for one user at a time, only by a change that named a
\* password the user had while it ran, or by a reset for a number the user had
\* while it ran: also when accounts share the number or it changes hands.
ReplacedOnRequest ==
  [][\A u \in Users : password'[u] # password[u] =>
       /\ \A v \in Users \ {u} : password'[v] = password[v]
       /\ \E r \in Requests :
            /\ pc[r] = "save" /\ pc'[r] = "done"
            /\ \/ req[r].user = u /\ req[r].secret \in held[r]
               \/ req[r].op = "reset" /\ u \in holders[r]]_vars
=============================================================================

--------------------------- MODULE PasswordsProofs ---------------------------
(***************************************************************************)
(* Passwords for every number of requests, users, passwords and numbers.   *)
(* What a running request has read of its user is among the things the     *)
(* histories remember, whoever writes in between.                          *)
(***************************************************************************)
EXTENDS Passwords, TLAPS

LEMMA RequestFields ==
  ASSUME TypeOK, NEW r \in Requests
  PROVE  /\ req[r].op \in {"signIn", "change", "reset"}
         /\ req[r].op = "reset" <=> req[r].new \in Secrets /\ req[r].user = None
         /\ req[r].op = "change" => req[r].new \in Secrets /\ req[r].user \in Users
         /\ req[r].user \in Users \cup {None}
         /\ req[r].op # "reset" => req[r].secret \in Secrets
<1>1. req[r] \in SignIn \/ req[r] \in Change \/ req[r] \in Reset
  BY DEF TypeOK, PasswordRequest
<1>2. QED
  BY <1>1, PasswordsAssumption DEF SignIn, Change, Reset

-----------------------------------------------------------------------------
(* The inductive invariant *)

\* A sign-in or a change: what it read of its user is remembered.
Remembered(r) ==
  req[r].op \in {"signIn", "change"} =>
    /\ pc[r] \in {"find", "compare", "save"}
         => req[r].user \in Users /\ password[req[r].user] \in held[r]
    /\ pc[r] \in {"compare", "save"} => target[r] = req[r].user
    /\ pc[r] = "compare" => seen[r] \in held[r]
    /\ pc[r] = "save" => req[r].op = "change" /\ req[r].secret \in held[r]

\* A reset: the users it can reach had the number while it ran.
Reached(r) ==
  req[r].op = "reset" =>
    /\ pc[r] \in {"find", "save"} =>
         \A u \in Users : phone[u] = req[r].phone => u \in holders[r]
    /\ pc[r] # "compare"
    /\ pc[r] = "save" => target[r] \in holders[r]

Fits(r) ==
  /\ reply[r] # "none" => pc[r] = "done"
  /\ req[r].op \in {"signIn", "change"} =>
      /\ reply[r] = "ok" => req[r].secret \in held[r]
      /\ reply[r] = "badRequest" /\ req[r].user # None
           => \E s \in held[r] : s \notin {None, req[r].secret}
      /\ reply[r] = "serverError" => None \in held[r]

Saving(r) == pc[r] = "save" => target[r] \in Users /\ req[r].op # "signIn"

RequestInv(r) == Remembered(r) /\ Reached(r) /\ Fits(r) /\ Saving(r)

IInv == TypeOK /\ \A r \in Requests : RequestInv(r)

LEMMA InitIInv ==
  ASSUME Init
  PROVE  IInv
BY DEF Init, IInv, TypeOK, RequestInv, Remembered, Reached, Fits, Saving

-----------------------------------------------------------------------------
(* Type correctness *)

LEMMA TypeStep ==
  ASSUME IInv, [Next]_vars
  PROVE  TypeOK'
<1> USE DEF IInv
<1>1. ASSUME NEW r \in Requests, Receive(r)
      PROVE  TypeOK'
  <2>1. req[r].user # None => req[r].user \in Users
    BY RequestFields
  <2>2. held' \in [Requests -> SUBSET (Secrets \cup {None})]
    BY <1>1, <2>1 DEF TypeOK, Receive
  <2>3. QED
    BY <1>1, <2>2 DEF TypeOK, Receive, Goto, Finish
<1>2. ASSUME NEW r \in Requests, FindUser(r)
      PROVE  TypeOK'
  BY <1>2 DEF TypeOK, FindUser, Goto, Finish
<1>3. ASSUME NEW r \in Requests, Compare(r)
      PROVE  TypeOK'
  BY <1>3 DEF TypeOK, Compare, Goto, Finish
<1>4. ASSUME NEW r \in Requests, SetPassword(r)
      PROVE  TypeOK'
  <2>1. target[r] \in Users /\ req[r].new \in Secrets
    BY <1>4, RequestFields DEF RequestInv, Saving, SetPassword
  <2>2. password' \in [Users -> Secrets \cup {None}]
    BY <1>4, <2>1 DEF TypeOK, SetPassword
  <2>3. held' \in [Requests -> SUBSET (Secrets \cup {None})]
    BY <1>4, <2>1 DEF TypeOK, SetPassword
  <2>4. QED
    BY <1>4, <2>2, <2>3 DEF TypeOK, SetPassword, Finish
<1>5. ASSUME NEW u \in Users, NEW p \in Phones, ChangePhone(u, p)
      PROVE  TypeOK'
  BY <1>5 DEF TypeOK, ChangePhone
<1>6. CASE Crash
  BY <1>6 DEF TypeOK, Crash
<1>7. CASE UNCHANGED vars
  BY <1>7 DEF TypeOK, vars
<1>8. QED
  BY <1>1, <1>2, <1>3, <1>4, <1>5, <1>6, <1>7 DEF Next

-----------------------------------------------------------------------------
(* The invariant holds at every step *)

\* A step of r that writes neither passwords nor numbers is nothing to others.
LEMMA OthersUnchanged ==
  ASSUME TypeOK, NEW r \in Requests, Receive(r) \/ FindUser(r) \/ Compare(r),
         NEW q \in Requests, q # r, RequestInv(q)
  PROVE  RequestInv(q)'
<1>1. /\ req' = req /\ password' = password /\ phone' = phone
      /\ pc'[q] = pc[q] /\ reply'[q] = reply[q] /\ target'[q] = target[q]
      /\ seen'[q] = seen[q] /\ held'[q] = held[q] /\ holders'[q] = holders[q]
  BY DEF TypeOK, Receive, FindUser, Compare, Goto, Finish
<1>2. QED
  BY <1>1 DEF RequestInv, Remembered, Reached, Fits, Saving

LEMMA OwnReceive ==
  ASSUME TypeOK, NEW r \in Requests, Receive(r), RequestInv(r)
  PROVE  RequestInv(r)'
<1>1. /\ pc[r] = "idle" /\ UNCHANGED <<req, target, seen, password, phone>>
      /\ holders'[r] = {u \in Users : phone[u] = req[r].phone}
      /\ held'[r] = IF req[r].user = None THEN {} ELSE {password[req[r].user]}
      /\ reply[r] = "none"
  BY DEF TypeOK, Receive, RequestInv, Fits
<1>2. CASE Known(r) /\ Goto(r, "find")
  <2>1. pc'[r] = "find" /\ reply'[r] = "none"
    BY <1>1, <1>2 DEF TypeOK, Goto
  <2>2. req[r].op \in {"signIn", "change"} => req[r].user \in Users
    BY <1>2, RequestFields, PasswordsAssumption DEF Known
  <2>3. req[r].op \in {"signIn", "change"} => held'[r] = {password[req[r].user]}
    BY <1>1, <2>2, PasswordsAssumption
  <2>4. QED
    BY <1>1, <2>1, <2>2, <2>3 DEF RequestInv, Remembered, Reached, Fits, Saving
<1>3. CASE ~Known(r) /\ Finish(r, "badRequest")
  <2>1. pc'[r] = "done" /\ reply'[r] = "badRequest"
    BY <1>3 DEF TypeOK, Finish
  <2>2. req[r].op \in {"signIn", "change"} => req[r].user = None
    BY <1>3 DEF Known
  <2>3. QED
    BY <1>1, <2>1, <2>2 DEF RequestInv, Remembered, Reached, Fits, Saving
<1>4. QED
  BY <1>2, <1>3 DEF Receive

LEMMA OwnFind ==
  ASSUME TypeOK, NEW r \in Requests, FindUser(r), RequestInv(r)
  PROVE  RequestInv(r)'
<1>1. /\ pc[r] = "find" /\ UNCHANGED <<req, password, phone, held, holders>>
      /\ reply[r] = "none" /\ req[r].op \in {"signIn", "change", "reset"}
  BY RequestFields DEF TypeOK, FindUser, RequestInv, Fits
<1>2. ASSUME NEW u \in Users, Matches(r, u),
             target' = [target EXCEPT ![r] = u],
             seen' = [seen EXCEPT ![r] = password[u]],
             Goto(r, IF req[r].op = "reset" THEN "save" ELSE "compare")
      PROVE  RequestInv(r)'
  <2>1. /\ target'[r] = u /\ seen'[r] = password[u] /\ reply'[r] = "none"
        /\ pc'[r] = IF req[r].op = "reset" THEN "save" ELSE "compare"
    BY <1>1, <1>2 DEF TypeOK, Goto
  <2>2. CASE req[r].op = "reset"
    BY <1>1, <1>2, <2>1, <2>2
       DEF RequestInv, Remembered, Reached, Fits, Saving, Matches
  <2>3. CASE req[r].op # "reset"
    BY <1>1, <1>2, <2>1, <2>3
       DEF RequestInv, Remembered, Reached, Fits, Saving, Matches
  <2>4. QED
    BY <2>2, <2>3
<1>3. CASE (\A u \in Users : ~Matches(r, u)) /\ Finish(r, "serverError")
           /\ UNCHANGED <<target, seen>>
  <2>1. pc'[r] = "done" /\ reply'[r] = "serverError"
    BY <1>3 DEF TypeOK, Finish
  <2>2. req[r].op = "reset"
    BY <1>1, <1>3 DEF Matches, RequestInv, Remembered
  <2>3. QED
    BY <1>1, <2>1, <2>2 DEF RequestInv, Remembered, Reached, Fits, Saving
<1>4. QED
  BY <1>2, <1>3 DEF FindUser

LEMMA OwnCompare ==
  ASSUME TypeOK, NEW r \in Requests, Compare(r), RequestInv(r)
  PROVE  RequestInv(r)'
<1>1. /\ pc[r] = "compare" /\ reply[r] = "none"
      /\ UNCHANGED <<req, target, seen, password, phone, held, holders>>
      /\ req[r].op \in {"signIn", "change"}
      /\ req[r].user \in Users /\ password[req[r].user] \in held[r]
      /\ target[r] = req[r].user /\ seen[r] \in held[r]
  BY RequestFields
     DEF TypeOK, Compare, RequestInv, Remembered, Reached, Fits
<1>2. CASE seen[r] = None /\ Finish(r, "serverError")
  <2>1. pc'[r] = "done" /\ reply'[r] = "serverError"
    BY <1>2 DEF TypeOK, Finish
  <2>2. QED
    BY <1>1, <1>2, <2>1 DEF RequestInv, Remembered, Reached, Fits, Saving
<1>3. CASE seen[r] \notin {None, req[r].secret} /\ Finish(r, "badRequest")
  <2>1. pc'[r] = "done" /\ reply'[r] = "badRequest"
    BY <1>3 DEF TypeOK, Finish
  <2>2. QED
    BY <1>1, <1>3, <2>1 DEF RequestInv, Remembered, Reached, Fits, Saving
<1>4. CASE seen[r] = req[r].secret /\ req[r].op = "signIn" /\ Finish(r, "ok")
  <2>1. pc'[r] = "done" /\ reply'[r] = "ok"
    BY <1>4 DEF TypeOK, Finish
  <2>2. QED
    BY <1>1, <1>4, <2>1 DEF RequestInv, Remembered, Reached, Fits, Saving
<1>5. CASE seen[r] = req[r].secret /\ req[r].op # "signIn" /\ Goto(r, "save")
  <2>1. pc'[r] = "save" /\ reply'[r] = "none"
    BY <1>1, <1>5 DEF TypeOK, Goto
  <2>2. QED
    BY <1>1, <1>5, <2>1 DEF RequestInv, Remembered, Reached, Fits, Saving
<1>6. QED
  BY <1>2, <1>3, <1>4, <1>5 DEF Compare

\* A new password is remembered by every other request on its user.
LEMMA SetPasswordStep ==
  ASSUME IInv, NEW r \in Requests, SetPassword(r), NEW q \in Requests
  PROVE  RequestInv(q)'
<1>1. /\ TypeOK /\ RequestInv(q) /\ RequestInv(r)
      /\ pc[r] = "save" /\ UNCHANGED <<req, target, seen, phone, holders>>
      /\ target[r] \in Users
  BY DEF IInv, SetPassword, RequestInv, Saving
<1>2. CASE q = r
  <2>1. pc'[q] = "done" /\ reply'[q] = "ok" /\ held'[q] = held[q]
    BY <1>1, <1>2 DEF TypeOK, SetPassword, Finish
  <2>2. QED
    BY <1>1, <1>2, <2>1 DEF RequestInv, Remembered, Reached, Fits, Saving
<1>3. CASE q # r
  <2>1. /\ pc'[q] = pc[q] /\ reply'[q] = reply[q]
        /\ held[q] \subseteq held'[q]
        /\ q \in Running /\ req[q].user = target[r] => req[r].new \in held'[q]
        /\ q \notin Running => held'[q] = held[q]
    BY <1>1, <1>3 DEF TypeOK, SetPassword, Finish
  <2>2. \A u \in Users : password'[u] = IF u = target[r] THEN req[r].new
                                                         ELSE password[u]
    BY <1>1 DEF TypeOK, SetPassword
  <2>3. Remembered(q)'
    BY <1>1, <2>1, <2>2 DEF RequestInv, Remembered, Running
  <2>4. Fits(q)'
    BY <1>1, <2>1 DEF RequestInv, Fits
  <2>5. Reached(q)' /\ Saving(q)'
    BY <1>1, <2>1 DEF RequestInv, Reached, Saving
  <2>6. QED
    BY <2>3, <2>4, <2>5 DEF RequestInv
<1>4. QED
  BY <1>2, <1>3

LEMMA StepIInv ==
  ASSUME IInv, [Next]_vars
  PROVE  IInv'
<1>1. TypeOK /\ TypeOK' /\ \A q \in Requests : RequestInv(q)
  BY TypeStep DEF IInv
<1>2. ASSUME NEW r \in Requests, Receive(r) \/ FindUser(r) \/ Compare(r),
             NEW q \in Requests
      PROVE  RequestInv(q)'
  BY <1>1, <1>2, OthersUnchanged, OwnReceive, OwnFind, OwnCompare
<1>3. ASSUME NEW r \in Requests, SetPassword(r), NEW q \in Requests
      PROVE  RequestInv(q)'
  BY <1>3, SetPasswordStep
<1>4. ASSUME NEW u \in Users, NEW p \in Phones, ChangePhone(u, p),
             NEW q \in Requests
      PROVE  RequestInv(q)'
  <2>1. /\ UNCHANGED <<req, pc, reply, target, seen, password, held>>
        /\ holders[q] \subseteq holders'[q]
        /\ q \in Running /\ req[q].phone = p => u \in holders'[q]
        /\ \A v \in Users : phone'[v] = IF v = u THEN p ELSE phone[v]
    BY <1>1, <1>4 DEF TypeOK, ChangePhone
  <2>2. QED
    BY <1>1, <2>1 DEF RequestInv, Remembered, Reached, Fits, Saving, Running
<1>5. ASSUME Crash, NEW q \in Requests
      PROVE  RequestInv(q)'
  <2>1. /\ UNCHANGED <<req, reply, target, seen, password, phone, held, holders>>
        /\ pc'[q] = IF q \in Running THEN "dead" ELSE pc[q]
    BY <1>1, <1>5 DEF Crash, TypeOK
  <2>2. QED
    BY <1>1, <2>1 DEF RequestInv, Remembered, Reached, Fits, Saving, Running
<1>6. ASSUME UNCHANGED vars, NEW q \in Requests
      PROVE  RequestInv(q)'
  BY <1>1, <1>6 DEF vars, RequestInv, Remembered, Reached, Fits, Saving
<1>7. QED
  BY <1>1, <1>2, <1>3, <1>4, <1>5, <1>6 DEF Next, IInv

LEMMA Invariance == Spec => []IInv
BY InitIInv, StepIInv, PTL DEF Spec

-----------------------------------------------------------------------------
(* Results *)

\* Every variable keeps its type.
THEOREM TypeCorrect == Spec => []TypeOK
<1>1. IInv => TypeOK
  BY DEF IInv
<1>2. QED
  BY <1>1, Invariance, PTL

\* Sign-ins and changes are answered as a password the user had while they ran.
THEOREM AnswersFit == Spec => []AnswerFitsPassword
<1>1. IInv => AnswerFitsPassword
  BY DEF IInv, RequestInv, Fits, AnswerFitsPassword
<1>2. QED
  BY <1>1, Invariance, PTL

\* A step replaces the password of at most one user, on a request that may.
LEMMA StepReplaces ==
  ASSUME IInv, Next, NEW u \in Users, password'[u] # password[u]
  PROVE  /\ \A v \in Users \ {u} : password'[v] = password[v]
         /\ \E r \in Requests :
              /\ pc[r] = "save" /\ pc'[r] = "done"
              /\ \/ req[r].user = u /\ req[r].secret \in held[r]
                 \/ req[r].op = "reset" /\ u \in holders[r]
<1>1. PICK r \in Requests : SetPassword(r)
  BY DEF Next, Receive, FindUser, Compare, ChangePhone, Crash
<1>2. /\ TypeOK /\ RequestInv(r) /\ pc[r] = "save" /\ target[r] \in Users
      /\ req[r].op \in {"change", "reset"}
  BY <1>1, RequestFields DEF IInv, RequestInv, SetPassword, Saving
<1>3. /\ pc'[r] = "done"
      /\ \A v \in Users : password'[v] # password[v] => v = target[r]
  BY <1>1, <1>2 DEF TypeOK, SetPassword, Finish
<1>4. \/ req[r].user = target[r] /\ req[r].secret \in held[r]
      \/ req[r].op = "reset" /\ target[r] \in holders[r]
  BY <1>2 DEF RequestInv, Remembered, Reached
<1>5. QED
  BY <1>2, <1>3, <1>4

\* Nobody's password is replaced but on a request for that user.
THEOREM ReplacementsRequested == Spec => ReplacedOnRequest
<1>1. IInv /\ [Next]_vars
        => [\A u \in Users : password'[u] # password[u] =>
              /\ \A v \in Users \ {u} : password'[v] = password[v]
              /\ \E r \in Requests :
                   /\ pc[r] = "save" /\ pc'[r] = "done"
                   /\ \/ req[r].user = u /\ req[r].secret \in held[r]
                      \/ req[r].op = "reset" /\ u \in holders[r]]_vars
  BY StepReplaces
<1>2. QED
  BY <1>1, Invariance, PTL DEF Spec, ReplacedOnRequest

-----------------------------------------------------------------------------
(* Accounts without a password *)

\* A change of a password that is not there cannot have known one.
Unknowing(r) ==
  req[r].op = "change" /\ password[req[r].user] = None => held[r] \subseteq {None}

\* A password is there for good, and only a reset puts one where none was.
FirstPasswordByReset ==
  \A u \in Users :
    /\ password[u] # None => password'[u] # None
    /\ password[u] = None /\ password'[u] # None
         => \E r \in Requests : /\ pc[r] = "save" /\ pc'[r] = "done"
                                /\ req[r].op = "reset" /\ u \in holders[r]

LEMMA UnknowingStep ==
  ASSUME IInv, \A r \in Requests : Unknowing(r), [Next]_vars, NEW q \in Requests
  PROVE  Unknowing(q)'
<1>1. TypeOK /\ None \notin Secrets
  BY PasswordsAssumption DEF IInv
<1>2. req' = req
  BY DEF Next, Receive, FindUser, Compare, SetPassword, ChangePhone, Crash, vars
<1>3. SUFFICES ASSUME req[q].op = "change", password'[req[q].user] = None
               PROVE  held'[q] \subseteq {None}
  BY <1>2 DEF Unknowing
<1>4. req[q].user \in Users /\ req[q].user # None
  BY <1>1, <1>3, RequestFields, PasswordsAssumption
<1>5. ASSUME NEW r \in Requests, Receive(r)
      PROVE  held'[q] \subseteq {None}
  BY <1>1, <1>3, <1>4, <1>5 DEF Receive, TypeOK, Unknowing
<1>6. ASSUME NEW r \in Requests, SetPassword(r)
      PROVE  held'[q] \subseteq {None}
  <2>1. /\ target[r] \in Users /\ req[r].new \in Secrets
        /\ password' = [password EXCEPT ![target[r]] = req[r].new]
    BY <1>1, <1>6, RequestFields DEF IInv, RequestInv, Saving, SetPassword
  <2>2. req[q].user # target[r] /\ password[req[q].user] = None
    BY <1>1, <1>3, <1>4, <2>1 DEF TypeOK
  <2>3. held'[q] = held[q]
    BY <1>6, <2>2 DEF SetPassword
  <2>4. QED
    BY <1>3, <2>2, <2>3 DEF Unknowing
<1>7. ASSUME UNCHANGED <<password, held>>
      PROVE  held'[q] \subseteq {None}
  BY <1>3, <1>7 DEF Unknowing
<1>8. QED
  BY <1>5, <1>6, <1>7 DEF Next, FindUser, Compare, ChangePhone, Crash, vars

\* No account loses its password, and one that was made with Facebook gets its
\* first by a reset, for a number it had while the reset ran.
THEOREM FirstPasswords == Spec => [][FirstPasswordByReset]_vars
<1> DEFINE All == \A r \in Requests : Unknowing(r)
<1>1. Init => All
  BY DEF Init, Unknowing
<1>2. IInv /\ All /\ [Next]_vars => All'
  BY UnknowingStep
<1>3. ASSUME IInv, All, [Next]_vars
      PROVE  [FirstPasswordByReset]_vars
  <2>1. TypeOK /\ None \notin Secrets
    BY <1>3, PasswordsAssumption DEF IInv
  <2>2. ASSUME NEW r \in Requests, SetPassword(r)
        PROVE  FirstPasswordByReset
    <3>1. /\ target[r] \in Users /\ req[r].new \in Secrets
          /\ password' = [password EXCEPT ![target[r]] = req[r].new]
          /\ pc[r] = "save" /\ pc'[r] = "done"
          /\ req[r].op \in {"change", "reset"}
      BY <1>3, <2>1, <2>2, RequestFields
         DEF IInv, TypeOK, RequestInv, Saving, SetPassword, Finish
    <3>2. ASSUME password[target[r]] = None
          PROVE  req[r].op = "reset" /\ target[r] \in holders[r]
      <4>1. ASSUME req[r].op = "change"
            PROVE  FALSE
        <5>1. target[r] = req[r].user /\ req[r].secret \in held[r]
          BY <1>3, <3>1, <4>1 DEF IInv, RequestInv, Remembered
        <5>2. req[r].secret \in Secrets
          BY <2>1, <4>1 DEF TypeOK, PasswordRequest, SignIn, Change, Reset
        <5>3. held[r] \subseteq {None}
          BY <1>3, <3>2, <4>1, <5>1 DEF Unknowing
        <5>4. QED
          BY <2>1, <5>1, <5>2, <5>3
      <4>2. QED
        BY <1>3, <3>1, <4>1 DEF IInv, RequestInv, Reached
    <3>3. ASSUME NEW u \in Users
          PROVE  /\ password[u] # None => password'[u] # None
                 /\ password[u] = None /\ password'[u] # None => u = target[r]
      BY <2>1, <3>1 DEF TypeOK
    <3>4. QED
      BY <3>1, <3>2, <3>3 DEF FirstPasswordByReset
  <2>3. ASSUME password' = password
        PROVE  FirstPasswordByReset
    BY <2>3 DEF FirstPasswordByReset
  <2>4. QED
    BY <1>3, <2>2, <2>3 DEF Next, Receive, FindUser, Compare, ChangePhone, Crash, vars
<1>4. QED
  BY <1>1, <1>2, <1>3, Invariance, PTL DEF Spec
=============================================================================

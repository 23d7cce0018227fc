------------------------------ MODULE KycProofs ------------------------------
(***************************************************************************)
(* Kyc for every number of requests, users and keys.  A handler that was   *)
(* not raced is the only one in flight for its user, so what it read and   *)
(* what it patched still stand when it writes.                             *)
(***************************************************************************)
EXTENDS Kyc, TLAPS

InFlightLabels == {"patch", "find", "save", "set"}

\* Requests are about users, and a submission asks for a pending status.
LEMMA RequestFields ==
  ASSUME TypeOK, NEW r \in Requests
  PROVE  /\ UserOf(r) \in Users
         /\ req[r].key \in Keys
         /\ req[r].op = "submit" => req[r].review = "pending"
         /\ req[r].op = "review" => req[r] \in Review
         /\ req[r].op \in {"submit", "review"}
         /\ Status(r) \in {"incomplete", "pending", "verified", "declined"}
         /\ Status(r) = "verified" => req[r].review = "approved"
<1>1. req[r] \in Submission \/ req[r] \in Review
  BY DEF TypeOK
<1>2. /\ req[r].key \in Keys /\ req[r].review \in Reviews
      /\ req[r].op = "submit" => req[r].review = "pending"
      /\ req[r].op = "review" => req[r] \in Review
      /\ req[r].op \in {"submit", "review"}
  BY <1>1 DEF Submission, Review, Reviews
<1>3. /\ Status(r) \in {"incomplete", "pending", "verified", "declined"}
      /\ Status(r) = "verified" => req[r].review = "approved"
  BY <1>2 DEF Status, RehiveStatus, Reviews
<1>4. QED
  BY <1>2, <1>3, KycAssumption DEF UserOf

-----------------------------------------------------------------------------
(* The inductive invariant *)

\* What a handler in flight may rely on unless it was raced.
Trusts(r) ==
  pc[r] \in InFlightLabels /\ r \notin raced =>
    /\ InFlight(UserOf(r)) = {r}
    /\ pc[r] \in {"find", "save", "set"} => ledger[UserOf(r)] = Status(r)
    /\ pc[r] = "save" => seen[r] = kyc[UserOf(r)]
    /\ req[r].op = "review" => kyc[UserOf(r)].key = req[r].key

\* Where the two operations lead.
Placed(r) ==
  /\ pc[r] \in {"find", "save"} => req[r].op = "submit"
  /\ pc[r] = "set" => req[r].op = "review"
  /\ reply[r] # "none" => pc[r] = "done"
  /\ pc[r] = "idle" => r \notin raced

\* The users a raced handler works on are torn.
RacesTear == \A r \in raced : pc[r] \in InFlightLabels => UserOf(r) \in torn

\* While no handler has patched the ledger, it agrees with the document.
Whole(u) ==
  u \notin torn /\ (\A r \in InFlight(u) : pc[r] = "patch")
    => ledger[u] = kyc[u].status

IInv ==
  /\ TypeOK
  /\ \A r \in Requests : Trusts(r) /\ Placed(r)
  /\ RacesTear
  /\ \A u \in Users : Whole(u)
  /\ ApprovedUnderItsKey

LEMMA InitIInv ==
  ASSUME Init
  PROVE  IInv
<1>1. TypeOK
  BY DEF Init, TypeOK, Unverified, KycField
<1>2. ASSUME NEW r \in Requests
      PROVE  Trusts(r) /\ Placed(r)
  BY <1>2 DEF Init, Trusts, Placed, InFlightLabels
<1>3. RacesTear /\ ApprovedUnderItsKey /\ \A u \in Users : Whole(u)
  BY DEF Init, RacesTear, ApprovedUnderItsKey, Whole, Unverified
<1>4. QED
  BY <1>1, <1>2, <1>3 DEF IInv

-----------------------------------------------------------------------------
(* Type correctness *)

LEMMA TypeStep ==
  ASSUME TypeOK, [Next]_vars
  PROVE  TypeOK'
<1>1. ASSUME NEW r \in Requests, Submit(r) \/ LookUp(r)
      PROVE  TypeOK'
  <2>1. UserOf(r) \in Users
    BY RequestFields
  <2>2. UNCHANGED <<req, seen, ledger, kyc>>
    BY <1>1 DEF Submit, LookUp
  <2>3. CASE Enter(r)
    BY <2>1, <2>2, <2>3 DEF TypeOK, Enter, InFlight, Goto
  <2>4. CASE Finish(r, "unknown") /\ UNCHANGED <<raced, torn>>
    BY <2>2, <2>4 DEF TypeOK, Finish
  <2>5. QED
    BY <1>1, <2>3, <2>4 DEF Submit, LookUp
<1>2. ASSUME NEW r \in Requests, PatchLedger(r)
      PROVE  TypeOK'
  <2>1. UserOf(r) \in Users /\ Status(r) \in {"incomplete", "pending", "verified", "declined"}
    BY RequestFields
  <2>2. ledger' \in {ledger, [ledger EXCEPT ![UserOf(r)] = Status(r)]}
    BY <1>2 DEF PatchLedger
  <2>3. ledger' \in [Users -> {"incomplete", "pending", "verified", "declined"}]
    BY <2>1, <2>2 DEF TypeOK
  <2>4. QED
    BY <1>2, <2>1, <2>3 DEF TypeOK, PatchLedger, Goto, Finish, AfterPatch
<1>3. ASSUME NEW r \in Requests, FindUser(r)
      PROVE  TypeOK'
  BY <1>3, RequestFields DEF TypeOK, FindUser, Goto
<1>4. ASSUME NEW r \in Requests, SaveUser(r) \/ SetStatus(r)
      PROVE  TypeOK'
  <2>1. /\ UserOf(r) \in Users /\ req[r].key \in Keys
        /\ Status(r) \in {"incomplete", "pending", "verified", "declined"}
    BY RequestFields
  <2>2. kyc' \in [Users -> KycField]
    BY <1>4, <2>1 DEF TypeOK, SaveUser, SetStatus, KycField
  <2>3. QED
    BY <1>4, <2>2 DEF TypeOK, SaveUser, SetStatus, Leave, Finish
<1>5. CASE Crash
  BY <1>5 DEF TypeOK, Crash
<1>6. CASE UNCHANGED vars
  BY <1>6 DEF TypeOK, vars
<1>7. QED
  BY <1>1, <1>2, <1>3, <1>4, <1>5, <1>6 DEF Next, Step

-----------------------------------------------------------------------------
(* The invariant holds at every step *)

\* A handler enters: alone, or it and the others are raced and the user torn.
LEMMA EnterStep ==
  ASSUME IInv, TypeOK', NEW r \in Requests, pc[r] = "idle", Enter(r),
         req[r].op = "review" => kyc[UserOf(r)].key = req[r].key,
         UNCHANGED <<req, seen, ledger, kyc>>
  PROVE  IInv'
<1>1. /\ pc' = [pc EXCEPT ![r] = "patch"] /\ reply' = reply
      /\ TypeOK /\ UserOf(r) \in Users
  BY RequestFields DEF IInv, Enter, Goto
<1>2. \A u : InFlight(u)' = IF u = UserOf(r) THEN InFlight(u) \cup {r}
                                             ELSE InFlight(u)
  BY <1>1 DEF InFlight, UserOf, TypeOK
<1>3. r \notin InFlight(UserOf(r))
  BY DEF InFlight
<1>4. CASE InFlight(UserOf(r)) = {}
  <2>1. raced' = raced /\ torn' = torn
    BY <1>4 DEF Enter
  <2>2. ASSUME NEW q \in Requests
        PROVE  Trusts(q)'
    <3>1. CASE q = r
      BY <1>1, <1>2, <1>4, <3>1 DEF TypeOK, Trusts, UserOf, InFlightLabels
    <3>2. CASE q # r
      BY <1>1, <1>2, <1>4, <2>1, <3>2
         DEF IInv, TypeOK, Trusts, UserOf, InFlightLabels, InFlight, Status
    <3>3. QED
      BY <3>1, <3>2
  <2>3. ASSUME NEW q \in Requests
        PROVE  Placed(q)'
    BY <1>1, <2>1, <2>3 DEF IInv, TypeOK, Placed
  <2>4. RacesTear'
    BY <1>1, <2>1 DEF IInv, TypeOK, Placed, RacesTear, UserOf, InFlightLabels
  <2>5. ASSUME NEW u \in Users
        PROVE  Whole(u)'
    BY <1>1, <1>2, <2>1, <2>5 DEF IInv, TypeOK, Whole, InFlight, UserOf
  <2>6. ApprovedUnderItsKey'
    BY <1>1, <2>1 DEF IInv, ApprovedUnderItsKey
  <2>7. QED
    BY <2>2, <2>3, <2>4, <2>5, <2>6 DEF IInv
<1>5. CASE InFlight(UserOf(r)) # {}
  <2>1. /\ raced' = raced \cup InFlight(UserOf(r)) \cup {r}
        /\ torn' = torn \cup {UserOf(r)}
    BY <1>5 DEF Enter
  <2>2. ASSUME NEW q \in Requests
        PROVE  Trusts(q)' /\ Placed(q)'
    BY <1>1, <1>2, <2>1
       DEF IInv, TypeOK, Trusts, Placed, UserOf, InFlightLabels, InFlight, Status
  <2>3. RacesTear'
    BY <1>1, <2>1
       DEF IInv, TypeOK, Placed, RacesTear, UserOf, InFlightLabels, InFlight
  <2>4. ASSUME NEW u \in Users
        PROVE  Whole(u)'
    BY <1>1, <1>2, <2>1, <2>4 DEF IInv, TypeOK, Whole, InFlight, UserOf
  <2>5. ApprovedUnderItsKey'
    BY <1>1, <2>1 DEF IInv, ApprovedUnderItsKey
  <2>6. QED
    BY <2>2, <2>3, <2>4, <2>5 DEF IInv
<1>6. QED
  BY <1>4, <1>5

\* A handler that goes on to its next step leaves everybody in flight.
LEMMA StayInFlight ==
  ASSUME TypeOK, NEW r \in Requests, pc[r] \in InFlightLabels, req' = req,
         NEW label \in InFlightLabels, pc' = [pc EXCEPT ![r] = label]
  PROVE  \A u : InFlight(u)' = InFlight(u)
BY DEF TypeOK, InFlight, UserOf, InFlightLabels

\* One that finishes leaves the others.
LEMMA LandOne ==
  ASSUME TypeOK, NEW r \in Requests, req' = req, pc' = [pc EXCEPT ![r] = "done"]
  PROVE  \A u : InFlight(u)' = InFlight(u) \ {r}
BY DEF TypeOK, InFlight, UserOf

LEMMA PatchStep ==
  ASSUME IInv, TypeOK', NEW r \in Requests, PatchLedger(r)
  PROVE  IInv'
<1>1. /\ TypeOK /\ UserOf(r) \in Users /\ pc[r] = "patch"
      /\ UNCHANGED <<req, seen, kyc, raced>>
      /\ reply[r] = "none"
      /\ req[r].op \in {"submit", "review"}
  BY RequestFields DEF IInv, PatchLedger, Placed, TypeOK
<1>2. r \in InFlight(UserOf(r))
  BY <1>1 DEF InFlight
<1>3. ASSUME NEW q \in Requests, q # r, pc[q] \in InFlightLabels, q \notin raced
      PROVE  UserOf(q) # UserOf(r)
  BY <1>2, <1>3 DEF IInv, Trusts
<1>4. CASE /\ ledger' = [ledger EXCEPT ![UserOf(r)] = Status(r)]
           /\ Goto(r, AfterPatch(r))
           /\ UNCHANGED torn
  <2>1. /\ pc' = [pc EXCEPT ![r] = AfterPatch(r)] /\ reply' = reply
        /\ AfterPatch(r) \in {"find", "set"}
        /\ AfterPatch(r) = "find" => req[r].op = "submit"
        /\ AfterPatch(r) = "set" => req[r].op = "review"
    BY <1>1, <1>4 DEF Goto, AfterPatch
  <2>2. \A u : InFlight(u)' = InFlight(u)
    BY <1>1, <2>1, StayInFlight DEF InFlightLabels
  <2>3. ASSUME NEW q \in Requests
        PROVE  Trusts(q)'
    <3>1. UserOf(q) \in Users
      BY <1>1, RequestFields
    <3>2. CASE q = r
      BY <1>1, <1>4, <2>1, <2>2, <3>2
         DEF IInv, TypeOK, Trusts, UserOf, Status, InFlightLabels
    <3>3. CASE q # r
      BY <1>1, <1>3, <1>4, <2>1, <2>2, <3>1, <3>3
         DEF IInv, TypeOK, Trusts, UserOf, Status, InFlightLabels
    <3>4. QED
      BY <3>2, <3>3
  <2>4. ASSUME NEW q \in Requests
        PROVE  Placed(q)'
    BY <1>1, <2>1, <2>4 DEF IInv, TypeOK, Placed
  <2>5. RacesTear'
    BY <1>1, <1>4, <2>1 DEF IInv, TypeOK, RacesTear, UserOf, InFlightLabels
  <2>6. ASSUME NEW u \in Users
        PROVE  Whole(u)'
    <3>1. CASE u = UserOf(r)
      BY <1>1, <1>2, <2>1, <2>2, <3>1 DEF Whole, TypeOK
    <3>2. CASE u # UserOf(r)
      <4>1. \A q \in InFlight(u) : q # r /\ pc'[q] = pc[q]
        BY <1>1, <2>1, <3>2 DEF InFlight, TypeOK
      <4>2. ledger'[u] = ledger[u]
        BY <1>1, <1>4, <3>2 DEF TypeOK
      <4>3. QED
        BY <1>1, <1>4, <2>2, <4>1, <4>2 DEF IInv, Whole
    <3>3. QED
      BY <3>1, <3>2
  <2>7. ApprovedUnderItsKey'
    BY <1>1, <1>4, <2>1 DEF IInv, ApprovedUnderItsKey
  <2>8. QED
    BY <2>3, <2>4, <2>5, <2>6, <2>7 DEF IInv
<1>5. CASE /\ ledger' \in {ledger, [ledger EXCEPT ![UserOf(r)] = Status(r)]}
           /\ Finish(r, "serverError")
           /\ torn' = torn \cup {UserOf(r)}
  <2>1. /\ pc' = [pc EXCEPT ![r] = "done"]
        /\ reply' = [reply EXCEPT ![r] = "serverError"]
        /\ \A u \in Users \ {UserOf(r)} : ledger'[u] = ledger[u]
    BY <1>1, <1>5 DEF Finish, TypeOK
  <2>2. \A u : InFlight(u)' = InFlight(u) \ {r}
    BY <1>1, <2>1, LandOne
  <2>3. ASSUME NEW q \in Requests
        PROVE  Trusts(q)'
    <3>1. CASE q = r
      BY <1>1, <2>1, <3>1 DEF TypeOK, Trusts, InFlightLabels
    <3>2. CASE q # r
      <4>1. UserOf(q) \in Users
        BY <1>1, RequestFields
      <4>2. SUFFICES ASSUME pc[q] \in InFlightLabels, q \notin raced
                     PROVE  Trusts(q)'
        BY <1>1, <2>1, <3>2 DEF TypeOK, Trusts
      <4>3. /\ UserOf(q)' = UserOf(q) /\ UserOf(q) # UserOf(r)
            /\ Status(q)' = Status(q) /\ pc'[q] = pc[q]
            /\ ledger'[UserOf(q)] = ledger[UserOf(q)]
            /\ InFlight(UserOf(q)) = {q}
        BY <1>1, <1>3, <2>1, <3>2, <4>1, <4>2
           DEF IInv, TypeOK, Trusts, UserOf, Status
      <4>4. InFlight(UserOf(q))' = {q}
        BY <2>2, <3>2, <4>3
      <4>5. QED
        BY <1>1, <3>2, <4>2, <4>3, <4>4 DEF IInv, Trusts
    <3>3. QED
      BY <3>1, <3>2
  <2>4. ASSUME NEW q \in Requests
        PROVE  Placed(q)'
    BY <1>1, <2>1, <2>4 DEF IInv, TypeOK, Placed
  <2>5. RacesTear'
    BY <1>1, <1>5, <2>1 DEF IInv, TypeOK, RacesTear, UserOf, InFlightLabels
  <2>6. ASSUME NEW u \in Users
        PROVE  Whole(u)'
    <3>1. CASE u = UserOf(r)
      BY <1>5, <3>1 DEF Whole
    <3>2. CASE u # UserOf(r)
      <4>1. \A q \in InFlight(u) : q # r /\ pc'[q] = pc[q]
        BY <1>1, <2>1, <3>2 DEF InFlight, TypeOK
      <4>2. QED
        BY <1>1, <1>5, <2>1, <2>2, <3>2, <4>1 DEF IInv, Whole
    <3>3. QED
      BY <3>1, <3>2
  <2>7. ApprovedUnderItsKey'
    BY <1>1, <1>5, <2>1 DEF IInv, TypeOK, ApprovedUnderItsKey
  <2>8. QED
    BY <2>3, <2>4, <2>5, <2>6, <2>7 DEF IInv
<1>6. QED
  BY <1>4, <1>5 DEF PatchLedger

\* The last write of a handler: what a raced one writes is for a torn user, what
\* another writes is what it patched.
LEMMA LeaveStep ==
  ASSUME IInv, TypeOK', NEW r \in Requests, pc[r] \in {"save", "set"}, Leave(r),
         UNCHANGED <<req, seen, ledger>>,
         \A u \in Users \ {UserOf(r)} : kyc'[u] = kyc[u],
         r \notin raced =>
           /\ kyc'[UserOf(r)].status = Status(r)
           /\ Status(r) = "verified"
                => req[r] \in Review /\ kyc'[UserOf(r)].key = req[r].key
  PROVE  IInv'
<1>1. /\ TypeOK /\ UserOf(r) \in Users /\ raced' = raced
      /\ pc' = [pc EXCEPT ![r] = "done"]
      /\ reply' = [reply EXCEPT ![r] = "ok"]
      /\ torn' = IF r \in raced THEN torn ELSE torn \ {UserOf(r)}
  BY RequestFields DEF IInv, Leave, Finish
<1>2. r \in InFlight(UserOf(r))
  BY DEF InFlight
<1>3. \A u : InFlight(u)' = InFlight(u) \ {r}
  BY <1>1, LandOne
<1>4. ASSUME NEW q \in Requests, q # r, pc[q] \in InFlightLabels, q \notin raced
      PROVE  UserOf(q) # UserOf(r)
  BY <1>2, <1>4 DEF IInv, Trusts
<1>5. /\ r \in raced => UserOf(r) \in torn
      /\ r \notin raced => InFlight(UserOf(r)) = {r} /\ ledger[UserOf(r)] = Status(r)
  BY DEF IInv, RacesTear, Trusts, InFlightLabels
<1>6. ASSUME NEW q \in Requests
      PROVE  Trusts(q)' /\ Placed(q)'
  <2>1. Placed(q)'
    <3>1. Placed(q) /\ (q = r => pc'[q] = "done") /\ (q # r => pc'[q] = pc[q])
      BY <1>1, <1>6 DEF IInv, TypeOK
    <3>2. q # r => reply'[q] = reply[q]
      BY <1>1, <1>6 DEF TypeOK
    <3>3. QED
      BY <1>1, <3>1, <3>2 DEF Placed
  <2>2. CASE q = r
    BY <1>1, <2>1, <2>2 DEF TypeOK, Trusts, InFlightLabels
  <2>3. CASE q # r
    <3>1. UserOf(q) \in Users
      BY <1>1, RequestFields
    <3>2. SUFFICES ASSUME pc[q] \in InFlightLabels, q \notin raced
                   PROVE  Trusts(q)'
      BY <1>1, <2>1, <2>3 DEF TypeOK, Trusts
    <3>3. /\ UserOf(q)' = UserOf(q) /\ UserOf(q) # UserOf(r)
          /\ Status(q)' = Status(q) /\ pc'[q] = pc[q]
          /\ kyc'[UserOf(q)] = kyc[UserOf(q)]
          /\ InFlight(UserOf(q)) = {q}
      BY <1>1, <1>4, <2>3, <3>1, <3>2
         DEF IInv, TypeOK, Trusts, UserOf, Status
    <3>4. InFlight(UserOf(q))' = {q}
      BY <1>3, <2>3, <3>3
    <3>5. QED
      BY <1>1, <2>3, <3>2, <3>3, <3>4 DEF IInv, Trusts
  <2>4. QED
    BY <2>1, <2>2, <2>3
<1>7. RacesTear'
  <2>1. SUFFICES ASSUME NEW q \in raced, pc'[q] \in InFlightLabels
                 PROVE  UserOf(q) \in torn'
    BY <1>1 DEF RacesTear, UserOf
  <2>2. q # r /\ q \in Requests /\ pc[q] \in InFlightLabels
    BY <1>1, <2>1 DEF TypeOK, InFlightLabels
  <2>3. UserOf(q) \in torn /\ q \in InFlight(UserOf(q))
    BY <2>1, <2>2 DEF IInv, RacesTear, InFlight, InFlightLabels
  <2>4. QED
    BY <1>1, <1>5, <2>2, <2>3
<1>8. ASSUME NEW u \in Users
      PROVE  Whole(u)'
  <2>1. CASE u = UserOf(r)
    BY <1>1, <1>5, <2>1 DEF Whole
  <2>2. CASE u # UserOf(r)
    <3>1. \A q \in InFlight(u) : q # r /\ pc'[q] = pc[q]
      BY <1>1, <2>2 DEF InFlight, TypeOK
    <3>2. QED
      BY <1>1, <1>3, <2>2, <3>1 DEF IInv, Whole
  <2>3. QED
    BY <2>1, <2>2
<1>9. ApprovedUnderItsKey'
  <2>1. SUFFICES ASSUME NEW u \in Users \ torn', kyc'[u].status = "verified"
                 PROVE  \E q \in Requests : /\ reply'[q] = "ok"
                                            /\ req[q] \in Review
                                            /\ req[q].review = "approved"
                                            /\ req[q].key = kyc'[u].key
    BY DEF ApprovedUnderItsKey
  <2>2. CASE u = UserOf(r)
    <3>1. r \notin raced
      BY <1>1, <1>5, <2>1, <2>2
    <3>2. Status(r) = "verified" /\ req[r].review = "approved"
      BY <1>1, <2>1, <2>2, <3>1, RequestFields
    <3>3. reply'[r] = "ok"
      BY <1>1 DEF TypeOK
    <3>4. QED
      BY <2>2, <3>1, <3>2, <3>3
  <2>3. CASE u # UserOf(r)
    <3>1. u \in Users \ torn /\ kyc'[u] = kyc[u]
      BY <1>1, <2>1, <2>3
    <3>2. PICK q \in Requests : /\ reply[q] = "ok"
                                /\ req[q] \in Review
                                /\ req[q].review = "approved"
                                /\ req[q].key = kyc[u].key
      BY <2>1, <3>1 DEF IInv, ApprovedUnderItsKey
    <3>3. reply'[q] = "ok"
      BY <1>1, <3>2 DEF TypeOK
    <3>4. QED
      BY <3>1, <3>2, <3>3
  <2>4. QED
    BY <2>2, <2>3
<1>10. QED
  BY <1>6, <1>7, <1>8, <1>9 DEF IInv

LEMMA StepIInv ==
  ASSUME IInv, [Next]_vars
  PROVE  IInv'
<1>1. TypeOK /\ TypeOK'
  BY TypeStep DEF IInv
<1>2. ASSUME NEW r \in Requests, Submit(r)
      PROVE  IInv'
  BY <1>1, <1>2, EnterStep DEF Submit
<1>3. ASSUME NEW r \in Requests, LookUp(r)
      PROVE  IInv'
  <2>1. CASE kyc[UserOf(r)].key = req[r].key
    BY <1>1, <1>3, <2>1, EnterStep DEF LookUp
  <2>2. CASE kyc[UserOf(r)].key # req[r].key
    <3>1. /\ pc[r] = "idle" /\ UNCHANGED <<req, seen, ledger, kyc, raced, torn>>
          /\ pc' = [pc EXCEPT ![r] = "done"]
          /\ reply' = [reply EXCEPT ![r] = "unknown"]
          /\ reply[r] = "none"
      BY <1>3, <2>2 DEF LookUp, Finish, IInv, Placed
    <3>2. \A u : InFlight(u)' = InFlight(u)
      BY <1>1, <3>1 DEF InFlight, UserOf, TypeOK
    <3>3. ASSUME NEW q \in Requests
          PROVE  Trusts(q)' /\ Placed(q)'
      BY <1>1, <3>1, <3>2, <3>3
         DEF IInv, TypeOK, Trusts, Placed, UserOf, Status, InFlightLabels
    <3>4. RacesTear'
      BY <1>1, <3>1 DEF IInv, TypeOK, RacesTear, UserOf, InFlightLabels
    <3>5. ASSUME NEW u \in Users
          PROVE  Whole(u)'
      BY <1>1, <3>1, <3>2, <3>5 DEF IInv, TypeOK, Whole, InFlight
    <3>6. ApprovedUnderItsKey'
      BY <1>1, <3>1 DEF IInv, TypeOK, ApprovedUnderItsKey
    <3>7. QED
      BY <1>1, <3>3, <3>4, <3>5, <3>6 DEF IInv
  <2>3. QED
    BY <2>1, <2>2
<1>4. ASSUME NEW r \in Requests, PatchLedger(r)
      PROVE  IInv'
  BY <1>1, <1>4, PatchStep
<1>5. ASSUME NEW r \in Requests, FindUser(r)
      PROVE  IInv'
  <2>1. /\ pc[r] = "find" /\ UNCHANGED <<req, reply, ledger, kyc, raced, torn>>
        /\ pc' = [pc EXCEPT ![r] = "save"]
        /\ seen' = [seen EXCEPT ![r] = kyc[UserOf(r)]]
    BY <1>5 DEF FindUser, Goto
  <2>2. \A u : InFlight(u)' = InFlight(u)
    BY <1>1, <2>1, StayInFlight DEF InFlightLabels
  <2>3. ASSUME NEW q \in Requests
        PROVE  Trusts(q)' /\ Placed(q)'
    BY <1>1, <2>1, <2>2, <2>3
       DEF IInv, TypeOK, Trusts, Placed, UserOf, Status, InFlightLabels
  <2>4. RacesTear'
    BY <1>1, <2>1 DEF IInv, TypeOK, RacesTear, UserOf, InFlightLabels
  <2>5. ASSUME NEW u \in Users
        PROVE  Whole(u)'
    <3>1. \A q \in InFlight(u) : pc'[q] = "patch" => pc[q] = "patch"
      BY <1>1, <2>1 DEF TypeOK, InFlight
    <3>2. QED
      BY <1>1, <2>1, <2>2, <2>5, <3>1 DEF IInv, Whole
  <2>6. ApprovedUnderItsKey'
    BY <2>1 DEF IInv, ApprovedUnderItsKey
  <2>7. QED
    BY <1>1, <2>3, <2>4, <2>5, <2>6 DEF IInv
<1>6. ASSUME NEW r \in Requests, SaveUser(r)
      PROVE  IInv'
  <2>1. /\ pc[r] = "save" /\ Leave(r) /\ UNCHANGED <<req, seen, ledger>>
        /\ UserOf(r) \in Users /\ req[r].op = "submit"
        /\ Status(r) # "verified"
    BY <1>1, <1>6, RequestFields DEF SaveUser, IInv, Placed
  <2>2. \A u \in Users \ {UserOf(r)} : kyc'[u] = kyc[u]
    BY <1>1, <1>6 DEF SaveUser, TypeOK
  <2>3. r \notin raced => kyc'[UserOf(r)].status = Status(r)
    <3>1. r \notin raced => seen[r] = kyc[UserOf(r)]
      BY <2>1 DEF IInv, Trusts, InFlightLabels
    <3>2. QED
      BY <1>1, <1>6, <2>1, <3>1 DEF SaveUser, TypeOK
  <2>4. QED
    BY <1>1, <2>1, <2>2, <2>3, LeaveStep
<1>7. ASSUME NEW r \in Requests, SetStatus(r)
      PROVE  IInv'
  <2>1. /\ pc[r] = "set" /\ Leave(r) /\ UNCHANGED <<req, seen, ledger>>
        /\ UserOf(r) \in Users /\ req[r].op = "review" /\ req[r] \in Review
    BY <1>1, <1>7, RequestFields DEF SetStatus, IInv, Placed
  <2>2. \A u \in Users \ {UserOf(r)} : kyc'[u] = kyc[u]
    BY <1>1, <1>7 DEF SetStatus, TypeOK
  <2>3. kyc'[UserOf(r)] = [status |-> Status(r), key |-> kyc[UserOf(r)].key]
    BY <1>1, <1>7, <2>1 DEF SetStatus, TypeOK
  <2>4. r \notin raced => kyc[UserOf(r)].key = req[r].key
    BY <2>1 DEF IInv, Trusts, InFlightLabels
  <2>5. QED
    BY <1>1, <2>1, <2>2, <2>3, <2>4, LeaveStep
<1>8. CASE Crash
  <2>1. /\ UNCHANGED <<req, reply, seen, ledger, kyc, raced>>
        /\ torn \subseteq torn'
        /\ \A q \in Requests :
             /\ pc'[q] \notin InFlightLabels
             /\ pc[q] \in {"idle", "done"} => pc'[q] = pc[q]
             /\ pc'[q] \in {"idle", "done"} => pc'[q] = pc[q]
    BY <1>1, <1>8 DEF Crash, InFlightLabels
  <2>2. ASSUME NEW q \in Requests
        PROVE  Trusts(q)' /\ Placed(q)'
    BY <1>1, <2>1, <2>2 DEF IInv, Trusts, Placed, InFlightLabels
  <2>3. RacesTear'
    BY <1>1, <2>1 DEF RacesTear, TypeOK
  <2>4. ASSUME NEW u \in Users
        PROVE  Whole(u)'
    BY <1>1, <1>8, <2>1, <2>4 DEF IInv, Whole, Crash
  <2>5. ApprovedUnderItsKey'
    BY <2>1 DEF IInv, ApprovedUnderItsKey
  <2>6. QED
    BY <1>1, <2>2, <2>3, <2>4, <2>5 DEF IInv
<1>9. CASE UNCHANGED vars
  <2>1. \A u : InFlight(u)' = InFlight(u)
    BY <1>9 DEF vars, InFlight, UserOf
  <2>2. QED
    BY <1>1, <1>9, <2>1
       DEF IInv, vars, Trusts, Placed, RacesTear, Whole, ApprovedUnderItsKey,
           UserOf, Status
<1>10. QED
  BY <1>2, <1>3, <1>4, <1>5, <1>6, <1>7, <1>8, <1>9 DEF Next, Step

LEMMA Invariance == Spec => []IInv
BY InitIInv, StepIInv, PTL DEF Spec

-----------------------------------------------------------------------------
(* Results *)

\* Every variable keeps its type.
THEOREM TypeCorrect == Spec => []TypeOK
<1>1. IInv => TypeOK
  BY DEF IInv
<1>2. QED
  BY <1>1, Invariance, PTL

\* Ledger and document agree on a user no handler works on, unless handlers
\* overlapped or failed and none has run alone since.
THEOREM Agreement == Spec => []LedgerAndDocumentAgree
<1>1. IInv => LedgerAndDocumentAgree
  BY DEF IInv, Whole, LedgerAndDocumentAgree
<1>2. QED
  BY <1>1, Invariance, PTL

\* With the same exception, a verified user was approved under the key in its
\* document.
THEOREM Approval == Spec => []ApprovedUnderItsKey
<1>1. IInv => ApprovedUnderItsKey
  BY DEF IInv
<1>2. QED
  BY <1>1, Invariance, PTL

-----------------------------------------------------------------------------
(* Handlers in turn *)

\* The handlers of one user do not overlap.
InTurn == \A u \in Users : \A q, r \in InFlight(u) : q = r

LEMMA NobodyRaced ==
  ASSUME IInv, InTurn', raced = {}, [Next]_vars
  PROVE  raced' = {}
<1>1. ASSUME NEW r \in Requests, pc[r] = "idle", Enter(r), req' = req,
             InFlight(UserOf(r)) # {}
      PROVE  FALSE
  <2>1. PICK q \in InFlight(UserOf(r)) : q # r
    BY <1>1 DEF InFlight
  <2>2. /\ pc' = [pc EXCEPT ![r] = "patch"] /\ q \in Requests
        /\ UserOf(q) = UserOf(r)
    BY <1>1, <2>1 DEF Enter, Goto, InFlight
  <2>3. q \in InFlight(UserOf(r))' /\ r \in InFlight(UserOf(r))'
    BY <1>1, <2>1, <2>2 DEF IInv, TypeOK, InFlight, UserOf
  <2>4. QED
    BY <1>1, <2>1, <2>2, <2>3, RequestFields DEF InTurn, UserOf, IInv
<1>2. ASSUME NEW r \in Requests, Submit(r) \/ LookUp(r)
      PROVE  raced' = {}
  BY <1>1, <1>2 DEF Submit, LookUp, Enter
<1>3. ASSUME \A r \in Requests : ~Submit(r) /\ ~LookUp(r)
      PROVE  raced' = {}
  BY <1>3 DEF Next, vars, Step, PatchLedger, FindUser, SaveUser, SetStatus, Leave, Crash
<1>4. QED
  BY <1>2, <1>3

\* A handler that answers ok leaves its user with one status.
OkAgrees ==
  \A r \in Requests :
    reply[r] # "ok" /\ reply'[r] = "ok" => (ledger[UserOf(r)] = kyc[UserOf(r)].status)'

\* If the handlers of a user take turns, each that is answered ok leaves ledger
\* and document agreed, whatever failed or died before it: calling again repairs
\* a user, and a race is the only thing that makes an ok untrue.
THEOREM OkInTurn == Spec /\ []InTurn => [][OkAgrees]_vars
<1>1. Init => raced = {}
  BY DEF Init
<1>2. IInv /\ InTurn' /\ raced = {} /\ [Next]_vars => (raced = {})'
  BY NobodyRaced
<1>3. ASSUME IInv, IInv', InTurn, raced = {}, [Next]_vars
      PROVE  [OkAgrees]_vars
  <2>1. SUFFICES ASSUME NEW r \in Requests, reply[r] # "ok", reply'[r] = "ok"
                 PROVE  (ledger[UserOf(r)] = kyc[UserOf(r)].status)'
    BY DEF OkAgrees
  <2>2. pc[r] \in {"save", "set"} /\ Leave(r) /\ req' = req
    <3>1. ASSUME NEW q \in Requests, Submit(q) \/ LookUp(q) \/ PatchLedger(q) \/ FindUser(q)
          PROVE  FALSE
      BY <1>3, <2>1, <3>1 DEF Submit, LookUp, PatchLedger, FindUser, Enter, Goto,
         Finish, IInv, TypeOK
    <3>2. ASSUME NEW q \in Requests, SaveUser(q) \/ SetStatus(q)
          PROVE  q = r
      BY <1>3, <2>1, <3>2 DEF SaveUser, SetStatus, Leave, Finish, IInv, TypeOK
    <3>3. reply' # reply
      BY <2>1
    <3>4. PICK q \in Requests : SaveUser(q) \/ SetStatus(q)
      BY <1>3, <3>1, <3>3 DEF Next, vars, Step, Crash
    <3>5. q = r
      BY <3>2, <3>4
    <3>6. QED
      BY <3>4, <3>5 DEF SaveUser, SetStatus
  <2>3. /\ UserOf(r)' = UserOf(r) /\ UserOf(r) \in Users /\ UserOf(r) \notin torn'
    BY <1>3, <2>2, RequestFields DEF Leave, UserOf, IInv
  <2>4. pc' = [pc EXCEPT ![r] = "done"]
    BY <2>2 DEF Leave, Finish
  <2>5. InFlight(UserOf(r)) = {r}
    BY <1>3, <2>2 DEF IInv, Trusts, InFlightLabels
  <2>6. InFlight(UserOf(r))' = {}
    BY <1>3, <2>2, <2>3, <2>4, <2>5, LandOne DEF IInv
  <2>7. QED
    BY <1>3, <2>3, <2>6 DEF IInv, Whole
<1>4. QED
  BY <1>1, <1>2, <1>3, Invariance, PTL DEF Spec
=============================================================================

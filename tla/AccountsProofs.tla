--------------------------- MODULE AccountsProofs ---------------------------
(***************************************************************************)
(* Machine-checked proofs about Accounts and Contacts, for every set of    *)
(* requests, names, phone numbers and address books.  Accounts is shown to *)
(* implement CheckedInsertion, from which what turns are good for follows. *)
(***************************************************************************)
EXTENDS Contacts, WellFoundedInduction, TLAPS

-----------------------------------------------------------------------------
(* Facts about requests *)

\* A request names a phone number or none, and a user only to change one.
LEMMA RequestFields ==
  ASSUME NEW q \in AccountRequest
  PROVE  /\ q.op \in {"signUp", "facebookSignUp", "facebookSignIn", "setPhone"}
         /\ q.phone \in Phones \cup {None}
         /\ q.op = "setPhone" => q.user \in Requests /\ q.facebook = None
         /\ q.op = "signUp" => q.name \in Names /\ q.facebook = None
         /\ q.op \in {"facebookSignUp", "facebookSignIn"} => q.facebook \in Facebooks
BY DEF AccountRequest, SignUp, FacebookSignUp, FacebookSignIn, SetPhone

-----------------------------------------------------------------------------
(* The inductive invariant *)

\* A handler stands only where its operation leads.
Placed(r) ==
  /\ pc[r] = "check"  => req[r].op \in {"signUp", "facebookSignUp", "setPhone"}
  /\ pc[r] = "lookup" => req[r].op \in {"facebookSignUp", "facebookSignIn"}
  /\ pc[r] \in {"rehive", "insert"} => req[r].op # "setPhone"
  /\ pc[r] \in {"find", "update"} => req[r].op = "setPhone"

\* How far a request is in making its user.
Made(r) ==
  /\ reply[r] # "none" => pc[r] = "done"
  /\ pc[r] \in {"idle", "check", "lookup", "rehive"} => r \notin rehive
  /\ pc[r] = "insert" => r \in rehive
  /\ req[r].op = "setPhone" => r \notin rehive
  /\ r \in stored => /\ r \in rehive
                     /\ pc[r] = "done" /\ reply[r] = "ok"
                     /\ NameOf(r) # None
  /\ reply[r] = "ok" /\ (r \in rehive \/ req[r].op = "signUp") => r \in stored

\* The unique index.
Indexed == \A u, v \in stored : u # v => NameOf(u) # NameOf(v)

\* The answer of a check holds until another user gets the number.
CheckStands(r) ==
  r \in Claiming(req[r].phone) \ raced /\ req[r].phone # None
    => \A v \in stored \ {OwnerOf(r)} : phone[v] # req[r].phone

IInv ==
  /\ TypeOK
  /\ \A r \in Requests : Placed(r) /\ Made(r) /\ CheckStands(r)
  /\ Indexed
  /\ SharedPhoneNeedsRace

LEMMA InitIInv ==
  ASSUME Init
  PROVE  IInv
BY DEF Init, IInv, TypeOK, Placed, Made, CheckStands, Claiming, Indexed,
       SharedPhoneNeedsRace

-----------------------------------------------------------------------------
(* Type correctness *)

LEMMA WritePhoneType ==
  ASSUME TypeOK, NEW r \in Requests, NEW u,
         NEW p \in Phones \cup {None}, WritePhone(r, u, p)
  PROVE  /\ phone' \in [Requests -> Phones \cup {None}]
         /\ claim' \in [Requests -> Requests \cup {None}]
         /\ raced' \subseteq Requests
BY DEF TypeOK, WritePhone, Claiming

LEMMA TypeStep ==
  ASSUME IInv, [Next]_vars
  PROVE  TypeOK'
<1>0. /\ TypeOK
      /\ \A r \in Requests : Placed(r) /\ req[r].phone \in Phones \cup {None}
  BY RequestFields DEF IInv, TypeOK
<1>1. ASSUME NEW r \in Requests, Receive(r)
      PROVE  TypeOK'
  BY <1>0, <1>1 DEF Receive, Goto, TypeOK
<1>2. ASSUME NEW r \in Requests, Check(r)
      PROVE  TypeOK'
  <2>1. AfterCheck(req[r].op) \in {"rehive", "lookup", "find"}
    BY <1>0, <1>2 DEF Check, Placed, AfterCheck
  <2>2. QED
    BY <1>0, <1>2, <2>1 DEF Check, Goto, Finish, TypeOK
<1>3. ASSUME NEW r \in Requests, LookUp(r)
      PROVE  TypeOK'
  BY <1>0, <1>3 DEF LookUp, Goto, Finish, TypeOK
<1>4. ASSUME NEW r \in Requests, CreateLedgerUser(r)
      PROVE  TypeOK'
  BY <1>0, <1>4 DEF CreateLedgerUser, Goto, Finish, TypeOK
<1>5. ASSUME NEW r \in Requests, InsertUser(r)
      PROVE  TypeOK'
  <2>1. /\ phone' \in [Requests -> Phones \cup {None}]
        /\ claim' \in [Requests -> Requests \cup {None}]
        /\ raced' \subseteq Requests
        /\ stored' \subseteq Requests
    BY <1>0, <1>5, WritePhoneType DEF InsertUser, TypeOK
  <2>2. QED
    BY <1>0, <1>5, <2>1 DEF InsertUser, Finish, TypeOK
<1>6. ASSUME NEW r \in Requests, FindUser(r)
      PROVE  TypeOK'
  <2>1. phone[req[r].user] \in Phones \cup {None}
    BY <1>0, <1>6, RequestFields DEF FindUser, Placed, TypeOK
  <2>2. QED
    BY <1>0, <1>6, <2>1 DEF FindUser, Goto, TypeOK
<1>7. ASSUME NEW r \in Requests, UpdatePhone(r)
      PROVE  TypeOK'
  <2>1. /\ phone' \in [Requests -> Phones \cup {None}]
        /\ claim' \in [Requests -> Requests \cup {None}]
        /\ raced' \subseteq Requests
    BY <1>0, <1>7, WritePhoneType DEF UpdatePhone, TypeOK
  <2>2. QED
    BY <1>0, <1>7, <2>1 DEF UpdatePhone, Finish, TypeOK
<1>8. CASE Crash
  BY <1>0, <1>8 DEF Crash, TypeOK
<1>9. CASE UNCHANGED vars
  BY <1>0, <1>9 DEF vars, TypeOK
<1>10. QED
  BY <1>1, <1>2, <1>3, <1>4, <1>5, <1>6, <1>7, <1>8, <1>9 DEF Next, Step

-----------------------------------------------------------------------------
(* Requests and the users they make *)

LEMMA ReqUnchanged ==
  ASSUME [Next]_vars
  PROVE  req' = req
BY DEF Next, vars, Step, Receive, Check, LookUp, CreateLedgerUser, InsertUser,
       FindUser, UpdatePhone, Crash

\* A step of request r is confined to the state of r, but for the numbers.
LEMMA OthersUnchanged ==
  ASSUME TypeOK, NEW r \in Requests, NEW q \in Requests, q # r, Step(r)
  PROVE  /\ pc'[q] = pc[q] /\ reply'[q] = reply[q]
         /\ q \in rehive' <=> q \in rehive
         /\ q \in stored' <=> q \in stored
<1>1. CASE Receive(r) \/ Check(r) \/ LookUp(r) \/ FindUser(r) \/ UpdatePhone(r)
  BY <1>1 DEF Receive, Check, LookUp, FindUser, UpdatePhone, Goto, Finish, TypeOK
<1>2. CASE CreateLedgerUser(r) \/ InsertUser(r)
  BY <1>2 DEF CreateLedgerUser, InsertUser, Goto, Finish, TypeOK
<1>3. QED
  BY <1>1, <1>2 DEF Step

LEMMA OwnPlaceStep ==
  ASSUME TypeOK, NEW r \in Requests, Placed(r), Made(r), Step(r), req' = req
  PROVE  Placed(r)' /\ Made(r)'
<1>0. NameOf(r)' = NameOf(r)
  BY DEF NameOf
<1>1. CASE Receive(r)
  BY <1>0, <1>1, RequestFields DEF Receive, Goto, TypeOK, Placed, Made
<1>2. CASE Check(r)
  <2>1. /\ pc[r] = "check" /\ UNCHANGED <<rehive, stored>>
        /\ \/ pc'[r] = "done" /\ reply'[r] = "badRequest"
           \/ pc'[r] = AfterCheck(req[r].op) /\ reply' = reply
    BY <1>2 DEF Check, Goto, Finish, TypeOK
  <2>2. /\ req[r].op = "signUp" => AfterCheck(req[r].op) = "rehive"
        /\ req[r].op = "facebookSignUp" => AfterCheck(req[r].op) = "lookup"
        /\ req[r].op = "setPhone" => AfterCheck(req[r].op) = "find"
    BY DEF AfterCheck
  <2>3. QED
    BY <1>0, <2>1, <2>2 DEF Placed, Made
<1>3. CASE LookUp(r)
  BY <1>0, <1>3 DEF LookUp, Goto, Finish, TypeOK, Placed, Made
<1>4. CASE CreateLedgerUser(r)
  BY <1>0, <1>4 DEF CreateLedgerUser, Goto, Finish, TypeOK, Placed, Made
<1>5. CASE InsertUser(r)
  BY <1>0, <1>5 DEF InsertUser, SchemaAdmits, Finish, TypeOK, Placed, Made
<1>6. CASE FindUser(r)
  BY <1>0, <1>6 DEF FindUser, Goto, TypeOK, Placed, Made
<1>7. CASE UpdatePhone(r)
  BY <1>0, <1>7 DEF UpdatePhone, Finish, TypeOK, Placed, Made
<1>8. QED
  BY <1>1, <1>2, <1>3, <1>4, <1>5, <1>6, <1>7 DEF Step

LEMMA PlaceStep ==
  ASSUME IInv, [Next]_vars, NEW q \in Requests
  PROVE  Placed(q)' /\ Made(q)'
<1>0. TypeOK /\ Placed(q) /\ Made(q) /\ req' = req /\ NameOf(q)' = NameOf(q)
  BY ReqUnchanged DEF IInv, NameOf
<1>1. ASSUME NEW r \in Requests, Step(r)
      PROVE  Placed(q)' /\ Made(q)'
  <2>1. CASE q = r
    BY <1>0, <1>1, <2>1, OwnPlaceStep
  <2>2. CASE q # r
    BY <1>0, <1>1, <2>2, OthersUnchanged DEF Placed, Made
  <2>3. QED
    BY <2>1, <2>2
<1>2. CASE Crash
  BY <1>0, <1>2 DEF Crash, TypeOK, Placed, Made
<1>3. CASE UNCHANGED vars
  BY <1>0, <1>3 DEF vars, Placed, Made
<1>4. QED
  BY <1>1, <1>2, <1>3 DEF Next

-----------------------------------------------------------------------------
(* Names *)

LEMMA IndexStep ==
  ASSUME IInv, [Next]_vars
  PROVE  Indexed'
<1>0. /\ Indexed /\ TypeOK
      /\ \A u \in Requests : NameOf(u)' = NameOf(u)
  BY ReqUnchanged DEF IInv, NameOf
<1>1. ASSUME NEW r \in Requests, InsertUser(r), SchemaAdmits(r)
      PROVE  Indexed'
  <2>1. /\ stored' = stored \cup {r} /\ stored' \subseteq Requests
        /\ \A u \in stored : NameOf(u) # NameOf(r)
    BY <1>0, <1>1 DEF InsertUser, SchemaAdmits, NameTaken, TypeOK
  <2>2. QED
    BY <1>0, <2>1 DEF Indexed
<1>2. CASE stored' = stored
  BY <1>0, <1>2 DEF Indexed, TypeOK
<1>3. QED
  BY <1>1, <1>2 DEF Next, vars, Step, Receive, Check, LookUp, CreateLedgerUser,
     InsertUser, FindUser, UpdatePhone, Crash

-----------------------------------------------------------------------------
(* Phone numbers *)

\* The step that gives user u of request r its number p, with the answer of the
\* check of r still standing unless r has been raced.
LEMMA WriteKeepsPhones ==
  ASSUME IInv, NEW r \in Requests, NEW u \in Requests,
         u = OwnerOf(r), r \in Claiming(req[r].phone),
         WritePhone(r, u, req[r].phone), req' = req,
         stored' = stored \/ (u = r /\ stored' = stored \cup {r}),
         \A q \in Requests \ {r} : pc'[q] = pc[q],
         pc'[r] = "done"
  PROVE  /\ \A q \in Requests : CheckStands(q)'
         /\ SharedPhoneNeedsRace'
<1> DEFINE p == req[r].phone
<1>1. /\ TypeOK /\ SharedPhoneNeedsRace
      /\ \A q \in Requests : CheckStands(q)
  BY DEF IInv
<1>2. /\ phone' = [phone EXCEPT ![u] = p] /\ claim' = [claim EXCEPT ![u] = r]
      /\ raced \subseteq raced'
      /\ raced' = raced \cup {q \in Claiming(p) : OwnerOf(q) # u}
      /\ stored' \subseteq stored \cup {u} /\ stored \subseteq Requests
      /\ \A q \in Requests : OwnerOf(q)' = OwnerOf(q)
  BY <1>1 DEF WritePhone, TypeOK, OwnerOf
<1>3. ASSUME NEW q \in Requests, q \in Claiming(req[q].phone)' \ raced',
             req[q].phone # None, NEW v \in stored' \ {OwnerOf(q)}
      PROVE  phone'[v] # req[q].phone
  <2>1. q # r /\ q \in Claiming(req[q].phone) \ raced
    BY <1>2, <1>3 DEF Claiming
  <2>2. CASE v = u
    BY <1>1, <1>2, <1>3, <2>1, <2>2 DEF Claiming, TypeOK
  <2>3. CASE v # u
    BY <1>1, <1>2, <1>3, <2>1, <2>3 DEF CheckStands, TypeOK
  <2>4. QED
    BY <2>2, <2>3
<1>4. ASSUME NEW q \in Requests
      PROVE  CheckStands(q)'
  BY <1>2, <1>3 DEF CheckStands
<1>5. ASSUME NEW v \in stored' \ {u}, p # None, phone'[v] = p
      PROVE  r \in raced'
  <2>1. v \in stored /\ phone[v] = p
    BY <1>1, <1>2, <1>5 DEF TypeOK
  <2>2. QED
    BY <1>1, <1>2, <1>5, <2>1 DEF CheckStands
<1>6. ASSUME NEW v \in stored', NEW w \in stored', v # w,
             phone'[v] # None, phone'[v] = phone'[w]
      PROVE  claim'[v] \in raced' \/ claim'[w] \in raced'
  <2>1. v \in Requests /\ w \in Requests
    BY <1>2, <1>6
  <2>2. CASE v = u
    BY <1>1, <1>2, <1>5, <1>6, <2>1, <2>2 DEF TypeOK
  <2>3. CASE w = u
    BY <1>1, <1>2, <1>5, <1>6, <2>1, <2>3 DEF TypeOK
  <2>4. CASE v # u /\ w # u
    BY <1>1, <1>2, <1>6, <2>1, <2>4 DEF TypeOK, SharedPhoneNeedsRace
  <2>5. QED
    BY <2>2, <2>3, <2>4
<1>7. QED
  BY <1>4, <1>6 DEF SharedPhoneNeedsRace

\* A step that writes no number, stores no user and starts no claim.
LEMMA NoWriteKeepsPhones ==
  ASSUME IInv, UNCHANGED <<req, stored, phone, claim, raced>>,
         NEW r \in Requests,
         \A q \in Requests \ {r} : q \in Claiming(req[q].phone)'
                                   => q \in Claiming(req[q].phone),
         CheckStands(r)'
  PROVE  /\ \A q \in Requests : CheckStands(q)'
         /\ SharedPhoneNeedsRace'
<1>1. ASSUME NEW q \in Requests
      PROVE  CheckStands(q)'
  BY DEF IInv, CheckStands, OwnerOf
<1>2. SharedPhoneNeedsRace'
  BY DEF IInv, SharedPhoneNeedsRace
<1>3. QED
  BY <1>1, <1>2

LEMMA PhoneStep ==
  ASSUME IInv, [Next]_vars
  PROVE  /\ \A q \in Requests : CheckStands(q)'
         /\ SharedPhoneNeedsRace'
<1> DEFINE Goal == /\ \A q \in Requests : CheckStands(q)'
                   /\ SharedPhoneNeedsRace'
<1>0. TypeOK /\ req' = req /\ \A q \in Requests : Placed(q) /\ Made(q) /\ CheckStands(q)
  BY ReqUnchanged DEF IInv
<1>1. ASSUME NEW r \in Requests, Check(r)
      PROVE  Goal
  <2>1. /\ UNCHANGED <<req, stored, phone, claim, raced>>
        /\ \A q \in Requests \ {r} : pc'[q] = pc[q]
        /\ ~Conflict(r) \/ pc'[r] = "done"
        /\ pc[r] = "check"
    BY <1>0, <1>1 DEF Check, Goto, Finish, TypeOK
  <2>2. CheckStands(r)'
    <3>1. CASE pc'[r] = "done"
      BY <1>0, <2>1, <3>1 DEF CheckStands, Claiming
    <3>2. CASE ~Conflict(r)
      <4>1. \A v \in stored \ {OwnerOf(r)} : phone[v] # req[r].phone
        BY <1>0, <2>1, <3>2 DEF Conflict, OwnerOf, PhoneTaken,
           PhoneTakenByOther, Placed
      <4>2. QED
        BY <1>0, <2>1, <4>1 DEF CheckStands, OwnerOf
    <3>3. QED
      BY <2>1, <3>1, <3>2
  <2>3. QED
    BY <1>0, <2>1, <2>2, NoWriteKeepsPhones DEF Claiming
<1>2. ASSUME NEW r \in Requests,
             Receive(r) \/ LookUp(r) \/ CreateLedgerUser(r) \/ FindUser(r)
      PROVE  Goal
  <2>1. /\ UNCHANGED <<req, stored, phone, claim, raced>>
        /\ \A q \in Requests \ {r} : pc'[q] = pc[q]
    BY <1>0, <1>2 DEF Receive, LookUp, CreateLedgerUser, FindUser, Goto, Finish,
                      TypeOK
  <2>2. \/ pc'[r] \in {"check", "done"}
        \/ pc[r] \in {"lookup", "rehive", "find"}
        \/ req[r].op = "facebookSignIn"
    BY <1>0, <1>2 DEF Receive, LookUp, CreateLedgerUser, FindUser, Goto, Finish,
                      TypeOK
  <2>3. req[r].op = "facebookSignIn" => req[r].phone = None
    BY <1>0 DEF TypeOK, AccountRequest, SignUp, FacebookSignUp, FacebookSignIn,
                SetPhone
  <2>4. CheckStands(r)'
    BY <1>0, <2>1, <2>2, <2>3 DEF CheckStands, Claiming, OwnerOf
  <2>5. QED
    BY <1>0, <2>1, <2>4, NoWriteKeepsPhones DEF Claiming
<1>3. ASSUME NEW r \in Requests, InsertUser(r)
      PROVE  Goal
  <2>1. /\ pc[r] = "insert" /\ pc'[r] = "done"
        /\ \A q \in Requests \ {r} : pc'[q] = pc[q]
        /\ r = OwnerOf(r)
    BY <1>0, <1>3 DEF InsertUser, Finish, TypeOK, Placed, OwnerOf
  <2>2. CASE SchemaAdmits(r)
    BY <1>0, <1>3, <2>1, <2>2, WriteKeepsPhones DEF InsertUser, Claiming
  <2>3. CASE ~SchemaAdmits(r)
    <3>1. UNCHANGED <<req, stored, phone, claim, raced>>
      BY <1>3, <2>3 DEF InsertUser
    <3>2. CheckStands(r)'
      BY <1>0, <2>1 DEF CheckStands, Claiming
    <3>3. QED
      BY <1>0, <2>1, <3>1, <3>2, NoWriteKeepsPhones DEF Claiming
  <2>4. QED
    BY <2>2, <2>3
<1>4. ASSUME NEW r \in Requests, UpdatePhone(r)
      PROVE  Goal
  <2>1. /\ pc[r] = "update" /\ pc'[r] = "done"
        /\ \A q \in Requests \ {r} : pc'[q] = pc[q]
        /\ req[r].user = OwnerOf(r) /\ req[r].user \in Requests
        /\ stored' = stored
    BY <1>0, <1>4, RequestFields DEF UpdatePhone, Finish, TypeOK, Placed, OwnerOf
  <2>2. CASE seen[r] # req[r].phone
    BY <1>0, <1>4, <2>1, <2>2, WriteKeepsPhones DEF UpdatePhone, Claiming
  <2>3. CASE seen[r] = req[r].phone
    <3>1. UNCHANGED <<req, stored, phone, claim, raced>>
      BY <1>4, <2>3 DEF UpdatePhone
    <3>2. CheckStands(r)'
      BY <1>0, <2>1 DEF CheckStands, Claiming
    <3>3. QED
      BY <1>0, <2>1, <3>1, <3>2, NoWriteKeepsPhones DEF Claiming
  <2>4. QED
    BY <2>2, <2>3
<1>5. CASE Crash
  <2>1. UNCHANGED <<req, stored, phone, claim, raced>>
    BY <1>5 DEF Crash
  <2>2. \A q \in Requests : q \in Claiming(req[q].phone)'
                            => q \in Claiming(req[q].phone)
    BY <1>0, <1>5 DEF Crash, Claiming, TypeOK
  <2>3. \A q \in Requests : CheckStands(q)'
    BY <1>0, <2>1, <2>2 DEF CheckStands, OwnerOf
  <2>4. SharedPhoneNeedsRace'
    BY <2>1 DEF IInv, SharedPhoneNeedsRace
  <2>5. QED
    BY <2>3, <2>4
<1>6. CASE UNCHANGED vars
  BY <1>6 DEF vars, IInv, CheckStands, Claiming, OwnerOf, SharedPhoneNeedsRace
<1>7. QED
  BY <1>1, <1>2, <1>3, <1>4, <1>5, <1>6 DEF Next, Step

-----------------------------------------------------------------------------
(* Theorems *)

LEMMA StepIInv ==
  ASSUME IInv, [Next]_vars
  PROVE  IInv'
BY TypeStep, PlaceStep, IndexStep, PhoneStep DEF IInv

LEMMA Invariance == Spec => []IInv
BY InitIInv, StepIInv, PTL DEF Spec

\* Every variable keeps its type.
THEOREM TypeCorrect == Spec => []TypeOK
<1>1. IInv => TypeOK
  BY DEF IInv
<1>2. QED
  BY <1>1, Invariance, PTL

\* However sign-ups race, accounts have distinct names, and those made with a
\* password do not even differ by case only.
THEOREM DistinctNames == Spec => []NamesDistinct
<1>1. IInv => NamesDistinct
  BY DEF IInv, TypeOK, Indexed, NameOf, NamesDistinct
<1>2. QED
  BY <1>1, Invariance, PTL

\* A Facebook identity has one account: no index says so, but two accounts of
\* one identity would bear the same name.
THEOREM DistinctFacebooks == Spec => []OneAccountPerFacebook
<1>1. ASSUME IInv
      PROVE  OneAccountPerFacebook
  <2>1. ASSUME NEW u \in stored, NEW v \in stored, u # v,
               FacebookOf(u) # None, FacebookOf(u) = FacebookOf(v)
        PROVE  FALSE
    <3>1. u \in Requests /\ v \in Requests /\ NameOf(u) # NameOf(v)
      BY <1>1, <2>1 DEF IInv, TypeOK, Indexed
    <3>2. req[u].op # "signUp" /\ req[v].op # "signUp"
      BY <1>1, <2>1, <3>1, RequestFields DEF IInv, TypeOK, FacebookOf
    <3>3. QED
      BY <2>1, <3>1, <3>2 DEF NameOf, FacebookOf
  <2>2. QED
    BY <2>1 DEF OneAccountPerFacebook
<1>2. QED
  BY <1>1, Invariance, PTL

\* The document and the ledger user of an account come together for whoever
\* was told that all is well.
THEOREM LedgerUsersKept == Spec => []AccountsHaveLedgerUsers
<1>1. IInv => AccountsHaveLedgerUsers
  BY DEF IInv, TypeOK, Made, AccountsHaveLedgerUsers
<1>2. QED
  BY <1>1, Invariance, PTL

\* The answer to a sign-up tells whether the account exists.
THEOREM SignUpAnswers == Spec => []SignUpAnswerIsTrue
<1>1. IInv => SignUpAnswerIsTrue
  BY DEF IInv, Made, SignUpAnswerIsTrue
<1>2. QED
  BY <1>1, Invariance, PTL

\* Two accounts share a phone number only if their requests overlapped.
THEOREM SharedPhonesRaced == Spec => []SharedPhoneNeedsRace
<1>1. IInv => SharedPhoneNeedsRace
  BY DEF IInv
<1>2. QED
  BY <1>1, Invariance, PTL

-----------------------------------------------------------------------------
(* Address books *)

\* A book that is not empty of what is looked for has a first place of it.
LEMMA FirstPlace ==
  ASSUME NEW places, places \subseteq Nat, places # {}
  PROVE  \E i \in places : \A j \in places : i <= j
<1>1. PICK i \in places : \A j \in places : <<j, i>> \notin OpToRel(<, Nat)
  BY WFMin, NatLessThanWellFounded, Zenon
<1>2. \A j \in places : ~(j < i)
  BY <1>1, Zenon DEF OpToRel
<1>3. QED
  BY <1>2

\* A corrected number finds only accounts with its digits, and those saved in
\* plain form unless a plus that is not first was doubled.
LEMMA CorrectedFinds ==
  ASSUME TypeOK, NEW number \in Written
  PROVE  /\ Holders(GetCorrectPhone(number)) \subseteq SameDigits(number)
         /\ number.form \in {"plain", "spaced", "bare"}
              => {u \in SameDigits(number) : phone[u].form = "plain"}
                   \subseteq Holders(GetCorrectPhone(number))
<1>1. /\ GetCorrectPhone(number) \in Written
      /\ GetCorrectPhone(number).digits = number.digits
      /\ number.form \in {"plain", "spaced", "bare"}
           => GetCorrectPhone(number) = [digits |-> number.digits, form |-> "plain"]
  BY DEF GetCorrectPhone, Written, Forms
<1>2. \A u \in stored : phone[u] = None \/ phone[u] \in Written
  BY ContactsAssumption DEF TypeOK
<1>3. Holders(GetCorrectPhone(number)) \subseteq SameDigits(number)
  BY <1>1, ContactsAssumption DEF Holders, SameDigits
<1>4. ASSUME NEW u \in SameDigits(number), phone[u].form = "plain"
      PROVE  phone[u] = [digits |-> number.digits, form |-> "plain"]
  BY <1>2, <1>4 DEF SameDigits, Written
<1>5. QED
  BY <1>1, <1>3, <1>4 DEF Holders, SameDigits

\* The places of a book under which FindCrossContacts finds account u.
Under(book, u) == {i \in DOMAIN book : u \in Holders(GetCorrectPhone(book[i]))}

FirstUnder(book, u) ==
  CHOOSE i \in Under(book, u) : \A j \in Under(book, u) : i <= j

\* What is found: an account, and the first place it is found under.
LEMMA CrossContact ==
  ASSUME NEW book \in Seq(Written), NEW f \in FindCrossContacts(book)
  PROVE  /\ f = [user |-> f.user, contact |-> FirstUnder(book, f.user)]
         /\ f.user \in stored
         /\ f.contact \in Under(book, f.user)
<1>1. PICK u \in stored :
        /\ Under(book, u) # {}
        /\ f = [user |-> u, contact |-> FirstUnder(book, u)]
  BY DEF FindCrossContacts, Under, FirstUnder
<1>2. DOMAIN book \subseteq Nat
  OBVIOUS
<1>3. \E i \in Under(book, u) : \A j \in Under(book, u) : i <= j
  <2>1. Under(book, u) \subseteq Nat
    BY <1>2 DEF Under
  <2>2. QED
    BY <1>1, <2>1, FirstPlace
<1>4. QED
  BY <1>1, <1>3 DEF FirstUnder

\* Contacts are split in every state, whoever shares a number or has none.
LEMMA BooksSplit ==
  ASSUME TypeOK
  PROVE  ContactsSplit
<1> SUFFICES ASSUME NEW book \in Books
             PROVE
    LET found   == FindCrossContacts(book)
        listed  == {f.user : f \in found}
        invited == FindNotDuniapayUsers(book)
        Plain(i) == {u \in SameDigits(book[i]) : phone[u].form = "plain"}
    IN /\ \A f \in found : f.user \in SameDigits(book[f.contact])
       /\ \A f, g \in found : f.user = g.user => f = g
       /\ \A f \in found : f.contact \notin invited
       /\ \A i \in DOMAIN book : i \in invited \/ SameDigits(book[i]) \cap listed # {}
       /\ \A i \in DOMAIN book :
            book[i].form \in {"plain", "spaced", "bare"} /\ Plain(i) # {}
              => i \notin invited /\ Plain(i) \subseteq listed
  BY DEF ContactsSplit
<1> DEFINE found == FindCrossContacts(book)
           listed == {f.user : f \in found}
           invited == FindNotDuniapayUsers(book)
           Plain(i) == {u \in SameDigits(book[i]) : phone[u].form = "plain"}
<1>1. book \in Seq(Written) /\ \A i \in DOMAIN book : book[i] \in Written
  BY ContactsAssumption
<1>2. \A i \in DOMAIN book :
        Holders(GetCorrectPhone(book[i])) \subseteq SameDigits(book[i])
  BY <1>1, CorrectedFinds
<1>3. ASSUME NEW f \in found
      PROVE  /\ f.contact \in DOMAIN book
             /\ f.user \in Holders(GetCorrectPhone(book[f.contact]))
  BY <1>1, CrossContact DEF Under
<1>4. ASSUME NEW i \in DOMAIN book, NEW u \in Holders(GetCorrectPhone(book[i]))
      PROVE  u \in listed
  <2>1. u \in stored /\ i \in Under(book, u)
    BY DEF Under, Holders
  <2> DEFINE f == [user |-> u, contact |-> FirstUnder(book, u)]
  <2>2. f \in found
    BY <2>1 DEF FindCrossContacts, Under, FirstUnder
  <2>3. QED
    BY <2>2
<1>5. \A f \in found : f.user \in SameDigits(book[f.contact]) /\ f.contact \notin invited
  BY <1>2, <1>3 DEF FindNotDuniapayUsers
<1>6. ASSUME NEW f \in found, NEW g \in found, f.user = g.user
      PROVE  f = g
  BY <1>1, <1>6, CrossContact
<1>7. ASSUME NEW i \in DOMAIN book, i \notin invited
      PROVE  SameDigits(book[i]) \cap listed # {}
  <2>1. PICK u \in Holders(GetCorrectPhone(book[i])) : TRUE
    BY <1>7 DEF FindNotDuniapayUsers
  <2>2. QED
    BY <1>2, <1>4, <2>1
<1>8. ASSUME NEW i \in DOMAIN book, book[i].form \in {"plain", "spaced", "bare"},
             Plain(i) # {}
      PROVE  i \notin invited /\ Plain(i) \subseteq listed
  <2>1. Plain(i) \subseteq Holders(GetCorrectPhone(book[i]))
    BY <1>1, <1>8, CorrectedFinds
  <2>2. QED
    BY <1>4, <1>8, <2>1 DEF FindNotDuniapayUsers
<1>9. QED
  BY <1>5, <1>6, <1>7, <1>8

\* Whatever accounts there are and however their numbers were typed, the lists
\* that a user's address book is split into name nobody under another's number,
\* lose no contact, and miss only accounts and contacts typed oddly.
THEOREM AddressBooksSplit == Spec => []ContactsSplit
<1>1. IInv => TypeOK
  BY DEF IInv
<1>2. QED
  BY <1>1, BooksSplit, Invariance, PTL

-----------------------------------------------------------------------------
(* Refinement of CheckedInsertion *)

\* A number in a document is that of the request that wrote it for its user;
\* a change of number is of a stored user.
Claimed(u) ==
  u \in stored => /\ claim[u] \in Requests
                  /\ OwnerOf(claim[u]) = u
                  /\ phone[u] = req[claim[u]].phone

CInv ==
  /\ \A u \in Requests : Claimed(u)
  /\ \A r \in Requests : req[r].op = "setPhone" /\ pc[r] \notin {"idle", "dead"}
                           => req[r].user \in stored

LEMMA InitCInv ==
  ASSUME Init
  PROVE  CInv
BY DEF Init, CInv, Claimed

\* How the place of a request says whether it looked.
LEMMA LookedPlaces ==
  Looked = {r \in Requests : pc[r] \in {"lookup", "rehive", "insert", "find", "update"}}
BY DEF Looked, Claiming

LEMMA OwnerType ==
  ASSUME TypeOK, NEW r \in Requests
  PROVE  OwnerOf(r) \in Requests
BY RequestFields DEF TypeOK, OwnerOf

\* What the step that writes a number does.
LEMMA WriteFacts ==
  ASSUME IInv, NEW r \in Requests,
         \/ InsertUser(r) /\ SchemaAdmits(r)
         \/ UpdatePhone(r) /\ seen[r] # req[r].phone
  PROVE  /\ WritePhone(r, OwnerOf(r), req[r].phone)
         /\ stored' = stored \cup (IF req[r].op = "setPhone" THEN {} ELSE {r})
         /\ r \in Looked
         /\ pc' = [pc EXCEPT ![r] = "done"]
         /\ req' = req
<1>1. Placed(r)
  BY DEF IInv
<1>2. CASE InsertUser(r) /\ SchemaAdmits(r)
  BY <1>1, <1>2, LookedPlaces DEF InsertUser, Placed, OwnerOf, Finish
<1>3. CASE UpdatePhone(r) /\ seen[r] # req[r].phone
  BY <1>1, <1>3, LookedPlaces DEF UpdatePhone, Placed, OwnerOf, Finish
<1>4. QED
  BY <1>2, <1>3

\* Request r writes a number in this step.
Writes(r) == \/ InsertUser(r) /\ SchemaAdmits(r)
             \/ UpdatePhone(r) /\ seen[r] # req[r].phone

\* No other step touches what is in the documents.
LEMMA QuietStep ==
  ASSUME IInv, [Next]_vars, \A r \in Requests : ~Writes(r)
  PROVE  UNCHANGED <<stored, phone, claim, raced>>
BY DEF Writes, Next, vars, Step, Receive, Check, LookUp, CreateLedgerUser, InsertUser,
       FindUser, UpdatePhone, Crash

LEMMA StepCInv ==
  ASSUME IInv, CInv, [Next]_vars
  PROVE  CInv'
<1>1. TypeOK /\ req' = req /\ \A q \in Requests : OwnerOf(q)' = OwnerOf(q)
  BY ReqUnchanged DEF IInv, OwnerOf
<1>2. stored \subseteq stored'
  BY DEF Next, vars, Step, Receive, Check, LookUp, CreateLedgerUser, InsertUser,
         FindUser, UpdatePhone, Crash
<1>3. ASSUME NEW q \in Requests, req[q].op = "setPhone", pc'[q] \notin {"idle", "dead"}
      PROVE  req[q].user \in stored
  <2>1. ASSUME NEW r \in Requests, Step(r)
        PROVE  req[q].user \in stored
    <3>1. CASE q # r
      BY <1>1, <1>3, <2>1, <3>1, OthersUnchanged DEF CInv
    <3>2. CASE q = r /\ Receive(r)
      BY <1>3, <3>2 DEF Receive
    <3>3. CASE q = r /\ ~Receive(r)
      BY <1>3, <2>1, <3>3 DEF CInv, Step, Check, LookUp, CreateLedgerUser,
         InsertUser, FindUser, UpdatePhone
    <3>4. QED
      BY <3>1, <3>2, <3>3
  <2>2. CASE Crash
    BY <1>1, <1>3, <2>2 DEF Crash, CInv, TypeOK
  <2>3. CASE UNCHANGED vars
    BY <1>3, <2>3 DEF vars, CInv
  <2>4. QED
    BY <2>1, <2>2, <2>3 DEF Next
<1>4. ASSUME NEW r \in Requests, Writes(r), NEW u \in Requests
      PROVE  Claimed(u)'
  <2>1. /\ WritePhone(r, OwnerOf(r), req[r].phone)
        /\ stored' = stored \cup (IF req[r].op = "setPhone" THEN {} ELSE {r})
    BY <1>4, WriteFacts DEF Writes
  <2>2. CASE u = OwnerOf(r)
    BY <1>1, <1>4, <2>1, <2>2 DEF WritePhone, Claimed, TypeOK
  <2>3. CASE u # OwnerOf(r)
    <3>1. u \in stored' => u \in stored
      BY <2>1, <2>3 DEF OwnerOf
    <3>2. claim'[u] = claim[u] /\ phone'[u] = phone[u]
      BY <1>1, <2>1, <2>3 DEF WritePhone, TypeOK
    <3>3. QED
      BY <1>1, <3>1, <3>2 DEF CInv, Claimed
  <2>4. QED
    BY <2>2, <2>3
<1>5. ASSUME \A r \in Requests : ~Writes(r), NEW u \in Requests
      PROVE  Claimed(u)'
  BY <1>1, <1>5, QuietStep DEF CInv, Claimed
<1>6. QED
  BY <1>1, <1>2, <1>3, <1>4, <1>5 DEF CInv

\* Nobody a check let through is a rival of what is in the documents.
LEMMA CheckLooks ==
  ASSUME IInv, CInv, NEW r \in Requests, Check(r), ~Conflict(r),
         NEW i \in Claims
  PROVE  i \notin Rivals[r]
<1>1. PICK u \in stored : i = claim[u]
  BY DEF Claims
<1>2. /\ u \in Requests /\ OwnerOf(i) = u /\ phone[u] = req[i].phone
  BY <1>1 DEF IInv, TypeOK, CInv, Claimed
<1>3. req[r].op \in {"signUp", "facebookSignUp", "setPhone"}
  BY DEF IInv, Placed, Check
<1>4. CASE req[r].op = "setPhone"
  BY <1>2, <1>4 DEF Conflict, PhoneTakenByOther, Rivals, OwnerOf
<1>5. CASE req[r].op = "signUp"
  BY <1>2, <1>5 DEF Conflict, PhoneTaken, Rivals
<1>6. CASE req[r].op = "facebookSignUp"
  BY <1>2, <1>6 DEF Conflict, PhoneTaken, Rivals
<1>7. QED
  BY <1>3, <1>4, <1>5, <1>6

\* The write of a number is an insertion.
LEMMA WriteInserts ==
  ASSUME IInv, CInv, NEW r \in Requests, Writes(r)
  PROVE  Insertion!Insert(r)
<1>1. /\ WritePhone(r, OwnerOf(r), req[r].phone)
      /\ stored' = stored \cup (IF req[r].op = "setPhone" THEN {} ELSE {r})
      /\ r \in Looked
      /\ pc' = [pc EXCEPT ![r] = "done"]
      /\ req' = req
  BY WriteFacts DEF Writes
<1>2. TypeOK /\ OwnerOf(r) \in Requests /\ \A q \in Requests : OwnerOf(q)' = OwnerOf(q)
  BY <1>1, OwnerType DEF IInv, OwnerOf
<1>3. Rivals' = Rivals
  BY <1>1, <1>2 DEF Rivals
<1>4. Looked' = Looked \ {r}
  BY <1>1, <1>2, LookedPlaces DEF Looked, Claiming, TypeOK
<1>5. OwnerOf(r) \in stored'
  BY <1>1, LookedPlaces DEF CInv, OwnerOf
<1>6. claim' = [claim EXCEPT ![OwnerOf(r)] = r]
  BY <1>1 DEF WritePhone
<1>7. r \in Claims'
  BY <1>2, <1>5, <1>6 DEF Claims, TypeOK
<1>8. ASSUME NEW u \in stored'
      PROVE  claim'[u] \in Claims \cup {r}
  BY <1>1, <1>2, <1>6, <1>8 DEF Claims, TypeOK, OwnerOf
<1>9. Claims' \subseteq Claims \cup {r}
  BY <1>8 DEF Claims
<1>10. Stale' = Stale \cup (Looked' \cap Rivals[r])
  BY <1>1, <1>2, <1>4, LookedPlaces DEF Stale, WritePhone, Claiming, Rivals, TypeOK
<1>11. QED
  BY <1>1, <1>3, <1>4, <1>7, <1>9, <1>10 DEF Insertion!Insert

LEMMA StepInserts ==
  ASSUME IInv, CInv, [Next]_vars
  PROVE  [Insertion!Next]_(Insertion!ivars)
<1>1. TypeOK /\ req' = req /\ \A q \in Requests : OwnerOf(q)' = OwnerOf(q)
  BY ReqUnchanged DEF IInv, OwnerOf
<1>2. Rivals' = Rivals
  BY <1>1 DEF Rivals
<1>3. ASSUME NEW r \in Requests, Writes(r)
      PROVE  Insertion!Next
  BY <1>3, WriteInserts DEF Insertion!Next
<1>4. ASSUME \A r \in Requests : ~Writes(r)
      PROVE  Insertion!Next
  <2>1. /\ Claims' = Claims
        /\ Stale' = Stale
    BY <1>1, <1>4, QuietStep DEF Claims, Stale
  <2>2. ASSUME NEW r \in Requests, Receive(r), req[r].op = "facebookSignIn"
        PROVE  Insertion!Look(r)
    <3>1. req[r].phone = None
      BY <1>1, <2>2 DEF TypeOK, AccountRequest, SignUp, FacebookSignUp, FacebookSignIn, SetPhone
    <3>2. Looked' = Looked \cup {r}
      BY <1>1, <2>2, LookedPlaces DEF Receive, Goto, TypeOK, Looked, Claiming
    <3>3. QED
      BY <1>2, <2>1, <3>1, <3>2 DEF Insertion!Look, Rivals
  <2>3. ASSUME NEW r \in Requests, Check(r), ~Conflict(r)
        PROVE  Insertion!Look(r)
    <3>1. req[r].op \in {"signUp", "facebookSignUp", "setPhone"}
      BY <2>3 DEF IInv, Placed, Check
    <3>2. Looked' = Looked \cup {r}
      BY <1>1, <2>3, <3>1, LookedPlaces
         DEF Check, Goto, AfterCheck, TypeOK, Looked, Claiming
    <3>3. QED
      BY <1>2, <2>1, <2>3, <3>2, CheckLooks DEF Insertion!Look
  <2>4. CASE /\ \A r \in Requests : ~(Receive(r) /\ req[r].op = "facebookSignIn")
             /\ \A r \in Requests : ~(Check(r) /\ ~Conflict(r))
    <3>1. Looked' \subseteq Looked
      BY <1>1, <2>4 DEF Next, vars, Step, Receive, Check, LookUp, CreateLedgerUser,
         InsertUser, FindUser, UpdatePhone, Crash, Goto, Finish, Looked, Claiming, TypeOK
    <3>2. QED
      BY <1>2, <2>1, <3>1 DEF Insertion!Next, Insertion!Leave
  <2>5. QED
    BY <2>2, <2>3, <2>4 DEF Insertion!Next
<1>5. QED
  BY <1>3, <1>4

LEMMA InitInserts ==
  ASSUME Init
  PROVE  Insertion!Init
BY DEF Init, Insertion!Init, Looked, Claiming, Claims, Rivals, Stale

LEMMA CInvariance == Spec => []CInv
BY InitCInv, StepCInv, Invariance, PTL DEF Spec

\* Sign-ups, sign-ins with Facebook and changes of number write phone numbers by
\* the idiom of CheckedInsertion, crashes and failures of the ledger included.
THEOREM NumbersAreInserted == Spec => ImplementsInsertion
<1>1. Init => Insertion!Init
  BY InitInserts
<1>2. IInv /\ CInv /\ [Next]_vars => [Insertion!Next]_(Insertion!ivars)
  BY StepInserts
<1>3. QED
  BY <1>1, <1>2, Invariance, CInvariance, PTL
     DEF Spec, ImplementsInsertion, Insertion!Spec

\* A rival's number is in a document only if its writer was overtaken, from the
\* idiom alone.
THEOREM RivalsAreStale == Spec => []Insertion!ConflictsAreStale
<1>1. Insertion!Init => Insertion!Inv
  BY DEF Insertion!Init, Insertion!Inv, Insertion!ConflictsAreStale
<1>2. Insertion!Inv /\ [Insertion!Next]_(Insertion!ivars) => Insertion!Inv'
  <2>1. ASSUME Insertion!Inv, NEW w \in Requests, Insertion!Look(w)
        PROVE  Insertion!Inv'
    BY <2>1 DEF Insertion!Inv, Insertion!Look, Insertion!ConflictsAreStale
  <2>2. ASSUME Insertion!Inv, NEW w \in Requests, Insertion!Insert(w)
        PROVE  Insertion!Inv'
    <3>2. /\ Claims' \subseteq Claims \cup {w} /\ Looked' = Looked \ {w}
          /\ Rivals' = Rivals /\ Stale' = Stale \cup (Looked' \cap Rivals[w])
          /\ \A v, u \in Requests : v \in Rivals[u] => v # u /\ u \in Rivals[v]
          /\ w \in Looked /\ Claims \subseteq Requests /\ Looked \subseteq Requests
      BY <2>2 DEF Insertion!Inv, Insertion!Insert
    <3>3. /\ \A q \in Looked \ Stale : Claims \cap Rivals[q] = {}
          /\ \A v, u \in Claims : v \in Rivals[u] => v \in Stale \/ u \in Stale
      BY <2>2 DEF Insertion!Inv, Insertion!ConflictsAreStale
    <3>4. /\ Claims' \subseteq Requests /\ Looked' \subseteq Requests
          /\ \A v, u \in Requests : v \in Rivals'[u] => v # u /\ u \in Rivals'[v]
      BY <3>2
    <3>5. \A q \in Looked' \ Stale' : Claims' \cap Rivals'[q] = {}
      BY <3>2, <3>3
    <3>6. \A v, u \in Claims' : v \in Rivals'[u] => v \in Stale' \/ u \in Stale'
      BY <3>2, <3>3
    <3>7. QED
      BY <3>4, <3>5, <3>6 DEF Insertion!Inv, Insertion!ConflictsAreStale
  <2>3. ASSUME Insertion!Inv, Insertion!Leave
        PROVE  Insertion!Inv'
    BY <2>3 DEF Insertion!Inv, Insertion!Leave, Insertion!ConflictsAreStale
  <2>4. ASSUME Insertion!Inv, UNCHANGED Insertion!ivars
        PROVE  Insertion!Inv'
    BY <2>4 DEF Insertion!Inv, Insertion!ivars, Insertion!ConflictsAreStale
  <2>5. QED
    BY <2>1, <2>2, <2>3, <2>4 DEF Insertion!Next
<1>3. Insertion!Inv => Insertion!ConflictsAreStale
  BY DEF Insertion!Inv
<1>4. QED
  BY <1>1, <1>2, <1>3, NumbersAreInserted, PTL DEF ImplementsInsertion, Insertion!Spec

-----------------------------------------------------------------------------
(* Requests in turn *)

\* No two requests that would give one number to two users are between their
\* check and their end.
InTurn == \A q, r \in Looked : q \notin Rivals[r]

LEMMA NobodyStale ==
  ASSUME InTurn, Stale = {}, [Insertion!Next]_(Insertion!ivars)
  PROVE  Stale' = {}
<1>1. ASSUME NEW r \in Requests, Insertion!Insert(r)
      PROVE  Stale' = {}
  BY <1>1 DEF Insertion!Insert, InTurn
<1>2. QED
  BY <1>1 DEF Insertion!Next, Insertion!Look, Insertion!Leave, Insertion!ivars

\* The finding about phone numbers is one about overlapping requests only: if
\* requests for one number take turns from check to write, no two accounts ever
\* share a number, whatever fails or crashes.
THEOREM UniqueInTurn == Spec /\ []InTurn => []UniquePhone
<1>1. Init => Stale = {}
  BY DEF Init, Stale
<1>2. InTurn /\ Stale = {} /\ [Insertion!Next]_(Insertion!ivars) => (Stale = {})'
  BY NobodyStale
<1>3. ASSUME IInv, CInv, Stale = {}
      PROVE  UniquePhone
  <2>1. SUFFICES ASSUME NEW u \in stored, NEW v \in stored, u # v, phone[u] # None,
                        phone[u] = phone[v]
                 PROVE  FALSE
    BY DEF UniquePhone
  <2>2. claim[u] \in raced \/ claim[v] \in raced
    BY <1>3, <2>1 DEF IInv, SharedPhoneNeedsRace
  <2>3. req[claim[u]].phone # None /\ req[claim[v]].phone # None
    BY <1>3, <2>1 DEF IInv, TypeOK, CInv, Claimed
  <2>4. QED
    BY <1>3, <2>2, <2>3 DEF Stale
<1>4. QED
  BY <1>1, <1>2, <1>3, Invariance, CInvariance, NumbersAreInserted, PTL
     DEF Spec, ImplementsInsertion, Insertion!Spec
=============================================================================

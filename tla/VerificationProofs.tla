------------------------- MODULE VerificationProofs -------------------------
(***************************************************************************)
(* Verification for every number of requests, phones and sends: the code   *)
(* of a successful start works, only disturbed retries fail, and a token   *)
(* is paid for with a code.  A pending verification is one that has not    *)
(* ended; a handler on its way has begun none.                             *)
(***************************************************************************)
EXTENDS Verification, TLAPS

-----------------------------------------------------------------------------
(* The inductive invariant *)

Underway == {"create", "cancel", "recreate"}

\* A handler on its way has not begun, nor had sent, a verification.
Placed(r) ==
  /\ pc[r] \in Underway => req[r].op = "start" /\ Phone(r) # TestPhone
  /\ pc[r] \in Underway \cup {"idle"} =>
       /\ reply[r] = "none"
       /\ sent[r] = None
       /\ ended[r] = "no"
       /\ \A p \in Phones : live[p] # r
       /\ \A q \in Requests : sent[q] # r
  /\ reply[r] # "none" => pc[r] = "done"

\* What is pending has not ended, and is for the number.
Pending(p) ==
  live[p] # None => ended[live[p]] = "no" /\ Phone(live[p]) = p

\* What was sent is pending or has ended.
Delivered(r) ==
  /\ sent[r] # None =>
       /\ Phone(sent[r]) = Phone(r)
       /\ live[Phone(r)] = sent[r] \/ ended[sent[r]] # "no"
  /\ req[r].op = "start" /\ reply[r] = "ok" /\ Phone(r) # TestPhone
       => sent[r] # None

\* Who cancelled a verification had not that one's code sent.
Cancelled(v) ==
  ended[v] \in Requests =>
    /\ Phone(ended[v]) = Phone(v)
    /\ pc[ended[v]] \notin {"idle", "create", "cancel"}
    /\ sent[ended[v]] # v
    /\ req[ended[v]].op = "start" /\ Phone(ended[v]) # TestPhone

\* An undisturbed retry finds the number as it left it.
Undisturbed(r) ==
  /\ r \notin disturbed /\ pc[r] = "cancel" => live[Phone(r)] # None
  /\ r \notin disturbed /\ pc[r] = "recreate" => live[Phone(r)] = None
  /\ req[r].op = "start" /\ reply[r] = "serverError" => r \in failed \cup disturbed

IInv ==
  /\ TypeOK
  /\ \A r \in Requests : Placed(r) /\ Delivered(r) /\ Cancelled(r) /\ Undisturbed(r)
  /\ \A p \in Phones : Pending(p)
  /\ TokenIsEarned

LEMMA InitIInv ==
  ASSUME Init
  PROVE  IInv
<1>1. ASSUME NEW r \in Requests
      PROVE  Placed(r) /\ Delivered(r) /\ Cancelled(r) /\ Undisturbed(r)
  BY <1>1, VerificationAssumption
     DEF Init, Placed, Underway, Delivered, Cancelled, Undisturbed
<1>2. TypeOK
  BY VerificationAssumption DEF Init, TypeOK
<1>3. QED
  BY <1>1, <1>2 DEF IInv, Init, Pending, TokenIsEarned

-----------------------------------------------------------------------------
(* Type correctness *)

LEMMA PhoneType ==
  ASSUME TypeOK, NEW r \in Requests
  PROVE  /\ Phone(r) \in Phones
         /\ req[r].op \in {"start", "verify"}
         /\ req[r].op = "start" => req[r] \in Start
BY DEF TypeOK, Phone, Start, Verify

\* What Twilio does keeps its types.
LEMMA SendCodeType ==
  ASSUME TypeOK, NEW r \in Requests, SendCode(r)
  PROVE  /\ live' \in [Phones -> Requests \cup {None}]
         /\ sends' \in [Phones -> 0 .. MaxSends]
         /\ sent' \in [Requests -> Requests \cup {None}]
         /\ ended' = ended
         /\ disturbed' \subseteq Requests
<1>1. Phone(r) \in Phones
  BY PhoneType
<1>2. MaxSends \in Nat /\ MaxSends >= 1
  BY VerificationAssumption
<1>3. QED
  BY <1>1, <1>2 DEF TypeOK, SendCode, Retrying

LEMMA EndType ==
  ASSUME TypeOK, NEW p \in Phones, NEW by \in SUBSET Requests,
         NEW how \in {"used", "expired"} \cup Requests, End(p, how, by)
  PROVE  /\ live' \in [Phones -> Requests \cup {None}]
         /\ sends' \in [Phones -> 0 .. MaxSends]
         /\ sent' = sent
         /\ ended' \in [Requests -> {"no", "used", "expired"} \cup Requests]
         /\ disturbed' \subseteq Requests
BY VerificationAssumption DEF TypeOK, End, Retrying

TwilioTypeOK ==
  /\ live \in [Phones -> Requests \cup {None}]
  /\ sends \in [Phones -> 0 .. MaxSends]
  /\ sent \in [Requests -> Requests \cup {None}]
  /\ ended \in [Requests -> {"no", "used", "expired"} \cup Requests]
  /\ disturbed \subseteq Requests

LEMMA TypeStep ==
  ASSUME TypeOK, [Next]_vars
  PROVE  TypeOK'
<1>1. ASSUME NEW r \in Requests, Receive(r)
      PROVE  TypeOK'
  BY <1>1 DEF TypeOK, Receive, twilio, Goto, Finish
<1>2. ASSUME NEW r \in Requests, Create(r)
      PROVE  TypeOK'
  <2>1. TwilioTypeOK'
    BY <1>2, SendCodeType DEF Create, TypeOK, TwilioTypeOK, twilio
  <2>2. QED
    BY <1>2, <2>1 DEF TypeOK, TwilioTypeOK, Create, Goto, Finish
<1>3. ASSUME NEW r \in Requests, Cancel(r)
      PROVE  TypeOK'
  <2>1. Phone(r) \in Phones
    BY PhoneType
  <2>2. TwilioTypeOK'
    BY <1>3, <2>1, EndType DEF Cancel, TypeOK, TwilioTypeOK, twilio
  <2>3. QED
    BY <1>3, <2>2 DEF TypeOK, TwilioTypeOK, Cancel, Goto, Finish, Fails
<1>4. ASSUME NEW r \in Requests, Recreate(r)
      PROVE  TypeOK'
  <2>1. TwilioTypeOK'
    BY <1>4, SendCodeType DEF Recreate, TypeOK, TwilioTypeOK, twilio
  <2>2. QED
    BY <1>4, <2>1 DEF TypeOK, TwilioTypeOK, Recreate, Finish, Fails
<1>5. ASSUME NEW r \in Requests, CheckCode(r)
      PROVE  TypeOK'
  <2>1. Phone(r) \in Phones
    BY PhoneType
  <2>2. TwilioTypeOK'
    BY <1>5, <2>1, EndType DEF CheckCode, Approve, TypeOK, TwilioTypeOK, twilio
  <2>3. QED
    BY <1>5, <2>2 DEF TypeOK, TwilioTypeOK, CheckCode, Finish
<1>6. ASSUME NEW p \in Phones, Expire(p)
      PROVE  TypeOK'
  <2>1. TwilioTypeOK'
    BY <1>6, EndType DEF Expire, TypeOK, TwilioTypeOK
  <2>2. QED
    BY <1>6, <2>1 DEF TypeOK, TwilioTypeOK, Expire
<1>7. CASE Crash
  BY <1>7 DEF TypeOK, Crash, twilio
<1>8. CASE UNCHANGED vars
  BY <1>8 DEF TypeOK, vars, twilio
<1>9. QED
  BY <1>1, <1>2, <1>3, <1>4, <1>5, <1>6, <1>7, <1>8 DEF Next, Step

-----------------------------------------------------------------------------
(* The invariant holds at every step *)

\* The handler of r goes to label and, once it is done, has answered.
Moves(r, label, answer) ==
  /\ pc[r] \in Underway \cup {"idle"}
  /\ pc' = [pc EXCEPT ![r] = label]
  /\ reply' = [reply EXCEPT ![r] = answer]
  /\ label # "done" => label \in Underway /\ answer = "none"
  /\ label \in Underway => req[r].op = "start" /\ Phone(r) # TestPhone
  /\ req' = req
  /\ failed \subseteq failed'

\* A step that leaves Twilio alone.
LEMMA QuietStep ==
  ASSUME IInv, TypeOK', NEW r \in Requests, NEW label, NEW answer,
         Moves(r, label, answer), UNCHANGED twilio,
         label = "cancel" => live[Phone(r)] # None,
         label # "recreate", label # "done" => pc[r] # "recreate",
         req[r].op = "start" /\ answer = "ok" => Phone(r) = TestPhone,
         req[r].op = "start" /\ answer = "serverError" => r \in failed' \cup disturbed,
         req[r].op = "verify" /\ answer = "ok" => TestData(r)
  PROVE  IInv'
<1>1. /\ UNCHANGED <<live, sends, sent, ended, disturbed, req>>
      /\ pc'[r] = label /\ reply'[r] = answer
      /\ \A q \in Requests \ {r} : pc'[q] = pc[q] /\ reply'[q] = reply[q]
  BY DEF IInv, TypeOK, Moves, twilio
<1>2. ASSUME NEW q \in Requests
      PROVE  Placed(q)' /\ Delivered(q)'
  BY <1>1, <1>2 DEF IInv, Moves, Placed, Delivered, Underway, Phone
<1>3. ASSUME NEW v \in Requests
      PROVE  Cancelled(v)'
  BY <1>1, <1>3 DEF IInv, Moves, Cancelled, Underway, Phone
<1>4. ASSUME NEW q \in Requests
      PROVE  Undisturbed(q)'
  BY <1>1, <1>4 DEF IInv, Moves, Undisturbed, Underway, Phone
<1>5. \A p \in Phones : Pending(p)'
  BY <1>1 DEF IInv, Pending, Phone
<1>6. TokenIsEarned'
  BY <1>1 DEF IInv, TokenIsEarned, TestData, Phone
<1>7. QED
  BY <1>2, <1>3, <1>4, <1>5, <1>6 DEF IInv

\* A step that has Twilio send a code.
LEMMA SendStep ==
  ASSUME IInv, TypeOK', NEW r \in Requests, NEW answer,
         pc[r] \in {"create", "recreate"}, Moves(r, "done", answer), SendCode(r),
         answer = "serverError" => r \in failed'
  PROVE  IInv'
<1> DEFINE p == Phone(r)
<1>1. p \in Phones /\ None \notin Requests /\ \A x \in Requests : x \notin {"no"}
  BY PhoneType, VerificationAssumption DEF IInv
<1>2. /\ UNCHANGED <<ended, req>> /\ disturbed \subseteq disturbed'
      /\ pc'[r] = "done" /\ reply'[r] = answer
      /\ \A q \in Requests \ {r} : pc'[q] = pc[q] /\ reply'[q] = reply[q]
      /\ \A q \in Requests \ {r} :
           Phone(q) = p /\ pc[q] \in {"cancel", "recreate"} => q \in disturbed'
  BY DEF IInv, TypeOK, Moves, SendCode, Retrying
<1>3. /\ sent'[r] = live'[p] /\ live'[p] \in Requests
      /\ \A q \in Requests \ {r} : sent'[q] = sent[q]
      /\ \A x \in Phones \ {p} : live'[x] = live[x]
      /\ live'[p] = IF live[p] = None THEN r ELSE live[p]
  BY <1>1 DEF IInv, TypeOK, SendCode
<1>4. req[r].op = "start" /\ p # TestPhone /\ ended[r] = "no"
  BY DEF IInv, Placed, Underway
<1>5. ended[live'[p]] = "no" /\ Phone(live'[p]) = p
  BY <1>1, <1>3, <1>4 DEF IInv, Pending
<1>6. ASSUME NEW q \in Requests
      PROVE  Placed(q)'
  <2>1. CASE q = r
    BY <1>2, <2>1 DEF Placed, Underway
  <2>2. CASE q # r
    <3>1. pc[q] \in Underway \cup {"idle"} => \A x \in Phones : live'[x] # q
      BY <1>1, <1>3, <2>2 DEF IInv, Placed
    <3>2. pc[q] \in Underway \cup {"idle"} => \A x \in Requests : sent'[x] # q
      BY <1>1, <1>3, <3>1, <2>2 DEF IInv, Placed
    <3>3. Placed(q)
      BY DEF IInv
    <3>4. QED
      BY <1>2, <1>3, <2>2, <3>1, <3>2, <3>3 DEF Placed, Phone
  <2>3. QED
    BY <2>1, <2>2
<1>7. ASSUME NEW q \in Requests
      PROVE  Delivered(q)'
  <2>1. CASE q = r
    BY <1>1, <1>2, <1>3, <1>5, <2>1 DEF Delivered, Phone
  <2>2. CASE q # r
    <3>1. Phone(q) \in Phones /\ Delivered(q)
      BY PhoneType DEF IInv
    <3>2. live[Phone(q)] = sent[q] /\ sent[q] # None => live'[Phone(q)] = sent[q]
      BY <1>3, <3>1
    <3>3. QED
      BY <1>2, <1>3, <2>2, <3>1, <3>2 DEF Delivered, Phone
  <2>3. QED
    BY <2>1, <2>2
<1>8. ASSUME NEW v \in Requests
      PROVE  Cancelled(v)'
  <2>1. Cancelled(v)
    BY DEF IInv
  <2>2. ended[v] = r => sent'[r] # v
    BY <1>1, <1>3, <1>5
  <2>3. QED
    BY <1>2, <1>3, <2>1, <2>2 DEF Cancelled, Phone
<1>9. ASSUME NEW q \in Requests
      PROVE  Undisturbed(q)'
  <2>1. CASE q = r
    BY <1>2, <2>1 DEF Undisturbed, Moves
  <2>2. CASE q # r
    <3>1. Phone(q) \in Phones /\ Undisturbed(q)
      BY PhoneType DEF IInv
    <3>2. QED
      BY <1>2, <1>3, <2>2, <3>1 DEF Undisturbed, Phone, Moves
  <2>3. QED
    BY <2>1, <2>2
<1>10. ASSUME NEW x \in Phones
       PROVE  Pending(x)'
  BY <1>2, <1>3, <1>5, <1>10 DEF IInv, Pending, Phone
<1>11. TokenIsEarned'
  BY <1>2, <1>4 DEF IInv, TokenIsEarned, TestData, Phone
<1>12. QED
  BY <1>6, <1>7, <1>8, <1>9, <1>10, <1>11 DEF IInv

-----------------------------------------------------------------------------
(* A verification ends *)

LEMMA EndFacts ==
  ASSUME IInv, NEW p \in Phones, NEW how, NEW by, End(p, how, by),
         how # "no", req' = req
  PROVE  /\ live[p] \in Requests /\ ended[live[p]] = "no" /\ Phone(live[p]) = p
         /\ ended'[live[p]] = how
         /\ \A v \in Requests \ {live[p]} : ended'[v] = ended[v]
         /\ live'[p] = None
         /\ \A x \in Phones \ {p} : live'[x] = live[x]
         /\ \A x \in Phones : Pending(x)'
         /\ sent' = sent
         /\ disturbed \subseteq disturbed'
         /\ \A q \in Retrying(p) \ by : q \in disturbed'
<1>1. /\ live[p] \in Requests /\ ended[live[p]] = "no" /\ Phone(live[p]) = p
      /\ ended' = [ended EXCEPT ![live[p]] = how]
      /\ live' = [live EXCEPT ![p] = None]
  BY DEF IInv, TypeOK, End, Pending
<1>2. /\ ended'[live[p]] = how
      /\ \A v \in Requests \ {live[p]} : ended'[v] = ended[v]
      /\ live'[p] = None
      /\ \A x \in Phones \ {p} : live'[x] = live[x]
  BY <1>1 DEF IInv, TypeOK
<1>3. ASSUME NEW x \in Phones
      PROVE  Pending(x)'
  <2>1. CASE x = p
    BY <1>2, <2>1 DEF Pending
  <2>2. CASE x # p /\ live[x] # None
    <3>1. live[x] \in Requests /\ Phone(live[x]) = x /\ ended[live[x]] = "no"
      BY <2>2 DEF IInv, TypeOK, Pending
    <3>2. live[x] # live[p]
      BY <1>1, <2>2, <3>1
    <3>3. QED
      BY <1>2, <2>2, <3>1, <3>2 DEF Pending, Phone
  <2>3. CASE x # p /\ live[x] = None
    BY <1>2, <2>3 DEF Pending
  <2>4. QED
    BY <2>1, <2>2, <2>3
<1>4. QED
  BY <1>1, <1>2, <1>3 DEF End

\* What was sent is pending or has ended all the same.
LEMMA EndDelivered ==
  ASSUME IInv, NEW p \in Phones, NEW how, NEW by, End(p, how, by),
         how # "no", req' = req, NEW q \in Requests,
         req[q].op = "start" /\ reply'[q] = "ok" => reply[q] = "ok"
  PROVE  Delivered(q)'
<1>1. Phone(q) \in Phones /\ Delivered(q)
  BY PhoneType DEF IInv
<1>2. sent[q] \in Requests \cup {None}
  BY DEF IInv, TypeOK
<1>3. QED
  BY <1>1, <1>2, EndFacts DEF Delivered, Phone

\* A handler that meets the limit cancels what is pending.
LEMMA CancelStep ==
  ASSUME IInv, TypeOK', NEW r \in Requests, NEW answer, NEW label,
         pc[r] = "cancel", Moves(r, label, answer), End(Phone(r), r, {r}),
         label \in {"recreate", "done"}, answer # "ok",
         answer = "serverError" => r \in failed'
  PROVE  IInv'
<1> DEFINE p == Phone(r)
<1>1. /\ p \in Phones /\ None \notin Requests /\ r \notin {"no", "used"}
      /\ \A q \in Requests : pc[q] = "cancel" => sent[q] = None
  BY PhoneType, VerificationAssumption DEF IInv, Placed, Underway
<1>2. /\ pc'[r] = label /\ reply'[r] = answer /\ req' = req
      /\ \A q \in Requests \ {r} : pc'[q] = pc[q] /\ reply'[q] = reply[q]
      /\ req[r].op = "start" /\ p # TestPhone /\ sent[r] = None /\ ended[r] = "no"
      /\ \A x \in Phones : live[x] # r
      /\ \A x \in Requests : sent[x] # r
  BY DEF IInv, TypeOK, Moves, Placed, Underway
<1>3. /\ live[p] \in Requests /\ ended[live[p]] = "no" /\ Phone(live[p]) = p
      /\ ended'[live[p]] = r
      /\ \A v \in Requests \ {live[p]} : ended'[v] = ended[v]
      /\ live'[p] = None
      /\ \A x \in Phones \ {p} : live'[x] = live[x]
      /\ \A x \in Phones : Pending(x)'
      /\ sent' = sent /\ disturbed \subseteq disturbed'
      /\ \A q \in Retrying(p) \ {r} : q \in disturbed'
  BY <1>1, <1>2, EndFacts
<1>4. ASSUME NEW q \in Requests
      PROVE  Placed(q)'
  <2>1. Placed(q)
    BY DEF IInv
  <2>2. pc[q] \in Underway \cup {"idle"} => q # live[p]
    BY <1>1, <2>1 DEF Placed
  <2>3. pc[q] \in Underway \cup {"idle"} =>
          ended'[q] = ended[q] /\ \A x \in Phones : live'[x] # q
    BY <1>1, <1>3, <2>1, <2>2 DEF Placed
  <2>4. QED
    BY <1>1, <1>2, <1>3, <2>1, <2>3 DEF Placed, Phone, Underway, Moves
<1>5. ASSUME NEW q \in Requests
      PROVE  Delivered(q)'
  BY <1>1, <1>2, EndDelivered
<1>6. ASSUME NEW v \in Requests
      PROVE  Cancelled(v)'
  <2>1. Cancelled(v)
    BY DEF IInv
  <2>2. CASE v = live[p]
    BY <1>1, <1>2, <1>3, <2>2 DEF Cancelled, Phone
  <2>3. CASE v # live[p]
    BY <1>1, <1>2, <1>3, <2>1, <2>3 DEF Cancelled, Phone
  <2>4. QED
    BY <2>2, <2>3
<1>7. ASSUME NEW q \in Requests
      PROVE  Undisturbed(q)'
  <2>1. Phone(q) \in Phones /\ Undisturbed(q)
    BY PhoneType DEF IInv
  <2>2. CASE q = r
    BY <1>2, <1>3, <2>2 DEF Undisturbed, Phone, Moves
  <2>3. CASE q # r
    BY <1>2, <1>3, <2>1, <2>3 DEF Undisturbed, Phone, Moves, Retrying
  <2>4. QED
    BY <2>2, <2>3
<1>8. TokenIsEarned'
  BY <1>1, <1>2, <1>3 DEF IInv, TokenIsEarned, TestData, Phone
<1>9. QED
  BY <1>3, <1>4, <1>5, <1>6, <1>7, <1>8 DEF IInv

\* A code is used, by r, or expires, when nobody moves.
LEMMA UseStep ==
  ASSUME IInv, TypeOK', NEW p \in Phones, NEW how \in {"used", "expired"},
         End(p, how, {}), req' = req, failed' = failed,
         \/ UNCHANGED <<pc, reply>>
         \/ \E r \in Requests, answer \in {"ok", "badRequest"} :
              /\ pc[r] = "idle" /\ req[r].op = "verify"
              /\ pc' = [pc EXCEPT ![r] = "done"]
              /\ reply' = [reply EXCEPT ![r] = answer]
              /\ answer = "ok" => /\ ~TestData(r) /\ how = "used"
                                  /\ p = Phone(r) /\ req[r].code = live[p]
  PROVE  IInv'
<1>1. None \notin Requests /\ how \notin Requests /\ how # "no"
  BY VerificationAssumption
<1>2. /\ live[p] \in Requests /\ ended[live[p]] = "no" /\ Phone(live[p]) = p
      /\ ended'[live[p]] = how
      /\ \A v \in Requests \ {live[p]} : ended'[v] = ended[v]
      /\ live'[p] = None
      /\ \A x \in Phones \ {p} : live'[x] = live[x]
      /\ \A x \in Phones : Pending(x)'
      /\ sent' = sent /\ disturbed \subseteq disturbed'
      /\ \A q \in Retrying(p) \ {} : q \in disturbed'
  BY <1>1, EndFacts
<1>3. ASSUME NEW q \in Requests
      PROVE  /\ pc[q] \in Underway => pc'[q] = pc[q]
             /\ pc'[q] \in Underway \cup {"idle"} =>
                  pc'[q] = pc[q] /\ reply'[q] = reply[q]
             /\ pc[q] \notin {"idle"} => pc'[q] = pc[q]
             /\ reply'[q] # reply[q] => pc'[q] = "done"
             /\ pc[q] = "done" => pc'[q] = "done"
             /\ req[q].op = "start" => reply'[q] = reply[q] /\ pc'[q] = pc[q]
  BY <1>3 DEF IInv, TypeOK, Underway
<1>4. ASSUME NEW q \in Requests
      PROVE  Placed(q)'
  <2>1. Placed(q)
    BY DEF IInv
  <2>2. pc[q] \in Underway \cup {"idle"} => q # live[p]
    BY <2>1 DEF Placed
  <2>3. pc[q] \in Underway \cup {"idle"} =>
          ended'[q] = ended[q] /\ \A x \in Phones : live'[x] # q
    BY <1>1, <1>2, <2>1, <2>2 DEF Placed
  <2>4. QED
    BY <1>2, <1>3, <2>1, <2>3 DEF Placed, Phone, Underway
<1>5. ASSUME NEW q \in Requests
      PROVE  Delivered(q)'
  BY <1>1, <1>3, EndDelivered
<1>6. ASSUME NEW v \in Requests
      PROVE  Cancelled(v)'
  <2>1. Cancelled(v)
    BY DEF IInv
  <2>2. CASE v = live[p]
    BY <1>1, <1>2, <2>2 DEF Cancelled
  <2>3. CASE v # live[p]
    BY <1>2, <1>3, <2>1, <2>3 DEF Cancelled, Phone
  <2>4. QED
    BY <2>2, <2>3
<1>7. ASSUME NEW q \in Requests
      PROVE  Undisturbed(q)'
  <2>1. Phone(q) \in Phones /\ Undisturbed(q)
    BY PhoneType DEF IInv
  <2>2. pc[q] = pc'[q] \/ pc'[q] \notin {"cancel", "recreate"}
    BY <1>3 DEF Underway
  <2>3. q \notin disturbed' /\ pc'[q] \in {"cancel", "recreate"}
          => live'[Phone(q)] = live[Phone(q)] /\ q \notin disturbed
    BY <1>2, <2>1, <2>2 DEF Retrying
  <2>4. QED
    BY <1>2, <1>3, <2>1, <2>2, <2>3 DEF Undisturbed, Phone
<1>8. TokenIsEarned'
  <2>1. ASSUME NEW q \in Requests, req[q].op = "verify", reply[q] = "ok", ~TestData(q)
        PROVE  req[q].code # live[p] /\ ended[req[q].code] = "used"
    BY <1>2, <2>1 DEF IInv, TokenIsEarned
  <2>2. CASE UNCHANGED <<pc, reply>>
    BY <1>2, <2>1, <2>2 DEF IInv, TokenIsEarned, TestData, Phone
  <2>3. ASSUME NEW r \in Requests, NEW answer \in {"ok", "badRequest"},
               pc[r] = "idle", req[r].op = "verify",
               reply' = [reply EXCEPT ![r] = answer],
               answer = "ok" => /\ ~TestData(r) /\ how = "used"
                                /\ p = Phone(r) /\ req[r].code = live[p]
        PROVE  TokenIsEarned'
    <3>1. /\ reply'[r] = answer /\ reply[r] = "none"
          /\ \A q \in Requests \ {r} : reply'[q] = reply[q]
      BY <2>3 DEF IInv, TypeOK, Placed, Underway
    <3>2. QED
      BY <1>2, <2>1, <2>3, <3>1 DEF IInv, TokenIsEarned, TestData, Phone
  <2>4. QED
    BY <2>2, <2>3
<1>9. QED
  BY <1>2, <1>4, <1>5, <1>6, <1>7, <1>8 DEF IInv

-----------------------------------------------------------------------------
(* Each action *)

LEMMA CrashStep ==
  ASSUME IInv, TypeOK', Crash
  PROVE  IInv'
<1>1. /\ UNCHANGED <<req, reply, live, sends, sent, ended, disturbed, failed>>
      /\ \A q \in Requests :
           \/ pc'[q] = pc[q]
           \/ pc'[q] = "dead" /\ pc[q] \notin {"idle", "done"}
      /\ \A q \in Requests : pc'[q] \notin Underway
  BY DEF IInv, TypeOK, Crash, twilio, Underway
<1>2. ASSUME NEW q \in Requests
      PROVE  Placed(q)' /\ Delivered(q)' /\ Cancelled(q)' /\ Undisturbed(q)'
  BY <1>1, <1>2
     DEF IInv, TypeOK, Placed, Delivered, Cancelled, Undisturbed, Underway, Phone
<1>3. QED
  BY <1>1, <1>2 DEF IInv, Pending, TokenIsEarned, TestData, Phone

LEMMA StepIInv ==
  ASSUME IInv, [Next]_vars
  PROVE  IInv'
<1>1. TypeOK'
  BY TypeStep DEF IInv
<1>2. ASSUME NEW r \in Requests
      PROVE  Phone(r) \in Phones /\ req[r].op \in {"start", "verify"} /\ Placed(r)
  BY PhoneType DEF IInv
<1>3. ASSUME NEW r \in Requests, Receive(r)
      PROVE  IInv'
  <2>1. \E label \in {"create", "done"}, answer \in {"none", "ok", "badRequest"} :
          /\ Moves(r, label, answer)
          /\ answer = "ok" => Phone(r) = TestPhone
    BY <1>2, <1>3 DEF Receive, Goto, Finish, Moves, Placed, Underway, IInv, TypeOK
  <2>2. QED
    BY <1>1, <1>3, <2>1, QuietStep DEF Receive, Underway
<1>4. ASSUME NEW r \in Requests, Create(r)
      PROVE  IInv'
  <2>1. pc[r] = "create" /\ req[r].op = "start" /\ reply[r] = "none"
    BY <1>2, <1>4 DEF Create, Placed, Underway
  <2>2. \/ SendCode(r) /\ \E answer \in {"ok", "badRequest"} : Moves(r, "done", answer)
        \/ UNCHANGED twilio /\ Moves(r, "done", "badRequest")
        \/ /\ UNCHANGED twilio /\ live[Phone(r)] # None
           /\ Moves(r, "cancel", "none")
    BY <1>2, <1>4, <2>1
       DEF Create, LimitReached, Goto, Finish, Moves, Placed, Underway, IInv, TypeOK
  <2>3. QED
    BY <1>1, <2>1, <2>2, QuietStep, SendStep
<1>5. ASSUME NEW r \in Requests, Cancel(r)
      PROVE  IInv'
  <2>1. pc[r] = "cancel" /\ req[r].op = "start" /\ reply[r] = "none"
    BY <1>2, <1>5 DEF Cancel, Placed, Underway
  <2>2. \/ End(Phone(r), r, {r}) /\ Moves(r, "recreate", "none")
        \/ /\ UNCHANGED twilio /\ Moves(r, "done", "serverError")
           /\ live[Phone(r)] = None \/ r \in failed'
        \/ /\ End(Phone(r), r, {r}) /\ Moves(r, "done", "serverError")
           /\ r \in failed'
    BY <1>2, <1>5, <2>1
       DEF Cancel, Goto, Finish, Fails, Moves, Placed, Underway, IInv, TypeOK
  <2>3. live[Phone(r)] = None => r \in disturbed
    BY <2>1 DEF IInv, Undisturbed
  <2>4. QED
    BY <1>1, <2>1, <2>2, <2>3, QuietStep, CancelStep
<1>6. ASSUME NEW r \in Requests, Recreate(r)
      PROVE  IInv'
  <2>1. pc[r] = "recreate" /\ req[r].op = "start" /\ reply[r] = "none"
    BY <1>2, <1>6 DEF Recreate, Placed, Underway
  <2>2. \/ SendCode(r) /\ \E answer \in {"ok", "badRequest", "serverError"} :
                            /\ Moves(r, "done", answer)
                            /\ answer = "serverError" => r \in failed'
        \/ UNCHANGED twilio /\ \E answer \in {"badRequest", "serverError"} :
                            /\ Moves(r, "done", answer)
                            /\ live[Phone(r)] # None \/ r \in failed'
    BY <1>2, <1>6, <2>1
       DEF Recreate, LimitReached, Finish, Fails, Moves, Placed, Underway, IInv, TypeOK
  <2>3. live[Phone(r)] # None => r \in disturbed
    BY <2>1 DEF IInv, Undisturbed
  <2>4. QED
    BY <1>1, <2>1, <2>2, <2>3, QuietStep, SendStep
<1>7. ASSUME NEW r \in Requests, CheckCode(r)
      PROVE  IInv'
  <2>1. pc[r] = "idle" /\ req[r].op = "verify" /\ reply[r] = "none"
    BY <1>2, <1>7 DEF CheckCode, Placed, Underway
  <2>2. CASE UNCHANGED twilio
    <3>1. \E answer \in {"ok", "badRequest"} :
            Moves(r, "done", answer) /\ (answer = "ok" => TestData(r))
      BY <1>2, <1>7, <2>1, <2>2, EndFacts, VerificationAssumption
         DEF CheckCode, Approve, End, twilio, Finish, Moves, Placed, Underway, IInv,
             TypeOK
    <3>2. QED
      BY <1>1, <2>1, <2>2, <3>1, QuietStep
  <2>3. CASE Approve(r) /\ ~TestData(r)
    <3>1. /\ req' = req /\ failed' = failed /\ pc' = [pc EXCEPT ![r] = "done"]
          /\ \E answer \in {"ok", "badRequest"} :
               reply' = [reply EXCEPT ![r] = answer]
      BY <1>7, <2>3 DEF CheckCode, Finish
    <3>2. End(Phone(r), "used", {}) /\ req[r].code = live[Phone(r)]
      BY <2>3 DEF Approve
    <3>3. QED
      BY <1>1, <1>2, <2>1, <2>3, <3>1, <3>2, UseStep
  <2>4. QED
    BY <1>7, <2>2, <2>3 DEF CheckCode
<1>8. ASSUME NEW p \in Phones, Expire(p)
      PROVE  IInv'
  BY <1>1, <1>8, UseStep DEF Expire
<1>9. CASE Crash
  BY <1>1, <1>9, CrashStep
<1>10. CASE UNCHANGED vars
  BY <1>10 DEF vars, twilio, IInv, TypeOK, Placed, Delivered, Cancelled, Undisturbed,
               Pending, TokenIsEarned, TestData, Phone
<1>11. QED
  BY <1>3, <1>4, <1>5, <1>6, <1>7, <1>8, <1>9, <1>10 DEF Next, Step

LEMMA Invariance == Spec => []IInv
BY InitIInv, StepIInv, PTL DEF Spec

-----------------------------------------------------------------------------
(* The theorems *)

\* The handlers and Twilio stay within their types.
THEOREM TypeCorrect == Spec => []TypeOK
<1>1. IInv => TypeOK
  BY DEF IInv
<1>2. QED
  BY <1>1, Invariance, PTL

\* However many requests race at the limit, the code of a start that was
\* answered ok works until it is used, expires or is replaced by another start.
THEOREM AnsweredCodes == Spec => []AnsweredCodeWorks
<1>1. ASSUME IInv
      PROVE  AnsweredCodeWorks
  <2>1. SUFFICES ASSUME NEW r \in Requests, req[r].op = "start",
                        reply[r] = "ok", Phone(r) # TestPhone,
                        live[Phone(r)] # sent[r],
                        ended[sent[r]] \notin {"used", "expired"}
                 PROVE  \E q \in Requests \ {r} :
                          /\ sent[r] # None /\ ended[sent[r]] = q
                          /\ Phone(q) = Phone(r)
                          /\ reply[q] = "ok" => sent[q] \notin {None, sent[r]}
    BY <1>1 DEF AnsweredCodeWorks, IInv, Delivered
  <2>2. /\ sent[r] \in Requests /\ Phone(sent[r]) = Phone(r)
        /\ ended[sent[r]] \in Requests
    BY <1>1, <2>1 DEF IInv, TypeOK, Delivered
  <2>3. PICK q \in Requests : q = ended[sent[r]]
    BY <2>2
  <2>4. /\ Phone(q) = Phone(sent[r]) /\ sent[q] # sent[r]
        /\ req[q].op = "start" /\ Phone(q) # TestPhone
    BY <1>1, <2>2, <2>3 DEF IInv, Cancelled
  <2>5. reply[q] = "ok" => sent[q] # None
    BY <1>1, <2>4 DEF IInv, Delivered
  <2>6. QED
    BY <1>1, <2>1, <2>2, <2>3, <2>4, <2>5 DEF IInv, Delivered
<1>2. QED
  BY <1>1, Invariance, PTL

\* A start that meets the limit fails only when a call to Twilio does, or when
\* another touched the number since.
THEOREM Retries == Spec => []RetryFailsOnlyDisturbed
<1>1. IInv => RetryFailsOnlyDisturbed
  BY DEF IInv, Undisturbed, RetryFailsOnlyDisturbed
<1>2. QED
  BY <1>1, Invariance, PTL

\* A token was paid for with a code sent to the number, and no code twice.
THEOREM Tokens == Spec => []TokenIsEarned
<1>1. IInv => TokenIsEarned
  BY DEF IInv
<1>2. QED
  BY <1>1, Invariance, PTL

-----------------------------------------------------------------------------
(* Refinement of OneTimeCodes *)

\* The answers that carry a token, the test number's apart.
Earners == {r \in Requests : req[r].op = "verify" /\ reply[r] = "ok" /\ ~TestData(r)}

Over == {v \in Requests : ended[v] # "no"}

Tokened == {[client |-> r, phone |-> Phone(r), code |-> req[r].code] : r \in Earners}

Codes == INSTANCE OneTimeCodes
  WITH Codes <- Requests,
       Clients <- Requests,
       pending <- live,
       over <- Over,
       tokens <- Tokened

\* Verifications at Twilio, whatever handlers do to them, are one-time codes.
ImplementsCodes == Codes!Spec

LEMMA InitCodes ==
  ASSUME Init
  PROVE  Codes!Init
BY DEF Init, Codes!Init, Over, Tokened, Earners

\* Who earned what depends on the answers to verifications only.
LEMMA TokensKept ==
  ASSUME req' = req,
         \A q \in Requests : req[q].op = "verify" /\ ~TestData(q)
                               => (reply'[q] = "ok" <=> reply[q] = "ok")
  PROVE  Tokened' = Tokened
<1>1. Earners' = Earners
  BY DEF Earners, TestData, Phone
<1>2. QED
  BY <1>1 DEF Tokened, Phone

\* The end of a verification is the end of a code.
LEMMA EndEnds ==
  ASSUME IInv, NEW p \in Phones, NEW how, NEW by, how # "no", req' = req,
         End(p, how, by)
  PROVE  Codes!End(p)
<1>1. /\ live[p] # None /\ live' = [live EXCEPT ![p] = None]
      /\ live[p] \in Requests
      /\ ended' = [ended EXCEPT ![live[p]] = how]
  BY EndFacts DEF End
<1>2. Over' = Over \cup {live[p]}
  BY <1>1 DEF IInv, TypeOK, Over
<1>3. QED
  BY <1>1, <1>2 DEF Codes!End

\* A code that is sent is a new one, or the one in force.
LEMMA SendIssues ==
  ASSUME IInv, NEW r \in Requests, pc[r] \in {"create", "recreate"}, SendCode(r),
         Tokened' = Tokened
  PROVE  [Codes!Next]_(Codes!cvars)
<1>1. /\ ended' = ended /\ Phone(r) \in Phones
      /\ ended[r] = "no" /\ \A p \in Phones : live[p] # r
  BY PhoneType DEF SendCode, IInv, Placed, Underway
<1>2. Over' = Over /\ r \notin Over
  BY <1>1 DEF Over
<1>3. CASE live[Phone(r)] = None /\ live' = [live EXCEPT ![Phone(r)] = r]
  BY <1>1, <1>2, <1>3 DEF Codes!Next, Codes!Issue
<1>4. CASE live' = live
  BY <1>2, <1>4 DEF Codes!cvars
<1>5. QED
  BY <1>3, <1>4 DEF SendCode

LEMMA StepCodes ==
  ASSUME IInv, [Next]_vars
  PROVE  [Codes!Next]_(Codes!cvars)
<1>1. /\ TypeOK /\ req' = req
      /\ \A r \in Requests : reply[r] # "none" => pc[r] = "done"
  BY DEF IInv, Placed, Next, Step, Receive, Create, Cancel, Recreate, CheckCode,
         Expire, Crash, vars
<1>2. ASSUME UNCHANGED <<live, ended>>, Tokened' = Tokened
      PROVE  [Codes!Next]_(Codes!cvars)
  BY <1>2 DEF Codes!cvars, Over
<1>3. ASSUME NEW p \in Phones, NEW how, NEW by, how # "no", End(p, how, by),
             Tokened' = Tokened
      PROVE  [Codes!Next]_(Codes!cvars)
  BY <1>1, <1>3, EndEnds DEF Codes!Next, Codes!Lapse
<1>4. ASSUME NEW r \in Requests, Receive(r) \/ Create(r) \/ Cancel(r) \/ Recreate(r)
      PROVE  [Codes!Next]_(Codes!cvars)
  <2>1. req[r].op = "start" /\ \A q \in Requests \ {r} : reply'[q] = reply[q]
    BY <1>1, <1>4 DEF IInv, TypeOK, Placed, Underway, Receive, Create, Cancel, Recreate,
       Goto, Finish
  <2>2. Tokened' = Tokened
    BY <1>1, <2>1, TokensKept
  <2>3. CASE Receive(r)
    BY <1>2, <2>2, <2>3 DEF Receive, twilio
  <2>4. CASE Create(r) \/ Recreate(r)
    <3>1. SendCode(r) \/ UNCHANGED twilio
      BY <2>4 DEF Create, Recreate
    <3>2. pc[r] \in {"create", "recreate"}
      BY <2>4 DEF Create, Recreate
    <3>3. QED
      BY <1>2, <2>2, <3>1, <3>2, SendIssues DEF twilio
  <2>5. CASE Cancel(r)
    <3>1. End(Phone(r), r, {r}) \/ UNCHANGED twilio
      BY <2>5 DEF Cancel
    <3>2. Phone(r) \in Phones /\ r # "no"
      BY <1>1, PhoneType, VerificationAssumption
    <3>3. QED
      BY <1>2, <1>3, <2>2, <3>1, <3>2 DEF twilio
  <2>6. QED
    BY <1>4, <2>3, <2>4, <2>5
<1>5. ASSUME NEW r \in Requests, CheckCode(r)
      PROVE  [Codes!Next]_(Codes!cvars)
  <2>1. /\ req[r].op = "verify" /\ reply[r] = "none"
        /\ \A q \in Requests \ {r} : reply'[q] = reply[q]
        /\ Phone(r) \in Phones
    BY <1>1, <1>5, PhoneType DEF CheckCode, Finish, TypeOK
  <2>2. CASE ~TestData(r) /\ reply'[r] = "ok"
    <3>1. Approve(r)
      BY <1>1, <1>5, <2>2 DEF CheckCode, Finish, TypeOK
    <3>2. Codes!End(Phone(r)) /\ req[r].code = live[Phone(r)]
      BY <1>1, <2>1, <3>1, EndEnds DEF Approve
    <3>3. Earners' = Earners \cup {r}
      BY <1>1, <2>1, <2>2 DEF Earners, TestData, Phone
    <3>4. \A q \in Requests : req'[q].code = req[q].code /\ Phone(q)' = Phone(q)
      BY <1>1 DEF Phone
    <3>5. Tokened' = Tokened \cup {[client |-> r, phone |-> Phone(r),
                                    code |-> live[Phone(r)]]}
      BY <3>2, <3>3, <3>4 DEF Tokened, Earners
    <3>6. Codes!Redeem(Phone(r), r)
      BY <3>2, <3>5 DEF Codes!Redeem
    <3>7. QED
      BY <2>1, <3>6 DEF Codes!Next
  <2>3. CASE TestData(r) \/ reply'[r] # "ok"
    <3>1. Tokened' = Tokened
      BY <1>1, <2>1, <2>3, TokensKept
    <3>2. End(Phone(r), "used", {}) \/ UNCHANGED twilio
      BY <1>5 DEF CheckCode, Approve
    <3>3. QED
      BY <1>2, <1>3, <2>1, <3>1, <3>2 DEF twilio
  <2>4. QED
    BY <2>2, <2>3
<1>6. ASSUME UNCHANGED <<reply>>
      PROVE  Tokened' = Tokened
  BY <1>1, <1>6, TokensKept
<1>7. ASSUME NEW p \in Phones, Expire(p)
      PROVE  [Codes!Next]_(Codes!cvars)
  BY <1>3, <1>6, <1>7 DEF Expire
<1>8. CASE Crash \/ UNCHANGED vars
  BY <1>2, <1>6, <1>8 DEF Crash, vars, twilio
<1>9. QED
  BY <1>4, <1>5, <1>7, <1>8 DEF Next, Step

\* Every code a number is sent has one life, and one token at most.
THEOREM CodesAreOneTime == Spec => ImplementsCodes
<1>1. Init => Codes!Init
  BY InitCodes
<1>2. IInv /\ [Next]_vars => [Codes!Next]_(Codes!cvars)
  BY StepCodes
<1>3. QED
  BY <1>1, <1>2, Invariance, PTL DEF Spec, ImplementsCodes, Codes!Spec

\* The promise, seen from the abstract specification.
THEOREM OneTokenEach == Spec => []Codes!OneTokenPerCode
<1>1. Codes!Init => Codes!Inv
  BY VerificationAssumption DEF Codes!Init, Codes!Inv, Codes!OneTokenPerCode
<1>2. TypeOK /\ Codes!Inv /\ [Codes!Next]_(Codes!cvars) => Codes!Inv'
  <2>1. ASSUME TypeOK, Codes!Inv, NEW p \in Phones, NEW c \in Requests, Codes!Issue(p, c)
        PROVE  Codes!Inv'
    BY <2>1, VerificationAssumption
       DEF TypeOK, Codes!Inv, Codes!Issue, Codes!OneTokenPerCode
  <2>2. ASSUME TypeOK, Codes!Inv, NEW p \in Phones, Codes!Lapse(p)
        PROVE  Codes!Inv'
    BY <2>2 DEF TypeOK, Codes!Inv, Codes!Lapse, Codes!End, Codes!OneTokenPerCode
  <2>3. ASSUME TypeOK, Codes!Inv, NEW p \in Phones, NEW k \in Requests, Codes!Redeem(p, k)
        PROVE  Codes!Inv'
    BY <2>3 DEF TypeOK, Codes!Inv, Codes!Redeem, Codes!End, Codes!OneTokenPerCode
  <2>4. ASSUME Codes!Inv, UNCHANGED Codes!cvars
        PROVE  Codes!Inv'
    BY <2>4 DEF Codes!Inv, Codes!cvars, Codes!OneTokenPerCode
  <2>5. QED
    BY <2>1, <2>2, <2>3, <2>4 DEF Codes!Next
<1>3. Codes!Inv => Codes!OneTokenPerCode
  BY DEF Codes!Inv
<1>4. QED
  BY <1>1, <1>2, <1>3, CodesAreOneTime, TypeCorrect, PTL DEF ImplementsCodes, Codes!Spec
=============================================================================

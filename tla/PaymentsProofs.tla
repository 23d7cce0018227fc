--------------------------- MODULE PaymentsProofs ---------------------------
(***************************************************************************)
(* Machine-checked proofs about Payments, for every set of requests, users *)
(* and amounts, and for both kinds of ledger and of gateway.               *)
(***************************************************************************)
EXTENDS Payments, TLAPS

-----------------------------------------------------------------------------
(* Facts about the operators *)

\* A request asks for a positive amount in the name of a user.
LEMMA RequestFields ==
  ASSUME NEW q \in PaymentRequest
  PROVE  /\ q.amount \in Nat \ {0}
         /\ q.user \in Users
         /\ q.kind \in DirectKinds \cup GatewayKinds
BY PaymentsAssumption DEF PaymentRequest

\* What an entry contributes to a balance is an integer.
LEMMA ValueIsInteger ==
  ASSUME NEW q \in PaymentRequest, NEW u, NEW s
  PROVE  Value(q, u, s) \in Int
BY RequestFields DEF Value, Inflow, Outflow

\* An error is always answered with one of two codes.
LEMMA ErrorReplies ==
  ASSUME NEW kind, NEW e
  PROVE  ErrorReply(kind, e) \in {"badRequest", "serverError"}
BY DEF ErrorReply

\* Deposits and airtime purchases answer a 400 only to the gateway's error,
\* withdrawals to the ledger's too.
LEMMA OnlyGatewayErrorsAreHandled ==
  ASSUME NEW kind \in GatewayKinds, NEW e
  PROVE  ErrorReply(kind, e) = "badRequest"
           <=> e = "gateway" \/ (kind = "withdrawal" /\ e = "ledger")
BY DEF ErrorReply, HandledErrors, DirectKinds, GatewayKinds

\* Posting keeps the ledger's types.
LEMMA PostType ==
  ASSUME TypeOK, NEW r \in Requests,
         NEW s \in {"Pending", "Complete", "Failed"}, Post(r, s)
  PROVE  /\ status' \in [Requests -> {"absent", "Pending", "Complete", "Failed"}]
         /\ available' \in [Users -> Int]
<1>1. \A u \in Users : /\ Value(req[r], u, s) \in Int
                       /\ Value(req[r], u, status[r]) \in Int
  BY ValueIsInteger DEF TypeOK
<1>2. QED
  BY <1>1 DEF Post, TypeOK

-----------------------------------------------------------------------------
(* Type correctness *)

LEMMA TypeStep ==
  ASSUME TypeOK, [Next]_vars
  PROVE  TypeOK'
<1>1. ASSUME NEW r \in Requests, Receive(r)
      PROVE  TypeOK'
  BY <1>1 DEF Receive, Goto, TypeOK
<1>2. ASSUME NEW r \in Requests, CreateTransaction(r)
      PROVE  TypeOK'
  <2>1. InitialStatus(req[r].kind) \in {"Pending", "Complete", "Failed"}
    BY DEF InitialStatus
  <2>2. /\ status' \in [Requests -> {"absent", "Pending", "Complete", "Failed"}]
        /\ available' \in [Users -> Int]
    BY <1>2, <2>1, PostType DEF CreateTransaction
  <2>3. QED
    BY <1>2, <2>2, ErrorReplies DEF CreateTransaction, Goto, Fail, Finish, TypeOK
<1>3. ASSUME NEW r \in Requests, RejectTransaction(r)
      PROVE  TypeOK'
  BY <1>3, ErrorReplies DEF RejectTransaction, Fail, Finish, TypeOK
<1>4. ASSUME NEW r \in Requests, CallGateway(r)
      PROVE  TypeOK'
  BY <1>4, ErrorReplies DEF CallGateway, Goto, Fail, Finish, TypeOK, Errors
<1>5. ASSUME NEW r \in Requests, GatewayAnswers(r)
      PROVE  TypeOK'
  BY <1>5 DEF GatewayAnswers, Finish, TypeOK
<1>6. ASSUME NEW r \in Requests, GatewayCallFails(r)
      PROVE  TypeOK'
  BY <1>6 DEF GatewayCallFails, Goto, TypeOK, Errors
<1>7. ASSUME NEW r \in Requests, Compensate(r)
      PROVE  TypeOK'
  <2>1. /\ status' \in [Requests -> {"absent", "Pending", "Complete", "Failed"}]
        /\ available' \in [Users -> Int]
    <3>1. CASE Post(r, "Failed")
      BY <3>1, PostType
    <3>2. CASE UNCHANGED <<status, available>>
      BY <3>2 DEF TypeOK
    <3>3. QED
      BY <1>7, <3>1, <3>2 DEF Compensate
  <2>2. QED
    BY <1>7, <2>1, ErrorReplies DEF Compensate, Throw, Fail, Finish, TypeOK, Errors
<1>8. ASSUME NEW r \in Requests, Webhook(r)
      PROVE  TypeOK'
  <2>1. RehiveStatus(gateway[r]) \in {"Pending", "Complete", "Failed"}
    BY DEF RehiveStatus
  <2>2. /\ status' \in [Requests -> {"absent", "Pending", "Complete", "Failed"}]
        /\ available' \in [Users -> Int]
    BY <1>8, <2>1, PostType DEF Webhook
  <2>3. QED
    BY <1>8, <2>2 DEF Webhook, TypeOK
<1>9. ASSUME NEW r \in Requests, Gateway(r)
      PROVE  TypeOK'
  BY <1>9 DEF Gateway, GatewayAccepts, GatewayRefuses, GatewayDecides,
              GatewayMoves, TypeOK
<1>10. ASSUME Crash
       PROVE  TypeOK'
  BY <1>10 DEF Crash, TypeOK
<1>11. CASE UNCHANGED vars
  BY <1>11 DEF vars, TypeOK
<1>12. QED
  BY <1>1, <1>2, <1>3, <1>4, <1>5, <1>6, <1>7, <1>8, <1>9, <1>10, <1>11
     DEF Next, Handler

LEMMA InitTypeOK ==
  ASSUME Init
  PROVE  TypeOK
<1>1. available \in [Users -> Int]
  <2>1. InitialFunds \subseteq Int
    BY PaymentsAssumption
  <2>2. available \in [Users -> InitialFunds]
    BY DEF Init
  <2>3. QED
    BY <2>1, <2>2
<1>2. QED
  BY <1>1 DEF Init, TypeOK

\* Every variable keeps its type, whatever the ledger and the gateway do.
THEOREM TypeCorrect == Spec => []TypeOK
BY InitTypeOK, TypeStep, PTL DEF Spec

-----------------------------------------------------------------------------
(* The inductive invariant *)

\* What the place of a handler says of the entry and of the gateway.
Stage(r) ==
  /\ pc[r] \in {"idle", "ledger"} => status[r] = "absent" /\ gateway[r] = "none"
  /\ pc[r] = "created"
       => /\ req[r].kind \in GatewayKinds
          /\ status[r] = "Pending"
          /\ gateway[r] = "none"
  /\ pc[r] = "gateway" => gateway[r] # "none"
  /\ pc[r] = "compensate"
       => req[r].kind \in GatewayKinds /\ status[r] # "absent"
  /\ reply[r] # "none" => pc[r] = "done"
  /\ gateway[r] # "none"
       => req[r].kind \in GatewayKinds /\ status[r] # "absent"

\* A completed entry is backed by money.
Backed(r) ==
  req[r].kind \in GatewayKinds /\ status[r] = "Complete" => gateway[r] = "succeeded"

\* A handler that has not compensated leaves failing to the gateway.
Uncompensated(r) ==
  req[r].kind \in GatewayKinds /\ (pc[r] = "gateway" \/ reply[r] = "ok")
    => gateway[r] # "none" /\ (status[r] = "Failed" => gateway[r] = "failed")

\* Either the ledger does not reopen a settled entry, or the gateway's errors
\* are true.
Trustworthy == SettledIsFinal \/ ~LostReplies

\* A 400 that quotes the gateway follows the compensation.
Released(r) ==
  Trustworthy =>
    /\ pc[r] = "compensate" /\ error[r] = "gateway"
         => LostReplies \/ gateway[r] = "refused"
    /\ req[r].kind \in GatewayKinds /\ reply[r] = "badRequest"
         => \/ status[r] = "Failed" /\ (LostReplies \/ gateway[r] = "refused")
            \/ req[r].kind = "withdrawal" /\ error[r] # "gateway"
    /\ pc[r] \in {"idle", "ledger", "created"} => error[r] = "none"

\* When the gateway's errors are true, only what it never took is compensated.
Honest(r) ==
  ~LostReplies =>
    /\ req[r].kind \in GatewayKinds /\ status[r] = "Failed"
         => gateway[r] \in {"none", "refused", "failed"}
    /\ pc[r] = "compensate"
         => gateway[r] \in {"none", "refused"} /\ status[r] = "Pending"

RequestInv(r) ==
  Stage(r) /\ Backed(r) /\ Uncompensated(r) /\ Released(r) /\ Honest(r)

IInv == TypeOK /\ \A r \in Requests : RequestInv(r)

LEMMA InitIInv ==
  ASSUME Init
  PROVE  IInv
<1>1. TypeOK
  BY InitTypeOK
<1>2. ASSUME NEW r \in Requests
      PROVE  RequestInv(r)
  BY DEF Init, RequestInv, Stage, Backed, Uncompensated, Released, Honest
<1>3. QED
  BY <1>1, <1>2 DEF IInv

\* A request whose own state does not change keeps its invariant.
LEMMA RequestInvFrame ==
  ASSUME NEW q \in Requests, RequestInv(q),
         req'[q] = req[q], pc'[q] = pc[q], reply'[q] = reply[q],
         error'[q] = error[q], status'[q] = status[q], gateway'[q] = gateway[q]
  PROVE  RequestInv(q)'
BY DEF RequestInv, Stage, Backed, Uncompensated, Released, Honest, Trustworthy

\* A step of request r changes the state of no other request.
LEMMA OthersUnchanged ==
  ASSUME TypeOK, NEW r \in Requests, NEW q \in Requests, q # r,
         Receive(r) \/ Handler(r) \/ Gateway(r) \/ Webhook(r)
  PROVE  /\ req'[q] = req[q] /\ pc'[q] = pc[q] /\ reply'[q] = reply[q]
         /\ error'[q] = error[q] /\ status'[q] = status[q]
         /\ gateway'[q] = gateway[q]
<1>1. CASE Receive(r)
  BY <1>1 DEF Receive, Goto, TypeOK
<1>2. CASE CreateTransaction(r)
  BY <1>2 DEF CreateTransaction, Post, Goto, Fail, Finish, TypeOK
<1>3. CASE RejectTransaction(r)
  BY <1>3 DEF RejectTransaction, Fail, Finish, TypeOK
<1>4. CASE CallGateway(r)
  BY <1>4 DEF CallGateway, Goto, Fail, Finish, TypeOK
<1>5. CASE GatewayAnswers(r)
  BY <1>5 DEF GatewayAnswers, Finish, TypeOK
<1>6. CASE GatewayCallFails(r)
  BY <1>6 DEF GatewayCallFails, Goto, TypeOK
<1>7. CASE Compensate(r)
  BY <1>7 DEF Compensate, Throw, Post, Fail, Finish, TypeOK
<1>8. CASE Webhook(r)
  BY <1>8 DEF Webhook, Post, TypeOK
<1>9. CASE Gateway(r)
  BY <1>9 DEF Gateway, GatewayAccepts, GatewayRefuses, GatewayDecides,
              GatewayMoves, TypeOK
<1>10. QED
  BY <1>1, <1>2, <1>3, <1>4, <1>5, <1>6, <1>7, <1>8, <1>9 DEF Handler

\* A step of request r keeps the invariant of r.
LEMMA OwnStep ==
  ASSUME TypeOK, NEW r \in Requests, RequestInv(r),
         Receive(r) \/ Handler(r) \/ Gateway(r) \/ Webhook(r)
  PROVE  RequestInv(r)'
<1> USE DEF RequestInv
<1>0. req[r].kind \in DirectKinds \cup GatewayKinds
  BY RequestFields DEF TypeOK
<1>1. CASE Receive(r)
  BY <1>1 DEF Receive, Goto, TypeOK, Stage, Backed, Uncompensated, Released, Honest
<1>2. CASE CreateTransaction(r)
  <2>1. /\ pc[r] = "ledger" /\ gateway[r] = "none" /\ gateway' = gateway
        /\ req' = req /\ error' = error
        /\ reply[r] = "none"
        /\ status'[r] = InitialStatus(req[r].kind)
    BY <1>2 DEF CreateTransaction, Post, Stage, TypeOK
  <2>2. \/ /\ req[r].kind \in DirectKinds
           /\ pc'[r] = "done" /\ reply'[r] = "ok"
        \/ /\ req[r].kind \in GatewayKinds
           /\ pc'[r] = "created" /\ reply'[r] = "none"
        \/ \E e \in {"ledger", "net"} :
             pc'[r] = "done" /\ reply'[r] = ErrorReply(req[r].kind, e)
    BY <1>2, <2>1 DEF CreateTransaction, Goto, Fail, Finish, TypeOK
  <2>3. req[r].kind \in GatewayKinds => status'[r] = "Pending"
    BY <2>1 DEF InitialStatus, DirectKinds, GatewayKinds
  <2>4. status'[r] # "absent"
    BY <2>1 DEF InitialStatus
  <2>5. Stage(r)' /\ Backed(r)' /\ Uncompensated(r)' /\ Honest(r)'
    BY <2>1, <2>2, <2>3, <2>4, ErrorReplies
       DEF Stage, Backed, Uncompensated, Honest, DirectKinds, GatewayKinds
  <2>6. Released(r)'
    BY <2>1, <2>2, <2>3, OnlyGatewayErrorsAreHandled DEF Released, DirectKinds
  <2>7. QED
    BY <2>5, <2>6
<1>3. CASE RejectTransaction(r)
  <2>1. /\ pc[r] = "ledger" /\ UNCHANGED <<req, error, status, gateway>>
        /\ \E e \in {"ledger", "net"} :
             pc'[r] = "done" /\ reply'[r] = ErrorReply(req[r].kind, e)
    BY <1>3 DEF RejectTransaction, Fail, Finish, TypeOK
  <2>2. Stage(r)' /\ Backed(r)' /\ Uncompensated(r)' /\ Honest(r)'
    BY <2>1, ErrorReplies DEF Stage, Backed, Uncompensated, Honest
  <2>3. Released(r)'
    BY <2>1, OnlyGatewayErrorsAreHandled DEF Released
  <2>4. QED
    BY <2>2, <2>3
<1>4. CASE CallGateway(r)
  <2>1. /\ pc[r] = "created" /\ UNCHANGED <<req, status>>
        /\ \/ /\ pc'[r] = "done" /\ reply'[r] = ErrorReply(req[r].kind, "type")
              /\ UNCHANGED error /\ gateway'[r] = gateway[r]
           \/ /\ pc'[r] = "compensate" /\ reply' = reply
              /\ error'[r] = "type" /\ gateway'[r] = gateway[r]
           \/ /\ pc'[r] = "gateway" /\ reply' = reply /\ UNCHANGED error
              /\ gateway'[r] = "sent"
    BY <1>4 DEF CallGateway, Goto, Fail, Finish, TypeOK
  <2>2. Stage(r)' /\ Backed(r)' /\ Uncompensated(r)' /\ Honest(r)'
    BY <2>1, ErrorReplies DEF Stage, Backed, Uncompensated, Honest
  <2>3. Released(r)'
    BY <2>1, OnlyGatewayErrorsAreHandled DEF Released, Stage
  <2>4. QED
    BY <2>2, <2>3
<1>5. CASE GatewayAnswers(r)
  BY <1>5 DEF GatewayAnswers, Finish, TypeOK, Stage, Backed, Uncompensated,
              Released, Honest
<1>6. CASE GatewayCallFails(r)
  BY <1>6 DEF GatewayCallFails, Goto, TypeOK, Stage, Backed, Uncompensated,
              Released, Honest, DirectKinds
<1>7. CASE Compensate(r)
  <2>1. /\ pc[r] = "compensate" /\ pc'[r] = "done"
        /\ UNCHANGED <<req, gateway>>
        /\ \/ /\ CanUpdate(r) /\ status'[r] = "Failed"
              /\ \E e \in {error[r], "ledger", "net"} :
                   reply'[r] = ErrorReply(req[r].kind, e) /\ error'[r] = e
           \/ /\ status' = status
              /\ \E e \in {"ledger", "net"} :
                   reply'[r] = ErrorReply(req[r].kind, e) /\ error'[r] = e
    BY <1>7 DEF Compensate, Throw, Post, Fail, Finish, TypeOK
  <2>2. Stage(r)' /\ Backed(r)' /\ Uncompensated(r)' /\ Honest(r)'
    BY <2>1, ErrorReplies DEF Stage, Backed, Uncompensated, Honest
  <2>3. Released(r)'
    BY <2>1, OnlyGatewayErrorsAreHandled DEF Released, Stage
  <2>4. QED
    BY <2>2, <2>3
<1>8. CASE Webhook(r)
  <2>1. /\ gateway[r] \in {"succeeded", "failed"}
        /\ SettledIsFinal => status[r] = "Pending"
        /\ status'[r] = RehiveStatus(gateway[r])
        /\ UNCHANGED <<req, pc, reply, error, gateway>>
    BY <1>8 DEF Webhook, CanUpdate, Post, TypeOK
  <2>2. /\ gateway[r] = "succeeded" => status'[r] = "Complete"
        /\ gateway[r] = "failed" => status'[r] = "Failed"
    BY <2>1 DEF RehiveStatus
  <2>3. Stage(r)' /\ Backed(r)' /\ Uncompensated(r)'
    BY <2>1, <2>2 DEF Stage, Backed, Uncompensated
  <2>4. Honest(r)' /\ Released(r)'
    BY <2>1, <2>2 DEF Honest, Released, Trustworthy
  <2>5. QED
    BY <2>3, <2>4
<1>9. CASE Gateway(r)
  <2>1. /\ UNCHANGED <<req, pc, reply, error, status>>
        /\ \/ gateway[r] = "sent" /\ gateway'[r] \in {"accepted", "refused"}
           \/ gateway[r] = "accepted" /\ gateway'[r] \in {"succeeded", "failed"}
    BY <1>9 DEF Gateway, GatewayAccepts, GatewayRefuses, GatewayDecides,
                GatewayMoves, TypeOK
  <2>2. QED
    BY <2>1 DEF Stage, Backed, Uncompensated, Released, Honest
<1>10. QED
  BY <1>1, <1>2, <1>3, <1>4, <1>5, <1>6, <1>7, <1>8, <1>9 DEF Handler

LEMMA StepIInv ==
  ASSUME IInv, [Next]_vars
  PROVE  IInv'
<1>1. TypeOK'
  BY TypeStep DEF IInv
<1>2. ASSUME NEW q \in Requests
      PROVE  RequestInv(q)'
  <2>1. TypeOK /\ RequestInv(q)
    BY DEF IInv
  <2>2. ASSUME NEW r \in Requests,
               Receive(r) \/ Handler(r) \/ Gateway(r) \/ Webhook(r)
        PROVE  RequestInv(q)'
    <3>1. CASE q = r
      BY <2>1, <2>2, <3>1, OwnStep
    <3>2. CASE q # r
      BY <2>1, <2>2, <3>2, OthersUnchanged, RequestInvFrame
    <3>3. QED
      BY <3>1, <3>2
  <2>3. CASE Crash
    BY <2>1, <2>3 DEF Crash, TypeOK, RequestInv, Stage, Backed, Uncompensated,
                      Released, Honest
  <2>4. CASE UNCHANGED vars
    BY <2>1, <2>4, RequestInvFrame DEF vars
  <2>5. QED
    BY <2>2, <2>3, <2>4 DEF Next
<1>3. QED
  BY <1>1, <1>2 DEF IInv

LEMMA Invariance == Spec => []IInv
BY InitIInv, StepIInv, PTL DEF Spec

-----------------------------------------------------------------------------
(* Safety *)

\* A gateway payment completes in the wallet only if the money moved, whatever
\* the ledger and the gateway do.
THEOREM BackedCredit == Spec => []NoUnbackedCredit
<1>1. IInv => NoUnbackedCredit
  BY DEF IInv, RequestInv, Backed, NoUnbackedCredit
<1>2. QED
  BY <1>1, Invariance, PTL

\* A payment acknowledged to the client ends in the wallet as at the gateway,
\* even if answers are lost and settled entries can be overwritten.
THEOREM AcknowledgementsKept == Spec => []AcknowledgedSettlesAsDecided
<1>1. IInv => AcknowledgedSettlesAsDecided
  BY DEF IInv, RequestInv, Backed, Uncompensated, AcknowledgedSettlesAsDecided
<1>2. QED
  BY <1>1, Invariance, PTL

\* A 400 that quotes the gateway means that nothing is held, if the ledger keeps
\* settled entries or the gateway's errors are true.
THEOREM RefusalsRelease ==
  ASSUME Trustworthy
  PROVE  Spec => []BadRequestReleases
<1>1. IInv => BadRequestReleases
  BY DEF IInv, RequestInv, Released, BadRequestReleases
<1>2. QED
  BY <1>1, Invariance, PTL

-----------------------------------------------------------------------------
(* No overdraft *)

\* Settling a pending entry gives back at least what it holds.
LEMMA SettlingFreesFunds ==
  ASSUME NEW q \in PaymentRequest, NEW u \in Users,
         NEW s \in {"Complete", "Failed"}, q.kind \in GatewayKinds
  PROVE  Value(q, u, s) >= Value(q, u, "Pending")
BY RequestFields DEF Value, Inflow, Outflow, GatewayKinds, Outbound

\* Creating an entry takes at most its amount, and only from its own user.
LEMMA CreatingTakesOwnFunds ==
  ASSUME NEW q \in PaymentRequest, NEW u \in Users,
         NEW s \in {"Pending", "Complete"}
  PROVE  /\ Value(q, u, "absent") = 0
         /\ Value(q, u, s) >= 0 - q.amount
         /\ q.kind \notin Outbound \/ u # q.user => Value(q, u, s) >= 0
BY RequestFields DEF Value, Inflow, Outflow

\* An update that leaves the value of an entry or settles it overdraws nothing.
LEMMA PostKeepsFunds ==
  ASSUME TypeOK, NoOverdraft, NEW r \in Requests,
         NEW s \in {"Complete", "Failed"}, Post(r, s),
         req[r].kind \in GatewayKinds, status[r] \in {"Pending", s}
  PROVE  NoOverdraft'
<1>1. req[r] \in PaymentRequest
  BY DEF TypeOK
<1>2. ASSUME NEW u \in Users
      PROVE  available'[u] >= 0
  <2>1. Value(req[r], u, s) >= Value(req[r], u, status[r])
    BY <1>1, SettlingFreesFunds, ValueIsInteger
  <2>2. /\ Value(req[r], u, s) \in Int /\ Value(req[r], u, status[r]) \in Int
        /\ available[u] \in Int /\ available[u] >= 0
    BY <1>1, ValueIsInteger DEF TypeOK, NoOverdraft
  <2>3. available'[u] = available[u] + Value(req[r], u, s)
                                     - Value(req[r], u, status[r])
    BY DEF Post
  <2>4. QED
    BY <2>1, <2>2, <2>3
<1>3. QED
  BY <1>2 DEF NoOverdraft

LEMMA StepFunds ==
  ASSUME Trustworthy, IInv, NoOverdraft, [Next]_vars
  PROVE  NoOverdraft'
<1>1. TypeOK
  BY DEF IInv
<1>2. ASSUME NEW r \in Requests, CreateTransaction(r)
      PROVE  NoOverdraft'
  <2>1. req[r] \in PaymentRequest /\ status[r] = "absent"
    BY <1>2 DEF CreateTransaction, IInv, TypeOK, RequestInv, Stage
  <2>2. InitialStatus(req[r].kind) \in {"Pending", "Complete"}
    BY DEF InitialStatus
  <2>3. ASSUME NEW u \in Users
        PROVE  available'[u] >= 0
    <3> DEFINE v == Value(req[r], u, InitialStatus(req[r].kind))
    <3>1. available'[u] = available[u] + v - 0
      BY <1>2, <2>1, <2>2, CreatingTakesOwnFunds DEF CreateTransaction, Post
    <3>2. v \in Int /\ available[u] \in Int /\ available[u] >= 0
      BY <1>1, <2>1, ValueIsInteger DEF TypeOK, NoOverdraft
    <3>3. CASE req[r].kind \in Outbound /\ u = req[r].user
      <4>1. available[u] >= req[r].amount
        BY <1>2, <3>3 DEF CreateTransaction, LedgerAdmits
      <4>2. v >= 0 - req[r].amount /\ req[r].amount \in Nat
        BY <2>1, <2>2, CreatingTakesOwnFunds, RequestFields
      <4>3. QED
        BY <3>1, <3>2, <4>1, <4>2
    <3>4. CASE req[r].kind \notin Outbound \/ u # req[r].user
      <4>1. v >= 0
        BY <2>1, <2>2, <3>4, CreatingTakesOwnFunds
      <4>2. QED
        BY <3>1, <3>2, <4>1
    <3>5. QED
      BY <3>3, <3>4
  <2>4. QED
    BY <2>3 DEF NoOverdraft
<1>3. ASSUME NEW r \in Requests, Compensate(r)
      PROVE  NoOverdraft'
  <2>1. RequestInv(r) /\ pc[r] = "compensate"
    BY <1>3 DEF IInv, Compensate
  <2>2. CASE CanUpdate(r) /\ Post(r, "Failed")
    <3>1. req[r].kind \in GatewayKinds /\ status[r] = "Pending"
      BY <2>1, <2>2 DEF RequestInv, Stage, Honest, CanUpdate, Trustworthy
    <3>2. QED
      BY <1>1, <2>2, <3>1, PostKeepsFunds
  <2>3. CASE UNCHANGED <<status, available>>
    BY <2>3 DEF NoOverdraft
  <2>4. QED
    BY <1>3, <2>2, <2>3 DEF Compensate
<1>4. ASSUME NEW r \in Requests, Webhook(r)
      PROVE  NoOverdraft'
  <2> DEFINE s == RehiveStatus(gateway[r])
  <2>1. RequestInv(r) /\ status[r] \in {"absent", "Pending", "Complete", "Failed"}
    BY DEF IInv, TypeOK
  <2>2. /\ gateway[r] \in {"succeeded", "failed"}
        /\ CanUpdate(r)
        /\ Post(r, s)
    BY <1>4 DEF Webhook
  <2>3. s \in {"Complete", "Failed"} /\ (s = "Complete" <=> gateway[r] = "succeeded")
    BY DEF RehiveStatus
  <2>4. req[r].kind \in GatewayKinds /\ status[r] # "absent"
    BY <2>1, <2>2 DEF RequestInv, Stage
  <2>5. status[r] \in {"Pending", s}
    BY <2>1, <2>2, <2>3, <2>4
       DEF RequestInv, Backed, Honest, CanUpdate, Trustworthy
  <2>6. QED
    BY <1>1, <2>2, <2>3, <2>4, <2>5, PostKeepsFunds
<1>5. CASE UNCHANGED available
  BY <1>5 DEF NoOverdraft
<1>6. QED
  BY <1>2, <1>3, <1>4, <1>5
     DEF Next, vars, Handler, Receive, RejectTransaction, CallGateway,
         GatewayAnswers, GatewayCallFails, Gateway, GatewayAccepts,
         GatewayRefuses, GatewayDecides, GatewayMoves, Crash

LEMMA InitFunds ==
  ASSUME Init
  PROVE  NoOverdraft
<1>1. ASSUME NEW u \in Users
      PROVE  available[u] >= 0
  <2>1. available[u] \in InitialFunds
    BY DEF Init
  <2>2. InitialFunds \subseteq Nat
    BY PaymentsAssumption
  <2>3. available[u] \in Nat
    BY <2>1, <2>2
  <2>4. QED
    BY <2>3
<1>2. QED
  BY <1>1 DEF NoOverdraft

\* No wallet is ever overdrawn, however requests, compensations and callbacks
\* interleave, if the ledger keeps settled entries or the gateway's errors are
\* true.
THEOREM FundsNeverNegative ==
  ASSUME Trustworthy
  PROVE  Spec => []NoOverdraft
<1>1. IInv /\ NoOverdraft /\ [Next]_vars => NoOverdraft'
  BY StepFunds
<1>2. QED
  BY <1>1, InitFunds, Invariance, PTL DEF Spec

-----------------------------------------------------------------------------
(* Refinement *)

LEMMA InitRefines ==
  ASSUME Init
  PROVE  Promise!Init
BY DEF Init, Promise!Init, WalletView, MoneyView

\* The ledger entry of a request is created once, and closed by compensating
\* what the gateway never took or by the gateway's decision.
LEMMA EntryStep ==
  ASSUME ~LostReplies, IInv, [Next]_vars, NEW p \in Requests
  PROVE  \/ status'[p] = status[p]
         \/ /\ status[p] = "absent"
            /\ req[p].kind \in GatewayKinds => status'[p] = "Pending"
         \/ /\ status[p] = "Pending" /\ status'[p] = "Failed"
            /\ pc[p] = "compensate" /\ gateway[p] \in {"none", "refused"}
         \/ /\ gateway[p] \in {"succeeded", "failed"}
            /\ status[p] = "Pending"
            /\ status'[p] = RehiveStatus(gateway[p])
<1>1. TypeOK /\ RequestInv(p)
  BY DEF IInv
<1>2. CASE CreateTransaction(p)
  BY <1>1, <1>2 DEF CreateTransaction, Post, InitialStatus, TypeOK, RequestInv,
                    Stage, DirectKinds, GatewayKinds
<1>3. CASE Compensate(p)
  BY <1>1, <1>3 DEF Compensate, Post, TypeOK, RequestInv, Honest
<1>4. CASE Webhook(p)
  <2>1. /\ gateway[p] \in {"succeeded", "failed"}
        /\ status'[p] = RehiveStatus(gateway[p])
    BY <1>1, <1>4 DEF Webhook, Post, TypeOK
  <2>2. status[p] \in {"Pending", RehiveStatus(gateway[p])}
    BY <1>1, <2>1 DEF RehiveStatus, TypeOK, RequestInv, Stage, Backed, Honest
  <2>3. QED
    BY <2>1, <2>2
<1>5. ASSUME NEW r \in Requests, r # p,
             Receive(r) \/ Handler(r) \/ Gateway(r) \/ Webhook(r)
      PROVE  status'[p] = status[p]
  BY <1>1, <1>5, OthersUnchanged
<1>6. CASE UNCHANGED status
  BY <1>6
<1>7. QED
  BY <1>2, <1>3, <1>4, <1>5, <1>6
     DEF Next, vars, Handler, Receive, RejectTransaction, CallGateway,
         GatewayAnswers, GatewayCallFails, Gateway, GatewayAccepts,
         GatewayRefuses, GatewayDecides, GatewayMoves, Crash

\* What the gateway knows of a request moves forward, and a handler the gateway
\* will not hear of any more stays so.
LEMMA MoneyMoves ==
  ASSUME ~LostReplies, IInv, [Next]_vars, NEW p \in Requests
  PROVE  \/ gateway'[p] = gateway[p] /\ pc'[p] = pc[p]
         \/ /\ gateway'[p] = gateway[p]
            /\ pc[p] \notin {"done", "dead"}
            /\ pc[p] = "compensate" => pc'[p] \in {"done", "dead"}
         \/ pc[p] = "created" /\ gateway[p] = "none" /\ gateway'[p] = "sent"
         \/ gateway[p] = "sent" /\ gateway'[p] \in {"accepted", "refused"}
         \/ gateway[p] = "accepted" /\ gateway'[p] \in {"succeeded", "failed"}
<1>1. TypeOK /\ RequestInv(p)
  BY DEF IInv
<1>2. CASE Receive(p) \/ CreateTransaction(p) \/ RejectTransaction(p)
  BY <1>1, <1>2 DEF Receive, CreateTransaction, RejectTransaction, TypeOK
<1>3. CASE CallGateway(p)
  BY <1>1, <1>3 DEF CallGateway, TypeOK, RequestInv, Stage
<1>4. CASE GatewayAnswers(p) \/ GatewayCallFails(p) \/ Compensate(p)
  BY <1>1, <1>4 DEF GatewayAnswers, GatewayCallFails, Compensate, Throw, Goto,
                    Fail, Finish, TypeOK
<1>5. CASE Webhook(p)
  BY <1>5 DEF Webhook
<1>6. CASE Gateway(p)
  BY <1>1, <1>6 DEF Gateway, GatewayAccepts, GatewayRefuses, GatewayDecides,
                    GatewayMoves, TypeOK
<1>7. ASSUME NEW r \in Requests, r # p,
             Receive(r) \/ Handler(r) \/ Gateway(r) \/ Webhook(r)
      PROVE  gateway'[p] = gateway[p] /\ pc'[p] = pc[p]
  BY <1>1, <1>7, OthersUnchanged
<1>8. CASE Crash
  BY <1>1, <1>8 DEF Crash, TypeOK
<1>9. CASE UNCHANGED vars
  BY <1>9 DEF vars
<1>10. QED
  BY <1>2, <1>3, <1>4, <1>5, <1>6, <1>7, <1>8, <1>9 DEF Next, Handler

LEMMA StepRefines ==
  ASSUME ~LostReplies, IInv, [Next]_vars
  PROVE  [Promise!Next]_(Promise!svars)
<1>1. IInv' /\ req' = req
  BY StepIInv DEF Next, vars, Handler, Receive, CreateTransaction,
     RejectTransaction, CallGateway, GatewayAnswers, GatewayCallFails,
     Compensate, Webhook, Gateway, GatewayAccepts, GatewayRefuses,
     GatewayDecides, GatewayMoves, Crash
<1>2. ASSUME NEW p \in Requests
      PROVE  /\ WalletView(p)' \in Promise!WalletStates
             /\ MoneyView(p)' \in Promise!MoneyStates
  BY <1>1, RequestFields DEF IInv, TypeOK, WalletView, MoneyView,
     Promise!WalletStates, Promise!MoneyStates
<1>3. ASSUME NEW p \in Requests
      PROVE  Promise!WalletStep(p)
  <2>1. /\ req[p].kind \in DirectKinds \cup GatewayKinds
        /\ status[p] \in {"absent", "Pending", "Complete", "Failed"}
        /\ status'[p] \in {"absent", "Pending", "Complete", "Failed"}
    BY <1>1, RequestFields DEF IInv, TypeOK
  <2>2. CASE status'[p] = status[p] \/ req[p].kind \in DirectKinds
    <3>1. WalletView(p)' = WalletView(p)
      BY <1>1, <2>1, <2>2 DEF WalletView, DirectKinds, GatewayKinds
    <3>2. QED
      BY <3>1 DEF Promise!WalletStep
  <2>3. CASE status[p] = "absent" /\ status'[p] = "Pending"
    BY <1>1, <2>1, <2>3 DEF Promise!WalletStep, WalletView
  <2>4. CASE /\ status[p] = "Pending" /\ status'[p] = "Failed"
             /\ pc[p] = "compensate" /\ gateway[p] \in {"none", "refused"}
    BY <1>1, <2>1, <2>4 DEF Promise!WalletStep, WalletView, MoneyView
  <2>5. CASE /\ gateway[p] \in {"succeeded", "failed"}
             /\ status[p] = "Pending"
             /\ status'[p] = RehiveStatus(gateway[p])
    BY <1>1, <2>1, <2>5
       DEF Promise!WalletStep, WalletView, MoneyView, RehiveStatus
  <2>6. QED
    BY <2>1, <2>2, <2>3, <2>4, <2>5, EntryStep
<1>4. ASSUME NEW p \in Requests
      PROVE  Promise!MoneyStep(p)
  <2>1. RequestInv(p) /\ TypeOK
    BY DEF IInv
  <2>2. gateway[p] = "accepted" => WalletView(p) = "open"
    BY <2>1 DEF RequestInv, Stage, Backed, Honest, TypeOK, WalletView,
                DirectKinds, GatewayKinds
  <2>3. QED
    BY <1>1, <2>1, <2>2, MoneyMoves
       DEF Promise!MoneyStep, MoneyView, TypeOK, RequestInv, Stage
<1>5. QED
  BY <1>2, <1>3, <1>4 DEF Promise!Next

\* While the gateway's errors are true, the backend settles every payment as
\* Settlement promises: the wallet's half closes once and as the money went.
THEOREM Implementation ==
  ASSUME ~LostReplies
  PROVE  Spec => ImplementsSettlement
<1>1. Init => Promise!Init
  BY InitRefines
<1>2. IInv /\ [Next]_vars => [Promise!Next]_(Promise!svars)
  BY StepRefines
<1>3. QED
  BY <1>1, <1>2, Invariance, PTL DEF Spec, ImplementsSettlement, Promise!Spec

\* What the promise is worth to the wallets: a closed entry tells what the
\* gateway did.  It follows from the abstract specification alone.
THEOREM HalvesAgree ==
  ASSUME ~LostReplies
  PROVE  Spec => []Promise!Agreement
<1>1. Promise!Init => Promise!Agreement
  BY DEF Promise!Init, Promise!Agreement
<1>2. Promise!Agreement /\ [Promise!Next]_(Promise!svars) => Promise!Agreement'
  <2>1. ASSUME Promise!Agreement, Promise!Next
        PROVE  Promise!Agreement'
    BY <2>1 DEF Promise!Agreement, Promise!Next, Promise!WalletStep,
                Promise!MoneyStep
  <2>2. ASSUME Promise!Agreement, UNCHANGED Promise!svars
        PROVE  Promise!Agreement'
    BY <2>2 DEF Promise!Agreement, Promise!svars
  <2>3. QED
    BY <2>1, <2>2
<1>3. QED
  BY <1>1, <1>2, Implementation, PTL DEF ImplementsSettlement, Promise!Spec

-----------------------------------------------------------------------------
(* Settled entries *)

\* Under the assumption on the ledger or the gateway no step changes an entry that
\* is Complete or Failed: neither a handler that compensates nor a callback that
\* comes again, both of which update an entry without looking at it.
SettledStays ==
  \A r \in Requests : status[r] \in {"Complete", "Failed"} => status'[r] = status[r]

\* A ledger that refuses to update what is settled is asked only to do that.
LEMMA FinalEntry ==
  ASSUME SettledIsFinal, IInv, [Next]_vars, NEW p \in Requests,
         status[p] \in {"Complete", "Failed"}
  PROVE  status'[p] = status[p]
<1>1. TypeOK /\ RequestInv(p)
  BY DEF IInv
<1>2. CASE CreateTransaction(p)
  BY <1>1, <1>2 DEF CreateTransaction, RequestInv, Stage
<1>3. CASE Compensate(p) \/ Webhook(p)
  BY <1>1, <1>3 DEF Compensate, Webhook, CanUpdate
<1>4. ASSUME NEW r \in Requests, r # p,
             Receive(r) \/ Handler(r) \/ Gateway(r) \/ Webhook(r)
      PROVE  status'[p] = status[p]
  BY <1>1, <1>4, OthersUnchanged
<1>5. CASE UNCHANGED status
  BY <1>5
<1>6. QED
  BY <1>2, <1>3, <1>4, <1>5
     DEF Next, vars, Handler, Receive, RejectTransaction, CallGateway,
         GatewayAnswers, GatewayCallFails, Gateway, GatewayAccepts,
         GatewayRefuses, GatewayDecides, GatewayMoves, Crash

\* What a wallet shows as settled it shows for good, if the ledger does not update
\* settled entries or the gateway's errors are true.
THEOREM SettledForGood ==
  ASSUME Trustworthy
  PROVE  Spec => [][SettledStays]_vars
<1>1. ASSUME IInv, [Next]_vars
      PROVE  [SettledStays]_vars
  <2>1. ASSUME NEW p \in Requests, status[p] \in {"Complete", "Failed"}
        PROVE  status'[p] = status[p]
    <3>1. CASE SettledIsFinal
      BY <1>1, <2>1, <3>1, FinalEntry
    <3>2. CASE ~LostReplies
      BY <1>1, <2>1, <3>2, EntryStep
    <3>3. QED
      BY <3>1, <3>2 DEF Trustworthy
  <2>2. QED
    BY <2>1 DEF SettledStays
<1>2. QED
  BY <1>1, Invariance, PTL DEF Spec
=============================================================================

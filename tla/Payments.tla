------------------------------ MODULE Payments ------------------------------
(***************************************************************************)
(* The money path: transactions.controller.ts, transactions.service.ts and *)
(* the ledger and gateway calls they make (rehive.service.ts,              *)
(* intouch.service.ts).  A request is one HTTP call; its handler runs in   *)
(* steps separated by its awaits, so handlers of several requests and the  *)
(* gateway's callbacks interleave.  The Rehive ledger and the Intouch      *)
(* gateway are modelled from how the code uses them.                       *)
(***************************************************************************)
EXTENDS Integers

CONSTANTS
  Requests,       \* HTTP calls; each also names the ledger entry it creates
  Users,          \* holders of a wallet
  Amounts,        \* amounts a request may ask for
  InitialFunds,   \* balances a wallet may start with
  SettledIsFinal, \* does the ledger refuse to update a settled entry?
  LostReplies     \* may the gateway's answer be lost or wrongly an error?

ASSUME PaymentsAssumption ==
  /\ Amounts \subseteq Nat \ {0}
  /\ InitialFunds \subseteq Nat
  /\ SettledIsFinal \in BOOLEAN
  /\ LostReplies \in BOOLEAN

VARIABLES
  req,       \* what each request asks for; chosen by the client, never changed
  pc,        \* where the handler of each request stands
  reply,     \* what the client was answered
  error,     \* the error that a handler caught, then the one it answered with
  status,    \* the ledger entry of each request
  available, \* the ledger's available balance of each user
  gateway    \* the gateway's view of each payment

vars == <<req, pc, reply, error, status, available, gateway>>

-----------------------------------------------------------------------------
(* Requests *)

DirectKinds  == {"credit", "debit", "transfer"}
GatewayKinds == {"deposit", "airtime", "withdrawal"}
Outbound     == {"debit", "transfer", "airtime", "withdrawal"}

\* The DTOs only check that a field is present: the phone number may be
\* something without a replace method, the provider one without services.
Bodies == {"ok", "badPhone", "badProvider"}

PaymentRequest ==
  {q \in [kind : DirectKinds \cup GatewayKinds, user : Users,
          recipient : Users, amount : Amounts, body : Bodies] :
     /\ q.kind # "transfer" => q.recipient = q.user
     /\ q.kind \in DirectKinds => q.body = "ok"}

\* Mistake: the DTOs of gateway payments inherit the default of their parent.
InitialStatusInherited(kind) == "Complete"

\* The status a DTO gives to a new ledger entry; a client cannot choose it.
InitialStatus(kind) ==
  IF kind \in DirectKinds THEN "Complete" ELSE "Pending"

-----------------------------------------------------------------------------
(* The ledger *)

Inflow(q, u, s) ==
  IF s = "Complete" /\ \/ q.kind \in {"credit", "deposit"} /\ u = q.user
                       \/ q.kind = "transfer" /\ u = q.recipient
  THEN q.amount ELSE 0

\* A debit holds its amount from the moment it is pending.
Outflow(q, u, s) ==
  IF s \in {"Pending", "Complete"} /\ q.kind \in Outbound /\ u = q.user
  THEN q.amount ELSE 0

\* What q's entry, in status s, contributes to the available balance of u.
Value(q, u, s) == Inflow(q, u, s) - Outflow(q, u, s)

\* The entry of r takes status s and every balance follows.
Post(r, s) ==
  /\ status' = [status EXCEPT ![r] = s]
  /\ available' = [u \in Users |-> available[u] + Value(req[r], u, s)
                                     - Value(req[r], u, status[r])]

LedgerAdmits(r) ==
  req[r].kind \in Outbound => available[req[r].user] >= req[r].amount

\* Does the ledger accept a PATCH of the status of r?
CanUpdate(r) == SettledIsFinal => status[r] = "Pending"

-----------------------------------------------------------------------------
(* Errors and answers *)

\* "ledger": Rehive answered an HTTP error (axios).  "gateway": Intouch did
\* (request-promise).  "net": no answer at all.  "type": a TypeError.
Errors == {"ledger", "gateway", "net", "type"}

\* Mistake: every catch block reads the error as withdrawal does.
HandledErrorsMerged(kind) == {"gateway", "ledger"}

\* The errors whose fields the catch block of a controller can read; reading
\* them from any other throws a TypeError, which Nest answers with a 500.
HandledErrors(kind) ==
  CASE kind \in DirectKinds             -> {"ledger"}
    [] kind \in {"deposit", "airtime"}  -> {"gateway"}
    [] kind = "withdrawal"              -> {"gateway", "ledger"}

ErrorReply(kind, e) ==
  IF e \in HandledErrors(kind) THEN "badRequest" ELSE "serverError"

Finish(r, answer) ==
  /\ pc' = [pc EXCEPT ![r] = "done"]
  /\ reply' = [reply EXCEPT ![r] = answer]

Fail(r, e) == Finish(r, ErrorReply(req[r].kind, e))

-----------------------------------------------------------------------------
(* Handlers *)

Goto(r, label) == pc' = [pc EXCEPT ![r] = label]

Receive(r) ==
  /\ pc[r] = "idle"
  /\ Goto(r, "ledger")
  /\ UNCHANGED <<req, reply, error, status, available, gateway>>

\* The ledger creates the entry.  Its answer may fail to reach the handler,
\* which then knows nothing of the entry.
CreateTransaction(r) ==
  /\ pc[r] = "ledger"
  /\ LedgerAdmits(r)
  /\ Post(r, InitialStatus(req[r].kind))
  /\ \/ req[r].kind \in DirectKinds /\ Finish(r, "ok")
     \/ req[r].kind \in GatewayKinds /\ Goto(r, "created") /\ UNCHANGED reply
     \/ \E e \in {"ledger", "net"} : Fail(r, e)
  /\ UNCHANGED <<req, error, gateway>>

\* The ledger refuses the entry, or the call does not reach it.
RejectTransaction(r) ==
  /\ pc[r] = "ledger"
  /\ \E e \in {"ledger", "net"} : Fail(r, e)
  /\ UNCHANGED <<req, error, status, available, gateway>>

\* The phone number is formatted before the try block, the provider is looked
\* up inside it: only the second failure is compensated.
CallGateway(r) ==
  /\ pc[r] = "created"
  /\ \/ /\ req[r].body = "badPhone"
        /\ Fail(r, "type")
        /\ UNCHANGED <<error, gateway>>
     \/ /\ req[r].body = "badProvider"
        /\ Goto(r, "compensate")
        /\ error' = [error EXCEPT ![r] = "type"]
        /\ UNCHANGED <<reply, gateway>>
     \/ /\ req[r].body = "ok"
        /\ Goto(r, "gateway")
        /\ gateway' = [gateway EXCEPT ![r] = "sent"]
        /\ UNCHANGED <<reply, error>>
  /\ UNCHANGED <<req, status, available>>

\* Mistake: the entry is marked Failed in a finally block.
GatewayAnswersFinally(r) ==
  /\ pc[r] = "gateway"
  /\ gateway[r] \in {"accepted", "succeeded", "failed"}
  /\ Goto(r, "compensate")
  /\ UNCHANGED <<req, reply, error, status, available, gateway>>

\* The gateway's answer is returned to the client as it is.
GatewayAnswers(r) ==
  /\ pc[r] = "gateway"
  /\ gateway[r] \in {"accepted", "succeeded", "failed"}
  /\ Finish(r, "ok")
  /\ UNCHANGED <<req, error, status, available, gateway>>

\* Mistake: the handler gives up before the gateway has answered.
GatewayCallTimesOut(r) ==
  /\ pc[r] = "gateway"
  /\ error' = [error EXCEPT ![r] = "net"]
  /\ Goto(r, "compensate")
  /\ UNCHANGED <<req, reply, status, available, gateway>>

\* The call throws because the gateway refused the payment or was not reached.
\* When replies can be lost it may also throw for a payment that the gateway
\* has accepted, or will.
GatewayCallFails(r) ==
  /\ pc[r] = "gateway"
  /\ gateway[r] = "refused" \/ LostReplies
  /\ \E e \in {"gateway", "net"} : error' = [error EXCEPT ![r] = e]
  /\ Goto(r, "compensate")
  /\ UNCHANGED <<req, reply, status, available, gateway>>

\* Mistake: the update is tried until the ledger takes it.
CompensateUntilUpdated(r) ==
  /\ pc[r] = "compensate"
  /\ CanUpdate(r)
  /\ Post(r, "Failed")
  /\ Fail(r, error[r])
  /\ UNCHANGED <<req, error, gateway>>

Throw(r, e) == Fail(r, e) /\ error' = [error EXCEPT ![r] = e]

\* The catch block marks the entry Failed and throws the error again; when the
\* update throws, its error takes the place of the first.
Compensate(r) ==
  /\ pc[r] = "compensate"
  /\ \/ /\ CanUpdate(r)
        /\ Post(r, "Failed")
        /\ \E e \in {error[r], "ledger", "net"} : Throw(r, e)
     \/ /\ \E e \in {"ledger", "net"} : Throw(r, e)
        /\ UNCHANGED <<status, available>>
  /\ UNCHANGED <<req, gateway>>

\* Mistake: the gateway's status is passed on as it is.
RehiveStatusUnmapped(outcome) == outcome

\* Mistake: a callback is taken for a success.
RehiveStatusOfAnyCallback(outcome) == "Complete"

RehiveStatus(outcome) == IF outcome = "succeeded" THEN "Complete" ELSE "Failed"

\* Mistake: callbacks go to the handler that waits in memory.
WebhookToHandler(r) ==
  /\ gateway[r] \in {"succeeded", "failed"}
  /\ pc[r] \in {"gateway", "done"}
  /\ CanUpdate(r)
  /\ Post(r, RehiveStatus(gateway[r]))
  /\ UNCHANGED <<req, pc, reply, error, gateway>>

\* The gateway calls back with its decision, possibly before it answers the
\* call itself, possibly again.  The handler does not look at the entry.  The
\* endpoint is public; that its caller is the gateway, and means what it
\* decided, is an assumption on the environment.
Webhook(r) ==
  /\ gateway[r] \in {"succeeded", "failed"}
  /\ CanUpdate(r)
  /\ Post(r, RehiveStatus(gateway[r]))
  /\ UNCHANGED <<req, pc, reply, error, gateway>>

\* The process stops; its handlers are gone.  Clients call again later.
Crash ==
  /\ \E r \in Requests : pc[r] \notin {"idle", "done", "dead"}
  /\ pc' = [r \in Requests |->
              IF pc[r] \in {"idle", "done"} THEN pc[r] ELSE "dead"]
  /\ UNCHANGED <<req, reply, error, status, available, gateway>>

-----------------------------------------------------------------------------
(* The gateway *)

GatewayMoves(r, from, to) ==
  /\ gateway[r] = from
  /\ gateway' = [gateway EXCEPT ![r] = to]
  /\ UNCHANGED <<req, pc, reply, error, status, available>>

GatewayAccepts(r) == GatewayMoves(r, "sent", "accepted")
GatewayRefuses(r) == GatewayMoves(r, "sent", "refused")
GatewayDecides(r) ==
  GatewayMoves(r, "accepted", "succeeded") \/ GatewayMoves(r, "accepted", "failed")

-----------------------------------------------------------------------------
(* The specification *)

Init ==
  /\ req \in [Requests -> PaymentRequest]
  /\ pc = [r \in Requests |-> "idle"]
  /\ reply = [r \in Requests |-> "none"]
  /\ error = [r \in Requests |-> "none"]
  /\ status = [r \in Requests |-> "absent"]
  /\ available \in [Users -> InitialFunds]
  /\ gateway = [r \in Requests |-> "none"]

Handler(r) ==
  \/ CreateTransaction(r) \/ RejectTransaction(r) \/ CallGateway(r)
  \/ GatewayAnswers(r) \/ GatewayCallFails(r) \/ Compensate(r)

Gateway(r) == GatewayAccepts(r) \/ GatewayRefuses(r) \/ GatewayDecides(r)

Next ==
  \/ \E r \in Requests : Receive(r) \/ Handler(r) \/ Gateway(r) \/ Webhook(r)
  \/ Crash

Spec == Init /\ [][Next]_vars

\* Node runs every handler whose call has come back; every call is answered in
\* the end (the code sets no timeout of its own); the gateway decides what it
\* accepted and calls back until the ledger has taken its decision.
Fairness ==
  \A r \in Requests :
    /\ WF_vars(Handler(r))
    /\ WF_vars(Gateway(r))
    /\ WF_vars(Webhook(r) /\ status[r] = "Pending")

FairSpec == Spec /\ Fairness

-----------------------------------------------------------------------------
(* Properties *)

TypeOK ==
  /\ req \in [Requests -> PaymentRequest]
  /\ pc \in [Requests -> {"idle", "ledger", "created", "gateway", "compensate",
                          "done", "dead"}]
  /\ reply \in [Requests -> {"none", "ok", "badRequest", "serverError"}]
  /\ error \in [Requests -> {"none"} \cup Errors]
  /\ status \in [Requests -> {"absent", "Pending", "Complete", "Failed"}]
  /\ available \in [Users -> Int]
  /\ gateway \in [Requests -> {"none", "sent", "accepted", "refused",
                               "succeeded", "failed"}]

\* No interleaving of requests, compensations and callbacks takes the available
\* balance of a wallet below zero: no money is handed out twice.  Nothing in
\* the handlers checks a balance; it rests on the ledger and on compensating
\* only what the gateway has not accepted.
NoOverdraft == \A u \in Users : available[u] >= 0

\* A gateway payment counts in the wallet as settled only if the money moved.
NoUnbackedCredit ==
  \A r \in Requests :
    req[r].kind \in GatewayKinds /\ status[r] = "Complete"
      => gateway[r] = "succeeded"

\* After the client was told that its payment is under way, the wallet never
\* tells a different end of it than the gateway: no failed entry for money that
\* moved, no completed entry for money that did not.
AcknowledgedSettlesAsDecided ==
  \A r \in Requests :
    req[r].kind \in GatewayKinds /\ reply[r] = "ok"
      => /\ status[r] = "Failed" => gateway[r] = "failed"
         /\ status[r] = "Complete" => gateway[r] = "succeeded"

\* A 400 that quotes the gateway has given back what the wallet held, also when
\* the phone number is unreadable or the compensation fails: such an error is
\* thrown again only after the entry was marked Failed.  For a deposit or airtime
\* a 400 quotes nothing else; a withdrawal's may be the ledger's refusal of the
\* entry or of that very update.
BadRequestReleases ==
  \A r \in Requests :
    req[r].kind \in GatewayKinds /\ reply[r] = "badRequest"
      => \/ status[r] = "Failed"
         \/ req[r].kind = "withdrawal" /\ error[r] # "gateway"

\* A handler that the process does not lose answers its client.
EveryRequestAnswered ==
  \A r \in Requests : pc[r] = "ledger" ~> pc[r] \in {"done", "dead"}

\* A payment the gateway accepted is settled in the wallet in the end, even if
\* the handler that asked for it died before it saw the answer.
AcceptedPaymentSettles ==
  \A r \in Requests :
    gateway[r] = "accepted" ~> status[r] \in {"Complete", "Failed"}

-----------------------------------------------------------------------------
(* Refinement of Settlement *)

WalletView(r) ==
  CASE req[r].kind \in DirectKinds \/ status[r] = "absent" -> "absent"
    [] req[r].kind \in GatewayKinds /\ status[r] = "Pending" -> "open"
    [] req[r].kind \in GatewayKinds /\ status[r] = "Complete" -> "moved"
    [] req[r].kind \in GatewayKinds /\ status[r] = "Failed" -> "released"

MoneyView(r) ==
  IF gateway[r] = "succeeded" THEN "moved"
  ELSE IF \/ gateway[r] \in {"refused", "failed"}
          \/ gateway[r] = "none" /\ pc[r] \in {"compensate", "done", "dead"}
       THEN "not_moved"
       ELSE "undecided"

Promise == INSTANCE Settlement
  WITH Payments <- Requests,
       wallet <- [r \in Requests |-> WalletView(r)],
       money <- [r \in Requests |-> MoneyView(r)]

\* While the gateway's errors are true, the two halves of every payment agree:
\* each wallet entry closes once and closes the way the money went, although no
\* handler and no callback ever reads the status it overwrites.
ImplementsSettlement == Promise!Spec
=============================================================================

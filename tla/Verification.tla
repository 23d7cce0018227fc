---------------------------- MODULE Verification ----------------------------
(***************************************************************************)
(* Phone verification: twilio.service.ts and the endpoints that use it.    *)
(* Twilio keeps at most one pending verification per number, with a code,  *)
(* and sends it again when asked again, up to a limit; a handler that      *)
(* meets the limit cancels the verification and makes another.  Whoever    *)
(* gives the code gets a signed token for the number, which sign-up and    *)
(* the reset of a password take.                                           *)
(***************************************************************************)
EXTENDS Naturals

CONSTANTS
  Requests,  \* HTTP calls; each also names the verification it may begin
  Phones,
  TestPhone, \* the number that is never verified
  TestCode,  \* the code that goes with it
  MaxSends,  \* how often Twilio sends one code
  None

ASSUME VerificationAssumption ==
  /\ MaxSends \in Nat \ {0}
  /\ None \notin Requests \cup Phones
  /\ TestCode \notin Requests
  /\ {"no", "used", "expired"} \cap Requests = {}

VARIABLES
  req,      \* what each request asks for; never changed
  pc,       \* where the handler of each request stands
  reply,    \* what the client was answered
  live,     \* the pending verification of each number at Twilio
  sends,    \* how often its code was sent
  sent,     \* history: the verification whose code a start had sent
  ended,    \* history: how each verification ended; a canceller's name if it was
  failed,   \* history: starts for which a call to Twilio failed on its way
  disturbed \* history: retries whose number another touched since the limit

twilio == <<live, sends, sent, ended, disturbed>>
vars == <<req, pc, reply, twilio, failed>>

-----------------------------------------------------------------------------
(* Requests *)

\* send/code and forgot-password differ only in the numbers they refuse.
Start  == [op : {"start"}, phone : Phones, code : {None}]
\* A code is known by its verification; None is one that Twilio never sent.
Verify == [op : {"verify"}, phone : Phones, code : Requests \cup {TestCode, None}]

Phone(r) == req[r].phone

-----------------------------------------------------------------------------
(* Twilio *)

\* Those whose retry is under way on the number p.
Retrying(p) == {q \in Requests : Phone(q) = p /\ pc[q] \in {"cancel", "recreate"}}

\* The code of a new or of the pending verification is sent on behalf of r.
SendCode(r) ==
  LET p == Phone(r)
  IN /\ \/ /\ live[p] = None
           /\ live' = [live EXCEPT ![p] = r]
           /\ sends' = [sends EXCEPT ![p] = 1]
           /\ sent' = [sent EXCEPT ![r] = r]
        \/ /\ live[p] # None
           /\ sends[p] < MaxSends
           /\ sends' = [sends EXCEPT ![p] = @ + 1]
           /\ sent' = [sent EXCEPT ![r] = live[p]]
           /\ UNCHANGED live
     /\ disturbed' = disturbed \cup (Retrying(p) \ {r})
     /\ UNCHANGED ended

LimitReached(p) == live[p] # None /\ sends[p] >= MaxSends

\* The pending verification of p ends; retries other than those of by notice.
End(p, how, by) ==
  /\ live[p] # None
  /\ live' = [live EXCEPT ![p] = None]
  /\ sends' = [sends EXCEPT ![p] = 0]
  /\ ended' = [ended EXCEPT ![live[p]] = how]
  /\ disturbed' = disturbed \cup (Retrying(p) \ by)
  /\ UNCHANGED sent

\* A code is good for ten minutes.
Expire(p) ==
  /\ End(p, "expired", {})
  /\ UNCHANGED <<req, pc, reply, failed>>

-----------------------------------------------------------------------------
(* Handlers *)

Goto(r, label) ==
  /\ pc' = [pc EXCEPT ![r] = label]
  /\ UNCHANGED reply

Finish(r, answer) ==
  /\ pc' = [pc EXCEPT ![r] = "done"]
  /\ reply' = [reply EXCEPT ![r] = answer]

Fails(r) == failed' = failed \cup {r}

\* The number is looked for among the users.  It may be there or not: accounts
\* are made and change numbers at any time.
Receive(r) ==
  /\ pc[r] = "idle"
  /\ req[r].op = "start"
  /\ \/ Finish(r, "badRequest")
     \/ Phone(r) = TestPhone /\ Finish(r, "ok")
     \/ Phone(r) # TestPhone /\ Goto(r, "create")
  /\ UNCHANGED <<req, twilio, failed>>

\* Mistake: the limit is answered with the code of the error.
CreateThrowingCode(r) ==
  /\ pc[r] = "create"
  /\ \/ SendCode(r) /\ Finish(r, "ok")
     \/ LimitReached(Phone(r)) /\ Finish(r, "60203") /\ UNCHANGED twilio
  /\ UNCHANGED <<req, failed>>

\* Mistake: the retry does not cancel first.
CreateRetriedAtOnce(r) ==
  /\ pc[r] = "create"
  /\ \/ SendCode(r) /\ Finish(r, "ok")
     \/ LimitReached(Phone(r)) /\ Goto(r, "recreate") /\ UNCHANGED twilio
  /\ UNCHANGED <<req, failed>>

\* A call that fails may have sent the code.  Only the limit has a second try.
Create(r) ==
  /\ pc[r] = "create"
  /\ \/ SendCode(r) /\ Finish(r, "ok")
     \/ (SendCode(r) \/ UNCHANGED twilio) /\ Finish(r, "badRequest")
     \/ LimitReached(Phone(r)) /\ Goto(r, "cancel") /\ UNCHANGED twilio
  /\ UNCHANGED <<req, failed>>

\* Mistake: the handler is content with having cancelled.
CancelOnly(r) ==
  /\ pc[r] = "cancel"
  /\ End(Phone(r), r, {r})
  /\ Finish(r, "ok")
  /\ UNCHANGED <<req, failed>>

\* The update names the number, not the verification that met the limit.  It
\* and the second creation are inside the catch block: their errors are 500s.
Cancel(r) ==
  /\ pc[r] = "cancel"
  /\ \/ End(Phone(r), r, {r}) /\ Goto(r, "recreate") /\ UNCHANGED failed
     \/ /\ live[Phone(r)] = None
        /\ Finish(r, "serverError")
        /\ UNCHANGED <<twilio, failed>>
     \/ /\ End(Phone(r), r, {r}) \/ UNCHANGED twilio
        /\ Finish(r, "serverError")
        /\ Fails(r)
  /\ UNCHANGED req

\* A verification without an id is a 400.
Recreate(r) ==
  /\ pc[r] = "recreate"
  /\ \/ SendCode(r) /\ Finish(r, "ok") /\ UNCHANGED failed
     \/ /\ LimitReached(Phone(r))
        /\ Finish(r, "serverError")
        /\ UNCHANGED <<twilio, failed>>
     \/ /\ SendCode(r) \/ UNCHANGED twilio
        /\ \E answer \in {"badRequest", "serverError"} : Finish(r, answer)
        /\ Fails(r)
  /\ UNCHANGED req

TestData(r) == Phone(r) = TestPhone /\ req[r].code = TestCode

\* The code is the pending verification's: Twilio approves, and it is used up.
Approve(r) ==
  /\ req[r].code = live[Phone(r)]
  /\ End(Phone(r), "used", {})

\* Mistake: the status of the check is not looked at.
CheckCodeUnread(r) ==
  /\ pc[r] = "idle"
  /\ req[r].op = "verify"
  /\ \/ live[Phone(r)] # None /\ UNCHANGED twilio
     \/ Approve(r)
  /\ Finish(r, "ok")
  /\ UNCHANGED <<req, failed>>

\* An answer ok carries the token.  Every error of the check is a 400, and the
\* answer of an approval can be lost.
CheckCode(r) ==
  /\ pc[r] = "idle"
  /\ req[r].op = "verify"
  /\ \/ TestData(r) /\ Finish(r, "ok") /\ UNCHANGED twilio
     \/ /\ ~TestData(r)
        /\ \/ Approve(r) /\ Finish(r, "ok")
           \/ (Approve(r) \/ UNCHANGED twilio) /\ Finish(r, "badRequest")
  /\ UNCHANGED <<req, failed>>

\* The process stops; its handlers are gone.
Crash ==
  /\ \E r \in Requests : pc[r] \notin {"idle", "done", "dead"}
  /\ pc' = [r \in Requests |->
              IF pc[r] \in {"idle", "done"} THEN pc[r] ELSE "dead"]
  /\ UNCHANGED <<req, reply, twilio, failed>>

-----------------------------------------------------------------------------
(* The specification *)

Init ==
  /\ req \in [Requests -> Start \cup Verify]
  /\ pc = [r \in Requests |-> "idle"]
  /\ reply = [r \in Requests |-> "none"]
  /\ live = [p \in Phones |-> None]
  /\ sends = [p \in Phones |-> 0]
  /\ sent = [r \in Requests |-> None]
  /\ ended = [v \in Requests |-> "no"]
  /\ failed = {}
  /\ disturbed = {}

Step(r) == Receive(r) \/ Create(r) \/ Cancel(r) \/ Recreate(r) \/ CheckCode(r)

Next == \/ \E r \in Requests : Step(r)
        \/ \E p \in Phones : Expire(p)
        \/ Crash

Spec == Init /\ [][Next]_vars

-----------------------------------------------------------------------------
(* Properties *)

TypeOK ==
  /\ req \in [Requests -> Start \cup Verify]
  /\ pc \in [Requests -> {"idle", "create", "cancel", "recreate", "done", "dead"}]
  /\ reply \in [Requests -> {"none", "ok", "badRequest", "serverError"}]
  /\ live \in [Phones -> Requests \cup {None}]
  /\ sends \in [Phones -> 0 .. MaxSends]
  /\ sent \in [Requests -> Requests \cup {None}]
  /\ ended \in [Requests -> {"no", "used", "expired"} \cup Requests]
  /\ failed \subseteq Requests
  /\ disturbed \subseteq Requests

\* Whoever was told that a code was sent holds one that works until it is used
\* or expires, or another start for the number cancels it at the limit; that
\* start, if it succeeds, has sent another code.  No retry kills what it sent.
AnsweredCodeWorks ==
  \A r \in Requests :
    req[r].op = "start" /\ reply[r] = "ok" /\ Phone(r) # TestPhone
      => \/ sent[r] # None /\ live[Phone(r)] = sent[r]
         \/ sent[r] # None /\ ended[sent[r]] \in {"used", "expired"}
         \/ \E q \in Requests \ {r} :
              /\ sent[r] # None /\ ended[sent[r]] = q
              /\ Phone(q) = Phone(r)
              /\ reply[q] = "ok" => sent[q] \notin {None, sent[r]}

\* Who meets the limit gets a code all the same, unless a call to Twilio fails
\* or the number is touched by another request, or its code expires, meanwhile.
RetryFailsOnlyDisturbed ==
  \A r \in Requests :
    req[r].op = "start" /\ reply[r] = "serverError" => r \in failed \cup disturbed

\* A token for a number, the test number apart, was paid for with a code sent to
\* that number, and one code buys one token.
TokenIsEarned ==
  \A r \in Requests :
    req[r].op = "verify" /\ reply[r] = "ok" /\ ~TestData(r)
      => /\ req[r].code \in Requests
         /\ Phone(req[r].code) = Phone(r)
         /\ ended[req[r].code] = "used"
         /\ \A q \in Requests \ {r} :
              req[q].op = "verify" /\ reply[q] = "ok" => req[q].code # req[r].code
                                                       \/ TestData(q)
=============================================================================

------------------------------- MODULE Profile -------------------------------
(***************************************************************************)
(* What a user keeps in its document (users.service.ts): saved phone       *)
(* numbers, debit cards, push-notification tokens and whether to use them. *)
(* Each entry is pushed by one atomic update of MongoDB, but the look-ups  *)
(* that decide whether it may be are calls of their own, made before.  The *)
(* tokens are used by transfers (transactions.service.ts): the handler     *)
(* answers, and a function that nobody awaits reads the two users and      *)
(* hands Firebase a message for each who wants one.                        *)
(***************************************************************************)
EXTENDS Naturals, FiniteSets

CONSTANTS
  Requests,  \* HTTP calls; each also names the entry it may add
  Users,     \* users with a document
  Values,    \* phone numbers, card numbers or tokens of devices
  MaxPhones, \* how many phone numbers a user may save; 3 in the code
  None

ASSUME ProfileAssumption ==
  /\ IsFiniteSet(Requests)
  /\ MaxPhones \in Nat
  /\ None \notin Values \cup Requests \cup Users

ASSUME NoneIsNoDocument == None \notin [show : BOOLEAN, tokens : SUBSET Values]

VARIABLES
  req,       \* what each request asks for; never changed
  pc,        \* where the handler of each request stands
  reply,     \* what the client was answered
  saved,     \* the entries in the documents, by the request that added them
  show,      \* whether each user wants to be notified
  sender,    \* what the notifications of a transfer read of the sender
  outdated,  \* history: additions whose value was added since they looked
  overtaken, \* history: additions of a phone counted before another was added
  flags,     \* history: what each user wanted at some time since a transfer
  pushed     \* history: the messages of each transfer handed to Firebase

lists == <<saved, outdated, overtaken>>
notices == <<show, sender, flags, pushed>>
vars == <<req, pc, reply, lists, notices>>

-----------------------------------------------------------------------------
(* Requests *)

Additions == {"addPhone", "addCard", "addToken"}
Removals  == {"removePhone", "removeCard"}

Addition == [op : Additions, user : Users, value : Values, entry : {None}]
Removal  == [op : Removals, user : Users, value : {None}, entry : Requests]
Setting  == [op : {"setShow"}, user : Users, value : BOOLEAN, entry : {None}]
\* The value is the recipient, who may be in the ledger without a document here.
Transfer == [op : {"transfer"}, user : Users, value : Users \cup {None},
             entry : {None}]

ProfileRequest == Addition \cup Removal \cup Setting \cup Transfer

\* Additions e and f are of one value.  A phone number is looked for in the
\* user's own document, a card or a token in all of them.
SameEntry(e, f) ==
  /\ req[e].op = req[f].op
  /\ req[e].value = req[f].value
  /\ req[e].op = "addPhone" => req[e].user = req[f].user

Taken(r) == \E e \in saved : SameEntry(e, r)

PhonesOf(u) == {e \in saved : req[e].op = "addPhone" /\ req[e].user = u}

AddedBy(removal) == IF removal = "removePhone" THEN "addPhone" ELSE "addCard"

\* Mistake: the entry is looked for in every document.
AnyEntry(r) ==
  /\ req[r].entry \in saved
  /\ req[req[r].entry].op = AddedBy(req[r].op)

\* The entry r wants removed is in the document of its user.
OwnEntry(r) ==
  /\ req[r].entry \in saved
  /\ req[req[r].entry].op = AddedBy(req[r].op)
  /\ req[req[r].entry].user = req[r].user

-----------------------------------------------------------------------------
(* Handlers *)

Goto(r, label) == pc' = [pc EXCEPT ![r] = label]
Answer(r, answer) == reply' = [reply EXCEPT ![r] = answer]

\* An entry has no id that a client could name before its handler has pushed it.
\* One that was refused, or is no entry, stands for an id that nothing has.
Nameable(e) == req[e].op \in Additions => pc[e] \in {"done", "dead"}

\* The removal of a card is answered at once and goes on unattended.
Receive(r) ==
  /\ pc[r] = "idle"
  /\ req[r].op \in Additions \cup Removals
  /\ req[r].op \in Removals => Nameable(req[r].entry)
  /\ Goto(r, "check")
  /\ IF req[r].op = "removeCard" THEN Answer(r, "ok") ELSE UNCHANGED reply
  /\ UNCHANGED <<req, lists, notices>>

\* Mistake: a token is added without looking for it.
CheckAdditionOfToken(r) ==
  /\ pc[r] = "check"
  /\ req[r].op \in Additions
  /\ IF Taken(r) /\ req[r].op # "addToken"
     THEN Goto(r, "done") /\ Answer(r, "badRequest")
     ELSE /\ Goto(r, IF req[r].op = "addPhone" THEN "count" ELSE "push")
          /\ UNCHANGED reply
  /\ UNCHANGED <<req, lists, notices>>

\* The value must not be there already.
CheckAddition(r) ==
  /\ pc[r] = "check"
  /\ req[r].op \in Additions
  /\ IF Taken(r) THEN Goto(r, "done") /\ Answer(r, "badRequest")
     ELSE /\ Goto(r, IF req[r].op = "addPhone" THEN "count" ELSE "push")
          /\ UNCHANGED reply
  /\ UNCHANGED <<req, lists, notices>>

\* Mistake: one number too many is let in.
CountPhonesPlusOne(r) ==
  /\ pc[r] = "count"
  /\ IF Cardinality(PhonesOf(req[r].user)) > MaxPhones
     THEN Goto(r, "done") /\ Answer(r, "badRequest")
     ELSE Goto(r, "push") /\ UNCHANGED reply
  /\ UNCHANGED <<req, lists, notices>>

\* Mistake: the refusal is thrown as its message.
CountPhonesThrowingText(r) ==
  /\ pc[r] = "count"
  /\ IF Cardinality(PhonesOf(req[r].user)) >= MaxPhones
     THEN Goto(r, "done") /\ Answer(r, "tooMany")
     ELSE Goto(r, "push") /\ UNCHANGED reply
  /\ UNCHANGED <<req, lists, notices>>

\* The document is read again to count its numbers.
CountPhones(r) ==
  /\ pc[r] = "count"
  /\ IF Cardinality(PhonesOf(req[r].user)) >= MaxPhones
     THEN Goto(r, "done") /\ Answer(r, "badRequest")
     ELSE Goto(r, "push") /\ UNCHANGED reply
  /\ UNCHANGED <<req, lists, notices>>

Push(r) ==
  /\ pc[r] = "push"
  /\ saved' = saved \cup {r}
  /\ outdated' = outdated \cup
       {q \in Requests \ {r} : pc[q] \in {"count", "push"} /\ SameEntry(q, r)}
  /\ overtaken' = overtaken \cup
       {q \in Requests \ {r} : /\ pc[q] = "push"
                               /\ req[q].op = "addPhone" /\ req[r].op = "addPhone"
                               /\ req[q].user = req[r].user}
  /\ Goto(r, "done")
  /\ Answer(r, "ok")
  /\ UNCHANGED <<req, notices>>

\* A card that is not there rejects a promise nobody awaits: the client has been
\* answered and the handler ends there.
CheckRemoval(r) ==
  /\ pc[r] = "check"
  /\ req[r].op \notin Additions
  /\ IF OwnEntry(r) THEN Goto(r, "pull") /\ UNCHANGED reply
     ELSE IF req[r].op = "removeCard" THEN Goto(r, "dead") /\ UNCHANGED reply
     ELSE Goto(r, "done") /\ Answer(r, "badRequest")
  /\ UNCHANGED <<req, lists, notices>>

\* The update names the user and the entry again, and matches nothing if the
\* entry has gone.
PullPhone(r) ==
  /\ pc[r] = "pull"
  /\ req[r].op = "removePhone"
  /\ saved' = IF OwnEntry(r) THEN saved \ {req[r].entry} ELSE saved
  /\ Goto(r, "done")
  /\ Answer(r, "ok")
  /\ UNCHANGED <<req, outdated, overtaken, notices>>

\* updateOne of the base service sets a field $pull that the schema does not
\* have: Mongoose drops it and saves an unchanged document.
PullCard(r) ==
  /\ pc[r] = "pull"
  /\ req[r].op = "removeCard"
  /\ Goto(r, "done")
  /\ UNCHANGED <<req, reply, lists, notices>>

-----------------------------------------------------------------------------
(* Notifications *)

\* The devices of a user.
TokensOf(u) ==
  {req[e].value : e \in {e \in saved : req[e].op = "addToken" /\ req[e].user = u}}

Document(u) == [show |-> show[u], tokens |-> TokensOf(u)]

\* The message for u, if its document says that it wants one.
MessageFor(u, document) ==
  {m \in {[user |-> u, tokens |-> document.tokens]} : document.show}

\* Transfers that have been paid and whose notifications are still to come.
Notifying == {t \in Requests : pc[t] \in {"sender", "recipient"}}

\* One update, which also returns the flag.
SetShow(r) ==
  /\ pc[r] = "idle"
  /\ req[r].op = "setShow"
  /\ show' = [show EXCEPT ![req[r].user] = req[r].value]
  /\ flags' = [t \in Requests |->
                 IF t \in Notifying THEN flags[t] \cup {<<req[r].user, req[r].value>>}
                                   ELSE flags[t]]
  /\ Goto(r, "done")
  /\ Answer(r, "ok")
  /\ UNCHANGED <<req, lists, sender, pushed>>

\* The ledger moves the money, or refuses, or its answer is lost, which is an
\* error without the response that the handler quotes.
Pay(r) ==
  /\ pc[r] = "idle"
  /\ req[r].op = "transfer"
  /\ \/ /\ Goto(r, "sender") /\ Answer(r, "ok")
        /\ flags' = [flags EXCEPT ![r] = {<<u, show[u]>> : u \in Users}]
     \/ /\ Goto(r, "done") /\ UNCHANGED flags
        /\ \E answer \in {"badRequest", "serverError"} : Answer(r, answer)
  /\ UNCHANGED <<req, lists, show, sender, pushed>>

ReadSender(r) ==
  /\ pc[r] = "sender"
  /\ sender' = [sender EXCEPT ![r] = Document(req[r].user)]
  /\ Goto(r, "recipient")
  /\ UNCHANGED <<req, reply, lists, show, flags, pushed>>

\* Mistake: the sender's wish counts for both.
NotifyBySender(r) ==
  /\ pc[r] = "recipient"
  /\ req[r].value # None
  /\ pushed' = [pushed EXCEPT ![r] =
       MessageFor(req[r].user, sender[r])
         \cup MessageFor(req[r].value,
                         [Document(req[r].value) EXCEPT !.show = sender[r].show])]
  /\ Goto(r, "done")
  /\ UNCHANGED <<req, reply, lists, show, sender, flags>>

\* The recipient is read, and both messages are sent without a further wait.
Notify(r) ==
  /\ pc[r] = "recipient"
  /\ req[r].value # None
  /\ pushed' = [pushed EXCEPT ![r] =
       MessageFor(req[r].user, sender[r])
         \cup MessageFor(req[r].value, Document(req[r].value))]
  /\ Goto(r, "done")
  /\ UNCHANGED <<req, reply, lists, show, sender, flags>>

\* A read fails, or finds no recipient to name to the sender: a rejection that
\* nobody handles, and neither is notified.
LoseNotice(r) ==
  /\ pc[r] \in {"sender", "recipient"}
  /\ Goto(r, "dead")
  /\ UNCHANGED <<req, reply, lists, notices>>

-----------------------------------------------------------------------------
(* The specification *)

\* The process stops; its handlers are gone.
Crash ==
  /\ \E r \in Requests : pc[r] \notin {"idle", "done", "dead"}
  /\ pc' = [r \in Requests |->
              IF pc[r] \in {"idle", "done"} THEN pc[r] ELSE "dead"]
  /\ UNCHANGED <<req, reply, lists, notices>>

Init ==
  /\ req \in [Requests -> ProfileRequest]
  /\ pc = [r \in Requests |-> "idle"]
  /\ reply = [r \in Requests |-> "none"]
  /\ saved = {}
  /\ outdated = {}
  /\ overtaken = {}
  /\ show = [u \in Users |-> TRUE]
  /\ sender = [r \in Requests |-> None]
  /\ flags = [r \in Requests |-> {}]
  /\ pushed = [r \in Requests |-> {}]

Step(r) ==
  \/ Receive(r) \/ CheckAddition(r) \/ CountPhones(r) \/ Push(r)
  \/ CheckRemoval(r) \/ PullPhone(r) \/ PullCard(r)
  \/ SetShow(r) \/ Pay(r) \/ ReadSender(r) \/ Notify(r) \/ LoseNotice(r)

Next == (\E r \in Requests : Step(r)) \/ Crash

Spec == Init /\ [][Next]_vars

-----------------------------------------------------------------------------
(* Properties *)

TypeOK ==
  /\ req \in [Requests -> ProfileRequest]
  /\ pc \in [Requests -> {"idle", "check", "count", "push", "pull",
                          "sender", "recipient", "done", "dead"}]
  /\ reply \in [Requests -> {"none", "ok", "badRequest", "serverError"}]
  /\ saved \subseteq Requests
  /\ outdated \subseteq Requests
  /\ overtaken \subseteq Requests
  /\ show \in [Users -> BOOLEAN]
  /\ sender \in [Requests -> [show : BOOLEAN, tokens : SUBSET Values] \cup {None}]
  /\ flags \in [Requests -> SUBSET (Users \X BOOLEAN)]
  /\ pushed \in [Requests -> SUBSET [user : Users, tokens : SUBSET Values]]

\* A value is listed twice, in one user's numbers or in anyone's cards or
\* tokens, only if one of the two was added on a look-up that the other made
\* stale: requests that do not overlap keep the lists free of duplicates.
DuplicateNeedsRace ==
  \A e, f \in saved :
    e # f /\ SameEntry(e, f) => e \in outdated \/ f \in outdated

\* A user has more numbers than the limit by no more than were pushed on a count
\* that another addition made stale.
ExcessNeedsRace ==
  \A u \in Users :
    Cardinality(PhonesOf(u)) <= MaxPhones + Cardinality(PhonesOf(u) \cap overtaken)

\* Whatever overlaps, an entry leaves a document only through a removal that the
\* owner of the document asked for.
OnlyOwnerRemoves ==
  [][\A e \in saved \ saved' :
       \E r \in Requests : /\ pc[r] = "pull" /\ pc'[r] = "done"
                           /\ req[r].entry = e
                           /\ req[r].user = req[e].user]_vars

\* Whether each of the two is notified of a transfer is what it wanted at some
\* time after the money moved, however flags change and steps interleave; and
\* nobody is notified of a transfer that the sender was told had failed.
NotifiedAsShown ==
  \A t \in Requests : req[t].op = "transfer" =>
    /\ pushed[t] # {} => reply[t] = "ok"
    /\ pc[t] = "done" /\ reply[t] = "ok" =>
         \A u \in {req[t].user, req[t].value} :
           <<u, \E m \in pushed[t] : m.user = u>> \in flags[t]

\* A device hears of the money of two users only if its token was saved for one
\* of them on a look-up that had become stale.
DeviceHearsOneUser ==
  \A s, t \in Requests : \A m \in pushed[s], n \in pushed[t] :
    m.user # n.user =>
      \A device \in m.tokens \cap n.tokens :
        \E e \in saved \cap outdated : req[e].op = "addToken" /\ req[e].value = device

\* What the refusal of a further number says: there are never more than the
\* limit.  The count and the push are not atomic.
AtMostMaxPhones == \A u \in Users : Cardinality(PhonesOf(u)) <= MaxPhones

\* What the removal of a card is for, and what its refusal says of a card that
\* was removed before: it does not exist any more.  This asks it only of a removal
\* that found the card and ran its update to the end.
RemovedCardIsGone ==
  \A r \in Requests :
    req[r].op = "removeCard" /\ pc[r] = "done" => ~OwnEntry(r)
=============================================================================

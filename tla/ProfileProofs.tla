---------------------------- MODULE ProfileProofs ----------------------------
(***************************************************************************)
(* Profile for every number of requests, users and values, and for every   *)
(* limit.  What a look-up or a count let through is still true when it is  *)
(* pushed, unless the addition is outdated or overtaken.                   *)
(***************************************************************************)
EXTENDS Profile, FiniteSetTheorems, TLAPS

LEMMA LimitType == MaxPhones \in Nat
BY ProfileAssumption

LEMMA PhonesFinite ==
  ASSUME saved \subseteq Requests, NEW u, NEW S
  PROVE  /\ IsFiniteSet(PhonesOf(u))
         /\ Cardinality(PhonesOf(u)) \in Nat
         /\ IsFiniteSet(PhonesOf(u) \cap S)
         /\ Cardinality(PhonesOf(u) \cap S) \in Nat
<1>1. PhonesOf(u) \in SUBSET Requests /\ PhonesOf(u) \cap S \in SUBSET Requests
  BY DEF PhonesOf
<1>2. IsFiniteSet(Requests)
  BY ProfileAssumption
<1>3. IsFiniteSet(PhonesOf(u)) /\ IsFiniteSet(PhonesOf(u) \cap S)
  BY <1>1, <1>2, FS_Subset
<1>4. QED
  BY <1>3, FS_CardinalityType

-----------------------------------------------------------------------------
(* The inductive invariant *)

\* Where additions and removals lead; what is saved was added.
Placed(r) ==
  /\ pc[r] \in {"count", "push"} => req[r].op \in Additions
  /\ pc[r] = "count" => req[r].op = "addPhone"
  /\ r \in saved => pc[r] = "done" /\ req[r].op \in Additions

\* The look-up of an addition still holds, unless it is outdated.
Unlisted(r) ==
  pc[r] \in {"count", "push"} /\ r \notin outdated => ~Taken(r)

\* The count of an addition still holds, unless it was overtaken.
Room(r) ==
  pc[r] = "push" /\ req[r].op = "addPhone" /\ r \notin overtaken
    => Cardinality(PhonesOf(req[r].user)) < MaxPhones

Excess(u) ==
  Cardinality(PhonesOf(u)) <= MaxPhones + Cardinality(PhonesOf(u) \cap overtaken)

\* A handler that notifies is of a transfer and has read the sender.
Reads(t) ==
  /\ pc[t] \in {"sender", "recipient"} => req[t].op = "transfer"
  /\ pc[t] = "recipient" => sender[t] # None

IInv ==
  /\ TypeOK
  /\ \A r \in Requests : Placed(r) /\ Unlisted(r) /\ Room(r)
  /\ \A r \in Requests : Reads(r)
  /\ DuplicateNeedsRace
  /\ \A u \in Users : Excess(u)

LEMMA InitIInv ==
  ASSUME Init
  PROVE  IInv
<1>1. TypeOK
  BY DEF Init, TypeOK
<1>2. ASSUME NEW r \in Requests
      PROVE  Placed(r) /\ Unlisted(r) /\ Room(r) /\ Reads(r)
  BY <1>2 DEF Init, Placed, Unlisted, Room, Reads
<1>3. DuplicateNeedsRace
  BY DEF Init, DuplicateNeedsRace
<1>4. ASSUME NEW u \in Users
      PROVE  Excess(u)
  <2>1. PhonesOf(u) = {} /\ PhonesOf(u) \cap overtaken = {}
    BY DEF Init, PhonesOf
  <2>2. Cardinality(PhonesOf(u)) = 0
    BY <2>1, FS_EmptySet
  <2>3. Cardinality(PhonesOf(u) \cap overtaken) = 0
    BY <2>1, FS_EmptySet
  <2>4. QED
    BY <2>2, <2>3, LimitType DEF Excess
<1>5. QED
  BY <1>1, <1>2, <1>3, <1>4 DEF IInv

-----------------------------------------------------------------------------
(* Type correctness *)

\* What the requests on notifications name.
LEMMA RequestKinds ==
  ASSUME TypeOK, NEW r \in Requests
  PROVE  /\ req[r].user \in Users
         /\ req[r].op = "setShow" => req[r].value \in BOOLEAN
         /\ req[r].op = "transfer" => req[r].value \in Users \cup {None}
         /\ req[r].op \in Additions => req[r].value \in Values
BY DEF TypeOK, ProfileRequest, Addition, Additions, Removal, Removals, Setting, Transfer

Documents == [show : BOOLEAN, tokens : SUBSET Values]

LEMMA DocumentType ==
  ASSUME TypeOK, NEW u \in Users
  PROVE  /\ Document(u) \in Documents
         /\ Document(u) \in [show : BOOLEAN, tokens : SUBSET Values]
         /\ Document(u).show = show[u] /\ Document(u).tokens = TokensOf(u)
         /\ Document(u) # None
<1>1. TokensOf(u) \subseteq Values
  <2>1. ASSUME NEW e \in saved, req[e].op = "addToken"
        PROVE  req[e].value \in Values
    BY <2>1, RequestKinds DEF TypeOK, Additions
  <2>2. QED
    BY <2>1 DEF TokensOf
<1>2. QED
  BY <1>1, NoneIsNoDocument DEF TypeOK, Document, Documents

\* What is pushed: a message for each whose document says that it wants one.
LEMMA NotifyFacts ==
  ASSUME TypeOK, NEW r \in Requests, Notify(r), req[r].op = "transfer",
         sender[r] # None
  PROVE  /\ req[r].user \in Users /\ req[r].value \in Users
         /\ sender[r] \in Documents
         /\ \A t \in Requests \ {r} : pushed'[t] = pushed[t]
         /\ pushed'[r] = MessageFor(req[r].user, sender[r])
                           \cup MessageFor(req[r].value, Document(req[r].value))
         /\ pushed' \in [Requests -> SUBSET [user : Users, tokens : SUBSET Values]]
<1>1. /\ req[r].user \in Users /\ req[r].value \in Users
      /\ sender[r] \in Documents
  BY RequestKinds DEF TypeOK, Notify, Documents
<1>2. Document(req[r].value) \in Documents
  BY <1>1, DocumentType
<1>3. ASSUME NEW u \in Users, NEW d \in Documents
      PROVE  MessageFor(u, d) \subseteq [user : Users, tokens : SUBSET Values]
  BY <1>3 DEF MessageFor, Documents
<1>4. PICK messages : messages = MessageFor(req[r].user, sender[r])
                           \cup MessageFor(req[r].value, Document(req[r].value))
  OBVIOUS
<1>5. messages \subseteq [user : Users, tokens : SUBSET Values]
  BY <1>1, <1>2, <1>3, <1>4
<1>6. pushed' = [pushed EXCEPT ![r] = messages]
  BY <1>4 DEF Notify
<1>7. /\ pushed'[r] = messages
      /\ \A t \in Requests \ {r} : pushed'[t] = pushed[t]
      /\ pushed' \in [Requests -> SUBSET [user : Users, tokens : SUBSET Values]]
  BY <1>5, <1>6 DEF TypeOK
<1>8. QED
  BY <1>1, <1>4, <1>7

LEMMA TypeStep ==
  ASSUME TypeOK, \A t \in Requests : Reads(t), [Next]_vars
  PROVE  TypeOK'
<1>1. ASSUME NEW r \in Requests, Receive(r)
      PROVE  TypeOK'
  BY <1>1 DEF TypeOK, Receive, Goto, Answer, lists, notices
<1>2. ASSUME NEW r \in Requests, CheckAddition(r)
      PROVE  TypeOK'
  BY <1>2 DEF TypeOK, CheckAddition, Goto, Answer, lists, notices
<1>3. ASSUME NEW r \in Requests, CountPhones(r)
      PROVE  TypeOK'
  BY <1>3 DEF TypeOK, CountPhones, Goto, Answer, lists, notices
<1>4. ASSUME NEW r \in Requests, Push(r)
      PROVE  TypeOK'
  BY <1>4 DEF TypeOK, Push, Goto, Answer, notices
<1>5. ASSUME NEW r \in Requests, CheckRemoval(r)
      PROVE  TypeOK'
  BY <1>5 DEF TypeOK, CheckRemoval, Goto, Answer, lists, notices
<1>6. ASSUME NEW r \in Requests, PullPhone(r)
      PROVE  TypeOK'
  BY <1>6 DEF TypeOK, PullPhone, Goto, Answer, notices
<1>7. ASSUME NEW r \in Requests, PullCard(r)
      PROVE  TypeOK'
  BY <1>7 DEF TypeOK, PullCard, Goto, lists, notices
<1>8. ASSUME NEW r \in Requests, SetShow(r)
      PROVE  TypeOK'
  BY <1>8, RequestKinds DEF TypeOK, SetShow, Goto, Answer, lists
<1>9. ASSUME NEW r \in Requests, Pay(r)
      PROVE  TypeOK'
  BY <1>9 DEF TypeOK, Pay, Goto, Answer, lists
<1>10. ASSUME NEW r \in Requests, ReadSender(r)
       PROVE  TypeOK'
  BY <1>10, RequestKinds, DocumentType DEF TypeOK, ReadSender, Goto, lists
<1>11. ASSUME NEW r \in Requests, Notify(r)
       PROVE  TypeOK'
  BY <1>11, NotifyFacts DEF TypeOK, Reads, Notify, Goto, lists
<1>12. ASSUME NEW r \in Requests, LoseNotice(r)
       PROVE  TypeOK'
  BY <1>12 DEF TypeOK, LoseNotice, Goto, lists, notices
<1>13. CASE Crash
  BY <1>13 DEF TypeOK, Crash, lists, notices
<1>14. CASE UNCHANGED vars
  BY <1>14 DEF TypeOK, vars, lists, notices
<1>15. QED
  BY <1>1, <1>2, <1>3, <1>4, <1>5, <1>6, <1>7, <1>8, <1>9, <1>10, <1>11, <1>12,
     <1>13, <1>14 DEF Next, Step

-----------------------------------------------------------------------------
(* The invariant holds at every step *)

\* A step that leaves the lists alone: only the handlers that moved on matter.
LEMMA ListsUnchanged ==
  ASSUME IInv, TypeOK', UNCHANGED <<req, lists>>,
         \A r \in Requests : pc'[r] # pc[r] => Placed(r)' /\ Unlisted(r)' /\ Room(r)',
         \A r \in Requests : Reads(r)'
  PROVE  IInv'
<1>1. \A u : PhonesOf(u)' = PhonesOf(u)
  BY DEF PhonesOf, lists
<1>2. ASSUME NEW r \in Requests, pc'[r] = pc[r]
      PROVE  Placed(r)' /\ Unlisted(r)' /\ Room(r)'
  BY <1>1, <1>2 DEF IInv, Placed, Unlisted, Room, Taken, SameEntry, lists
<1>3. DuplicateNeedsRace'
  BY DEF IInv, DuplicateNeedsRace, SameEntry, lists
<1>4. \A u \in Users : Excess(u)'
  BY <1>1 DEF IInv, Excess, lists
<1>5. QED
  BY <1>2, <1>3, <1>4 DEF IInv

\* A look-up that found nothing, or a count below the limit, holds at once.
LEMMA LookStep ==
  ASSUME IInv, TypeOK', NEW r \in Requests,
         Receive(r) \/ CheckAddition(r) \/ CountPhones(r) \/ CheckRemoval(r)
                    \/ PullCard(r)
  PROVE  IInv'
<1>1. UNCHANGED <<req, saved, outdated, overtaken, sender>>
  BY DEF Receive, CheckAddition, CountPhones, CheckRemoval, PullCard, lists, notices
<1>2. \A u : PhonesOf(u)' = PhonesOf(u)
  BY <1>1 DEF PhonesOf
<1>3. Taken(r)' <=> Taken(r)
  BY <1>1 DEF Taken, SameEntry
<1>4. /\ \E label : pc' = [pc EXCEPT ![r] = label]
      /\ pc[r] \in {"idle", "check", "count", "pull"}
  BY DEF Receive, CheckAddition, CountPhones, CheckRemoval, PullCard, Goto
<1>5. r \notin saved
  BY <1>4 DEF IInv, Placed
<1>6. Placed(r)'
  <2>1. pc'[r] \in {"count", "push"} => req[r].op \in Additions
    BY DEF IInv, TypeOK, Placed, Receive, CheckAddition, CountPhones,
           CheckRemoval, PullCard, Goto
  <2>2. pc'[r] = "count" => req[r].op = "addPhone"
    BY DEF IInv, TypeOK, Placed, Receive, CheckAddition, CountPhones,
           CheckRemoval, PullCard, Goto
  <2>3. QED
    BY <1>1, <1>5, <2>1, <2>2 DEF Placed
<1>7. Unlisted(r)'
  <2>1. CASE CheckAddition(r)
    BY <1>1, <1>3, <2>1 DEF IInv, TypeOK, Unlisted, CheckAddition, Goto
  <2>2. CASE CountPhones(r)
    BY <1>1, <1>3, <2>2 DEF IInv, TypeOK, Unlisted, CountPhones, Goto
  <2>3. CASE Receive(r) \/ CheckRemoval(r) \/ PullCard(r)
    BY <2>3 DEF IInv, TypeOK, Unlisted, Receive, CheckRemoval, PullCard, Goto
  <2>4. QED
    BY <2>1, <2>2, <2>3
<1>8. Room(r)'
  <2>1. CASE CountPhones(r)
    <3>1. Cardinality(PhonesOf(req[r].user)) \in Nat
      BY PhonesFinite DEF IInv, TypeOK
    <3>2. pc'[r] = "push" => Cardinality(PhonesOf(req[r].user)) < MaxPhones
      BY <2>1, <3>1, LimitType DEF IInv, TypeOK, CountPhones, Goto
    <3>3. QED
      BY <1>1, <1>2, <3>2 DEF Room
  <2>2. CASE CheckAddition(r)
    BY <1>1, <2>2 DEF IInv, TypeOK, Room, CheckAddition, Goto
  <2>3. CASE Receive(r) \/ CheckRemoval(r) \/ PullCard(r)
    BY <2>3 DEF IInv, TypeOK, Room, Receive, CheckRemoval, PullCard, Goto
  <2>4. QED
    BY <2>1, <2>2, <2>3
<1>9. \A q \in Requests : pc'[q] # pc[q] => q = r
  BY <1>4 DEF IInv, TypeOK
<1>10. pc'[r] \notin {"sender", "recipient"}
  BY DEF IInv, TypeOK, Receive, CheckAddition, CountPhones, CheckRemoval, PullCard, Goto
<1>11. \A q \in Requests : Reads(q)'
  BY <1>1, <1>9, <1>10 DEF IInv, Reads
<1>12. QED
  BY <1>1, <1>6, <1>7, <1>8, <1>9, <1>11, ListsUnchanged DEF lists

\* An addition outdates the look-ups of its value and overtakes the counts of
\* its user, so those that still count are of other entries.
LEMMA PushStep ==
  ASSUME IInv, TypeOK', NEW r \in Requests, Push(r)
  PROVE  IInv'
<1>1. /\ req' = req
      /\ saved' = saved \cup {r}
      /\ pc[r] = "push"
      /\ pc' = [pc EXCEPT ![r] = "done"]
      /\ outdated \subseteq outdated' /\ overtaken \subseteq overtaken'
  BY DEF Push, Goto
<1>2. r \notin saved /\ req[r].op \in Additions
  BY <1>1 DEF IInv, Placed
<1>3. \A q \in Requests : Placed(q)'
  BY <1>1, <1>2 DEF IInv, TypeOK, Placed
<1>4. ASSUME NEW q \in Requests
      PROVE  Unlisted(q)'
  <2>1. SUFFICES ASSUME pc'[q] \in {"count", "push"}, q \notin outdated',
                        NEW e \in saved', SameEntry(e, q)'
                 PROVE  FALSE
    BY DEF Unlisted, Taken
  <2>2. q # r /\ pc[q] \in {"count", "push"} /\ q \notin outdated
    BY <1>1, <2>1 DEF IInv, TypeOK
  <2>3. SameEntry(e, q) /\ SameEntry(q, e)
    BY <1>1, <2>1 DEF SameEntry
  <2>4. e # r
    BY <2>1, <2>2, <2>3 DEF Push
  <2>5. QED
    BY <1>1, <2>1, <2>2, <2>3, <2>4 DEF IInv, Unlisted, Taken
<1>5. DuplicateNeedsRace'
  <2>1. SUFFICES ASSUME NEW e \in saved', NEW f \in saved', e # f,
                        SameEntry(e, f)'
                 PROVE  e \in outdated' \/ f \in outdated'
    BY DEF DuplicateNeedsRace
  <2>2. SameEntry(e, f) /\ SameEntry(f, e)
    BY <1>1, <2>1 DEF SameEntry
  <2>3. CASE e \in saved /\ f \in saved
    BY <1>1, <2>1, <2>2, <2>3 DEF IInv, DuplicateNeedsRace
  <2>4. CASE e = r \/ f = r
    BY <1>1, <2>1, <2>2, <2>4 DEF IInv, Unlisted, Taken
  <2>5. QED
    BY <1>1, <2>1, <2>3, <2>4
<1>6. ASSUME NEW u, ~(req[r].op = "addPhone" /\ req[r].user = u)
      PROVE  PhonesOf(u)' = PhonesOf(u)
  BY <1>1, <1>6 DEF PhonesOf
<1>7. ASSUME NEW u, req[r].op = "addPhone", req[r].user = u
      PROVE  PhonesOf(u)' = PhonesOf(u) \cup {r}
  BY <1>1, <1>7 DEF PhonesOf
<1>8. ASSUME NEW q \in Requests
      PROVE  Room(q)'
  <2> PICK u : u = req[q].user /\ u = req'[q].user
    BY <1>1
  <2>1. SUFFICES ASSUME pc'[q] = "push", req[q].op = "addPhone",
                        q \notin overtaken'
                 PROVE  Cardinality(PhonesOf(u)') < MaxPhones
    BY <1>1 DEF Room
  <2>2. q # r /\ pc[q] = "push" /\ q \notin overtaken
    BY <1>1, <2>1 DEF IInv, TypeOK
  <2>3. ~(req[r].op = "addPhone" /\ req[r].user = u)
    BY <2>1, <2>2 DEF Push
  <2>4. PhonesOf(u)' = PhonesOf(u)
    BY <1>6, <2>3
  <2>5. QED
    BY <2>1, <2>2, <2>4 DEF IInv, Room
<1>9. PhonesOf(req[r].user) \cap overtaken' = PhonesOf(req[r].user) \cap overtaken
      /\ \A u : PhonesOf(u) \cap overtaken' = PhonesOf(u) \cap overtaken
  <2>1. \A q \in saved : q \in overtaken' => q \in overtaken
    BY DEF IInv, TypeOK, Placed, Push
  <2>2. QED
    BY <1>1, <2>1 DEF PhonesOf
<1>10. r \in overtaken' <=> r \in overtaken
  BY DEF Push
<1>11. ASSUME NEW u \in Users
       PROVE  Excess(u)'
  <2>1. CASE ~(req[r].op = "addPhone" /\ req[r].user = u)
    BY <1>6, <1>9, <2>1 DEF IInv, Excess
  <2>2. CASE req[r].op = "addPhone" /\ req[r].user = u
    <3> DEFINE P == PhonesOf(u)
               O == PhonesOf(u) \cap overtaken
    <3>1. P' = P \cup {r} /\ r \notin P
      BY <1>2, <1>7, <2>2 DEF PhonesOf
    <3>2. /\ IsFiniteSet(P) /\ Cardinality(P) \in Nat
          /\ IsFiniteSet(O) /\ Cardinality(O) \in Nat
      BY PhonesFinite DEF IInv, TypeOK
    <3>3. Cardinality(P') = Cardinality(P) + 1
      BY <3>1, <3>2, FS_AddElement
    <3>4. CASE r \in overtaken
      <4>1. O' = O \cup {r} /\ r \notin O
        BY <1>9, <1>10, <3>1, <3>4
      <4>2. Cardinality(O') = Cardinality(O) + 1
        BY <3>2, <4>1, FS_AddElement
      <4>3. Cardinality(P) <= MaxPhones + Cardinality(O)
        BY DEF IInv, Excess
      <4>4. QED
        BY <3>2, <3>3, <4>2, <4>3, LimitType DEF Excess
    <3>5. CASE r \notin overtaken
      <4>1. O' = O
        BY <1>9, <1>10, <3>1, <3>5
      <4>2. Cardinality(P) < MaxPhones
        BY <1>1, <2>2, <3>5 DEF IInv, Room
      <4>3. Cardinality(O') = Cardinality(O)
        BY <4>1
      <4>4. Cardinality(P') <= MaxPhones + Cardinality(O')
        <5> HIDE DEF P, O
        <5>1. QED
          BY <3>2, <3>3, <4>2, <4>3, LimitType
      <4>5. QED
        BY <4>4 DEF Excess
    <3>6. QED
      BY <3>4, <3>5
  <2>3. QED
    BY <2>1, <2>2
<1>12. \A q \in Requests : Reads(q)'
  BY <1>1 DEF IInv, TypeOK, Reads, Push, notices
<1>13. QED
  BY <1>3, <1>4, <1>5, <1>8, <1>11, <1>12 DEF IInv

\* A removal shortens the lists: every look-up and count holds all the more.
LEMMA PullStep ==
  ASSUME IInv, TypeOK', NEW r \in Requests, PullPhone(r)
  PROVE  IInv'
<1> DEFINE x == req[r].entry
<1>1. /\ UNCHANGED <<req, outdated, overtaken>>
      /\ pc[r] = "pull" /\ pc' = [pc EXCEPT ![r] = "done"]
      /\ saved' = saved \/ saved' = saved \ {x}
  BY DEF PullPhone, Goto
<1>2. saved' \subseteq saved
  BY <1>1
<1>3. /\ \A u : PhonesOf(u)' = PhonesOf(u) \/ PhonesOf(u)' = PhonesOf(u) \ {x}
      /\ \A q \in Requests : Taken(q)' => Taken(q)
  BY <1>1 DEF PhonesOf, Taken, SameEntry
<1>4. ASSUME NEW u
      PROVE  /\ Cardinality(PhonesOf(u)) \in Nat
             /\ Cardinality(PhonesOf(u)') \in Nat
             /\ Cardinality(PhonesOf(u)') <= Cardinality(PhonesOf(u))
             /\ Excess(u) => Excess(u)'
  <2> DEFINE P == PhonesOf(u)
             O == PhonesOf(u) \cap overtaken
  <2>1. /\ IsFiniteSet(P) /\ Cardinality(P) \in Nat
        /\ IsFiniteSet(O) /\ Cardinality(O) \in Nat
    BY PhonesFinite DEF IInv, TypeOK
  <2>2. CASE P' = P
    BY <1>1, <2>1, <2>2 DEF Excess
  <2>3. CASE P' = P \ {x} /\ x \in P
    <3>1. Cardinality(P') = Cardinality(P) - 1
      BY <2>1, <2>3, FS_RemoveElement
    <3>2. O' = O \ {x} /\ (x \notin O => x \notin overtaken)
      BY <1>1, <2>3
    <3>3. Cardinality(O') = IF x \in O THEN Cardinality(O) - 1 ELSE Cardinality(O)
      <4>1. IsFiniteSet(O) /\ O' = O \ {x}
        BY <2>1, <3>2
      <4> HIDE DEF O, x
      <4>2. QED
        BY <4>1, FS_RemoveElement
    <3>4. P # {}
      BY <2>3
    <3>5. Cardinality(P) # 0
      BY <2>1, <3>4, FS_EmptySet
    <3>6. Excess(u) => Excess(u)'
      BY <2>1, <3>1, <3>3, LimitType DEF Excess
    <3>7. QED
      BY <2>1, <3>1, <3>5, <3>6
  <2>4. QED
    BY <1>3, <2>2, <2>3
<1>5. ASSUME NEW q \in Requests
      PROVE  Placed(q)' /\ Unlisted(q)' /\ Room(q)'
  <2>1. Placed(q)'
    BY <1>1, <1>2 DEF IInv, TypeOK, Placed
  <2>2. Unlisted(q)'
    BY <1>1, <1>3 DEF IInv, TypeOK, Unlisted
  <2>3. Room(q)'
    <3> PICK u : u = req[q].user /\ u = req'[q].user
      BY <1>1
    <3>1. pc'[q] = "push" => pc[q] = "push"
      BY <1>1 DEF IInv, TypeOK
    <3>2. Cardinality(PhonesOf(u)) < MaxPhones
            => Cardinality(PhonesOf(u)') < MaxPhones
      BY <1>4, LimitType
    <3>3. QED
      BY <1>1, <3>1, <3>2 DEF IInv, Room
  <2>4. QED
    BY <2>1, <2>2, <2>3
<1>6. DuplicateNeedsRace'
  BY <1>1, <1>2 DEF IInv, DuplicateNeedsRace, SameEntry
<1>7. \A q \in Requests : Reads(q)'
  BY <1>1 DEF IInv, TypeOK, Reads, PullPhone, notices
<1>8. QED
  BY <1>4, <1>5, <1>6, <1>7 DEF IInv

\* The handlers of flags and transfers touch no list.
LEMMA NoticeStep ==
  ASSUME IInv, TypeOK', NEW r \in Requests,
         SetShow(r) \/ Pay(r) \/ ReadSender(r) \/ Notify(r) \/ LoseNotice(r)
  PROVE  IInv'
<1>1. /\ UNCHANGED <<req, lists>>
      /\ \A q \in Requests \ {r} : pc'[q] = pc[q] /\ sender'[q] = sender[q]
      /\ pc'[r] \in {"sender", "recipient", "done", "dead"}
      /\ pc'[r] = "sender" => req[r].op = "transfer"
      /\ pc'[r] = "recipient" => /\ pc[r] = "sender"
                                 /\ sender'[r] = Document(req[r].user)
      /\ pc[r] \in {"idle", "sender", "recipient"}
  BY DEF IInv, TypeOK, SetShow, Pay, ReadSender, Notify, LoseNotice, Goto, notices
<1>2. Document(req[r].user) # None
  BY RequestKinds, DocumentType DEF IInv
<1>3. \A q \in Requests : Reads(q)'
  BY <1>1, <1>2 DEF IInv, Reads
<1>4. Placed(r)' /\ Unlisted(r)' /\ Room(r)'
  BY <1>1 DEF IInv, Placed, Unlisted, Room, lists
<1>5. QED
  BY <1>1, <1>3, <1>4, ListsUnchanged

LEMMA StepIInv ==
  ASSUME IInv, [Next]_vars
  PROVE  IInv'
<1>1. TypeOK'
  BY TypeStep DEF IInv
<1>2. CASE \E r \in Requests : Step(r)
  BY <1>1, <1>2, LookStep, PushStep, PullStep, NoticeStep DEF Step
<1>3. CASE Crash
  <2>1. ASSUME NEW r \in Requests, pc'[r] # pc[r]
        PROVE  Placed(r)' /\ Unlisted(r)' /\ Room(r)'
    BY <1>3, <2>1 DEF IInv, TypeOK, Crash, Placed, Unlisted, Room, lists
  <2>2. \A r \in Requests : Reads(r)'
    BY <1>3 DEF IInv, TypeOK, Crash, Reads, notices
  <2>3. QED
    BY <1>1, <1>3, <2>1, <2>2, ListsUnchanged DEF Crash
<1>4. CASE UNCHANGED vars
  <2>1. \A r \in Requests : Reads(r)'
    BY <1>4 DEF IInv, Reads, vars, notices
  <2>2. QED
    BY <1>1, <1>4, <2>1, ListsUnchanged DEF vars
<1>5. QED
  BY <1>2, <1>3, <1>4 DEF Next

LEMMA Invariance == Spec => []IInv
BY InitIInv, StepIInv, PTL DEF Spec

-----------------------------------------------------------------------------
(* Results *)

\* Every variable keeps its type.
THEOREM TypeCorrect == Spec => []TypeOK
<1>1. IInv => TypeOK
  BY DEF IInv
<1>2. QED
  BY <1>1, Invariance, PTL

\* Requests that do not overlap keep the lists free of duplicates.
THEOREM DuplicatesRaced == Spec => []DuplicateNeedsRace
<1>1. IInv => DuplicateNeedsRace
  BY DEF IInv
<1>2. QED
  BY <1>1, Invariance, PTL

\* The limit on phone numbers, whatever it is, is exceeded by no more than were
\* pushed on a stale count.
THEOREM ExcessRaced == Spec => []ExcessNeedsRace
<1>1. IInv => ExcessNeedsRace
  BY DEF IInv, Excess, ExcessNeedsRace
<1>2. QED
  BY <1>1, Invariance, PTL

\* Only the owner of a document removes entries from it.
THEOREM OwnersRemove == Spec => OnlyOwnerRemoves
<1> DEFINE OwnerAsked(e) ==
      \E r \in Requests : /\ pc[r] = "pull" /\ pc'[r] = "done"
                          /\ req[r].entry = e
                          /\ req[r].user = req[e].user
<1>1. ASSUME TypeOK, [Next]_vars, NEW e \in saved \ saved'
      PROVE  OwnerAsked(e)
  <2>1. PICK r \in Requests : PullPhone(r)
    <3>1. ASSUME NEW r \in Requests, Step(r), ~PullPhone(r)
          PROVE  saved \subseteq saved'
      BY <3>1 DEF Step, Receive, CheckAddition, CountPhones, Push, CheckRemoval,
                  PullCard, SetShow, Pay, ReadSender, Notify, LoseNotice, lists
    <3>2. QED
      BY <1>1, <3>1 DEF Next, Crash, vars, lists
  <2>2. OwnEntry(r) /\ e = req[r].entry
    BY <1>1, <2>1 DEF PullPhone
  <2>3. pc[r] = "pull" /\ pc'[r] = "done"
    BY <1>1, <2>1 DEF PullPhone, Goto, TypeOK
  <2>4. QED
    BY <2>2, <2>3 DEF OwnEntry
<1>2. TypeOK /\ [Next]_vars => [\A e \in saved \ saved' : OwnerAsked(e)]_vars
  BY <1>1
<1>3. QED
  BY <1>2, TypeCorrect, PTL DEF Spec, OnlyOwnerRemoves

-----------------------------------------------------------------------------
(* Notifications *)

\* The flags of a transfer on its way hold what every user wants now, and what
\* the sender wanted when it was read.
Noticed(t) ==
  /\ pc[t] \in {"check", "count", "push", "pull"} => req[t].op # "transfer"
  /\ t \in Notifying => /\ reply[t] = "ok" /\ pushed[t] = {}
                        /\ \A u \in Users : <<u, show[u]>> \in flags[t]
  /\ pc[t] = "recipient" => <<req[t].user, sender[t].show>> \in flags[t]
  /\ pushed[t] # {} => pc[t] = "done" /\ reply[t] = "ok" /\ req[t].op = "transfer"

Told(t) ==
  req[t].op = "transfer" /\ pc[t] = "done" /\ reply[t] = "ok" =>
    \A u \in {req[t].user, req[t].value} :
      <<u, \E m \in pushed[t] : m.user = u>> \in flags[t]

\* A device is known by the entry that saved its token.
Known(u, device) ==
  \E e \in saved : /\ req[e].op = "addToken"
                   /\ req[e].user = u
                   /\ req[e].value = device

Devices(t) ==
  /\ pc[t] = "recipient" => \A d \in sender[t].tokens : Known(req[t].user, d)
  /\ \A m \in pushed[t] : \A d \in m.tokens : Known(m.user, d)

NInv == \A t \in Requests : Noticed(t) /\ Told(t) /\ Devices(t)

\* No step takes a token out of a document.
LEMMA TokensStay ==
  ASSUME IInv, [Next]_vars, NEW u, NEW device, Known(u, device)
  PROVE  Known(u, device)'
<1>1. PICK e \in saved : /\ req[e].op = "addToken"
                         /\ req[e].user = u
                         /\ req[e].value = device
  BY DEF Known
<1>2. req' = req
  BY DEF Next, Step, Receive, CheckAddition, CountPhones, Push, CheckRemoval,
         PullPhone, PullCard, SetShow, Pay, ReadSender, Notify, LoseNotice, Crash, vars
<1>3. e \in saved'
  <2>1. ASSUME NEW r \in Requests, PullPhone(r)
        PROVE  e \in saved'
    BY <1>1, <2>1 DEF PullPhone, OwnEntry, AddedBy
  <2>2. ASSUME NEW r \in Requests, Step(r), ~PullPhone(r)
        PROVE  e \in saved'
    BY <1>1, <2>2 DEF Step, Receive, CheckAddition, CountPhones, Push, CheckRemoval,
                      PullCard, SetShow, Pay, ReadSender, Notify, LoseNotice, lists
  <2>3. QED
    BY <1>1, <2>1, <2>2 DEF Next, Crash, vars, lists
<1>4. QED
  BY <1>1, <1>2, <1>3 DEF Known

\* t stays where it is, or dies; what it has to hear of the flags it hears.
Undisturbed(t) ==
  /\ pc'[t] = pc[t] \/ (pc'[t] = "dead" /\ pc[t] # "done")
  /\ reply'[t] = reply[t] /\ sender'[t] = sender[t] /\ pushed'[t] = pushed[t]
  /\ \A pair \in flags[t] : pair \in flags'[t]
  /\ t \in Notifying => \A u \in Users : <<u, show'[u]>> \in flags'[t]

LEMMA NoticeUnmoved ==
  ASSUME IInv, NInv, [Next]_vars, req' = req, NEW t \in Requests, Undisturbed(t)
  PROVE  Noticed(t)' /\ Told(t)' /\ Devices(t)'
<1>1. Noticed(t)'
  BY DEF NInv, Noticed, Notifying, Undisturbed
<1>2. Told(t)'
  BY DEF NInv, Noticed, Told, Undisturbed
<1>3. Devices(t)'
  BY TokensStay DEF NInv, Devices, Undisturbed
<1>4. QED
  BY <1>1, <1>2, <1>3

\* A step that leaves the flags alone disturbs none of those it does not move.
LEMMA Standing ==
  ASSUME NInv, show' = show, NEW t \in Requests,
         pc'[t] = pc[t] \/ (pc'[t] = "dead" /\ pc[t] # "done"),
         reply'[t] = reply[t], sender'[t] = sender[t], pushed'[t] = pushed[t],
         flags'[t] = flags[t]
  PROVE  Undisturbed(t)
BY DEF NInv, Noticed, Undisturbed

\* The handlers of the lists notify nobody.
LEMMA ListHandlers ==
  ASSUME IInv, NInv, NEW r \in Requests,
         Receive(r) \/ CheckAddition(r) \/ CountPhones(r) \/ Push(r)
           \/ CheckRemoval(r) \/ PullPhone(r) \/ PullCard(r)
  PROVE  NInv'
<1>1. [Next]_vars
  BY DEF Next, Step
<1>2. /\ UNCHANGED <<req, notices>>
      /\ \A t \in Requests \ {r} : pc'[t] = pc[t] /\ reply'[t] = reply[t]
      /\ pc[r] \in {"idle", "check", "count", "push", "pull"}
      /\ pc'[r] \in {"check", "count", "push", "pull", "done", "dead"}
      /\ pc[r] = "idle" => req[r].op \in Additions \cup Removals
  BY DEF IInv, TypeOK, Receive, CheckAddition, CountPhones, Push, CheckRemoval,
         PullPhone, PullCard, Goto, Answer
<1>3. req[r].op # "transfer" /\ pushed[r] = {}
  BY <1>2 DEF NInv, Noticed, Additions, Removals
<1>4. Noticed(r)' /\ Told(r)' /\ Devices(r)'
  BY <1>2, <1>3 DEF Noticed, Told, Devices, Notifying, notices
<1>5. ASSUME NEW t \in Requests \ {r}
      PROVE  Noticed(t)' /\ Told(t)' /\ Devices(t)'
  BY <1>1, <1>2, Standing, NoticeUnmoved DEF notices
<1>6. QED
  BY <1>4, <1>5 DEF NInv

LEMMA FlagSet ==
  ASSUME IInv, NInv, NEW r \in Requests, SetShow(r)
  PROVE  NInv'
<1>1. [Next]_vars
  BY DEF Next, Step
<1>2. /\ UNCHANGED <<req, sender, pushed>>
      /\ \A t \in Requests \ {r} : pc'[t] = pc[t] /\ reply'[t] = reply[t]
      /\ pc[r] = "idle" /\ pc'[r] = "done" /\ req[r].op = "setShow"
      /\ \A t \in Requests : flags[t] \subseteq flags'[t]
      /\ \A t \in Notifying : <<req[r].user, req[r].value>> \in flags'[t]
      /\ show'[req[r].user] = req[r].value
      /\ \A u \in Users \ {req[r].user} : show'[u] = show[u]
  BY RequestKinds DEF IInv, TypeOK, SetShow, Goto, Answer, Notifying
<1>3. Noticed(r)' /\ Told(r)' /\ Devices(r)'
  BY <1>2 DEF NInv, Noticed, Told, Devices, Notifying
<1>4. ASSUME NEW t \in Requests \ {r}
      PROVE  Noticed(t)' /\ Told(t)' /\ Devices(t)'
  <2>1. ASSUME t \in Notifying, NEW u \in Users
        PROVE  <<u, show'[u]>> \in flags'[t]
    <3>1. <<u, show[u]>> \in flags[t]
      BY <2>1 DEF NInv, Noticed
    <3>2. CASE u = req[r].user
      BY <1>2, <2>1, <3>2
    <3>3. CASE u # req[r].user
      BY <1>2, <3>1, <3>3
    <3>4. QED
      BY <3>2, <3>3
  <2>2. Undisturbed(t)
    BY <1>2, <2>1 DEF Undisturbed
  <2>3. QED
    BY <1>1, <1>2, <2>2, NoticeUnmoved
<1>5. QED
  BY <1>3, <1>4 DEF NInv

\* What others do not notice: a step of one transfer.
LEMMA OtherTransfers ==
  ASSUME IInv, NInv, [Next]_vars, NEW r \in Requests, UNCHANGED <<req, show>>,
         NEW t \in Requests \ {r}, pc'[t] = pc[t], reply'[t] = reply[t],
         sender'[t] = sender[t], pushed'[t] = pushed[t], flags'[t] = flags[t]
  PROVE  Noticed(t)' /\ Told(t)' /\ Devices(t)'
<1>1. Undisturbed(t)
  BY Standing
<1>2. QED
  BY <1>1, NoticeUnmoved

LEMMA Payment ==
  ASSUME IInv, NInv, NEW r \in Requests, Pay(r)
  PROVE  NInv'
<1>1. [Next]_vars
  BY DEF Next, Step
<1>2. /\ UNCHANGED <<req, sender, pushed, show>>
      /\ \A t \in Requests \ {r} :
           pc'[t] = pc[t] /\ reply'[t] = reply[t] /\ flags'[t] = flags[t]
      /\ pc[r] = "idle" /\ req[r].op = "transfer"
      /\ \/ /\ pc'[r] = "sender" /\ reply'[r] = "ok"
            /\ \A u \in Users : <<u, show[u]>> \in flags'[r]
         \/ pc'[r] = "done" /\ reply'[r] # "ok"
  BY DEF IInv, TypeOK, Pay, Goto, Answer
<1>3. Noticed(r)' /\ Told(r)' /\ Devices(r)'
  BY <1>2 DEF NInv, Noticed, Told, Devices, Notifying
<1>4. ASSUME NEW t \in Requests \ {r}
      PROVE  Noticed(t)' /\ Told(t)' /\ Devices(t)'
  BY <1>1, <1>2, OtherTransfers
<1>5. QED
  BY <1>3, <1>4 DEF NInv

LEMMA TokensKnown ==
  ASSUME NEW u, NEW d \in TokensOf(u)
  PROVE  Known(u, d)
BY DEF TokensOf, Known

LEMMA SenderRead ==
  ASSUME IInv, NInv, NEW r \in Requests, ReadSender(r)
  PROVE  NInv'
<1> DEFINE u == req[r].user
<1>1. [Next]_vars
  BY DEF Next, Step
<1>2. /\ UNCHANGED <<req, reply, pushed, show, flags, saved>>
      /\ \A t \in Requests \ {r} : pc'[t] = pc[t] /\ sender'[t] = sender[t]
      /\ pc[r] = "sender" /\ pc'[r] = "recipient" /\ sender'[r] = Document(u)
  BY DEF IInv, TypeOK, ReadSender, Goto, lists
<1>3. u \in Users /\ Document(u).show = show[u] /\ Document(u).tokens = TokensOf(u)
  BY RequestKinds, DocumentType DEF IInv
<1>4. Noticed(r)' /\ Told(r)'
  BY <1>2, <1>3 DEF NInv, Noticed, Told, Notifying
<1>5. Devices(r)'
  <2>1. \A d \in sender'[r].tokens : Known(u, d)
    BY <1>2, <1>3, TokensKnown
  <2>2. pushed'[r] = {}
    BY <1>2 DEF NInv, Noticed, Notifying
  <2>3. QED
    BY <1>2, <2>1, <2>2 DEF Devices, Known
<1>6. ASSUME NEW t \in Requests \ {r}
      PROVE  Noticed(t)' /\ Told(t)' /\ Devices(t)'
  BY <1>1, <1>2, OtherTransfers
<1>7. QED
  BY <1>4, <1>5, <1>6 DEF NInv

\* There is a message for u, and only for u, if the document says so.
LEMMA Messages ==
  ASSUME NEW u, NEW d \in Documents
  PROVE  /\ d.show = TRUE => MessageFor(u, d) = {[user |-> u, tokens |-> d.tokens]}
         /\ d.show = FALSE => MessageFor(u, d) = {}
         /\ d.show = TRUE \/ d.show = FALSE
BY DEF MessageFor, Documents

LEMMA Notification ==
  ASSUME IInv, NInv, NEW r \in Requests, Notify(r)
  PROVE  NInv'
<1> DEFINE u == req[r].user
           v == req[r].value
<1>1. [Next]_vars
  BY DEF Next, Step
<1>2. /\ pc[r] = "recipient" /\ req[r].op = "transfer" /\ sender[r] # None
      /\ reply[r] = "ok"
      /\ <<u, sender[r].show>> \in flags[r]
      /\ \A w \in Users : <<w, show[w]>> \in flags[r]
      /\ \A d \in sender[r].tokens : Known(u, d)
  BY DEF IInv, NInv, Reads, Noticed, Devices, Notify, Notifying
<1>3. /\ u \in Users /\ v \in Users /\ sender[r] \in Documents
      /\ \A t \in Requests \ {r} : pushed'[t] = pushed[t]
      /\ pushed'[r] = MessageFor(u, sender[r]) \cup MessageFor(v, Document(v))
  BY <1>2, NotifyFacts DEF IInv
<1>4. Document(v).show = show[v] /\ Document(v).tokens = TokensOf(v)
  BY <1>3, DocumentType DEF IInv
<1>5. /\ UNCHANGED <<req, reply, sender, show, flags, saved>>
      /\ \A t \in Requests \ {r} : pc'[t] = pc[t]
      /\ pc'[r] = "done"
  BY DEF IInv, TypeOK, Notify, Goto, lists
<1>6. ASSUME NEW w \in {u, v}
      PROVE  <<w, \E m \in pushed'[r] : m.user = w>> \in flags[r]
  <2>1. /\ sender[r].show = TRUE => MessageFor(u, sender[r])
                                       = {[user |-> u, tokens |-> sender[r].tokens]}
        /\ sender[r].show = FALSE => MessageFor(u, sender[r]) = {}
        /\ sender[r].show = TRUE \/ sender[r].show = FALSE
    BY <1>3, Messages
  <2>2. /\ show[v] = TRUE => MessageFor(v, Document(v))
                                = {[user |-> v, tokens |-> TokensOf(v)]}
        /\ show[v] = FALSE => MessageFor(v, Document(v)) = {}
        /\ show[v] = TRUE \/ show[v] = FALSE
    BY <1>3, <1>4, Messages, DocumentType DEF IInv
  <2>3. ASSUME NEW m \in pushed'[r]
        PROVE  \/ m.user = u /\ sender[r].show = TRUE
               \/ m.user = v /\ show[v] = TRUE
    BY <1>3, <2>1, <2>2, <2>3
  <2>4. ASSUME ~ \E m \in pushed'[r] : m.user = w
        PROVE  /\ w = u => sender[r].show = FALSE
               /\ w = v => show[v] = FALSE
    <3>1. ASSUME w = u, sender[r].show = TRUE
          PROVE  FALSE
      <4>1. [user |-> u, tokens |-> sender[r].tokens] \in pushed'[r]
        BY <1>3, <2>1, <3>1
      <4>2. QED
        BY <2>4, <3>1, <4>1
    <3>2. ASSUME w = v, show[v] = TRUE
          PROVE  FALSE
      <4>1. [user |-> v, tokens |-> TokensOf(v)] \in pushed'[r]
        BY <1>3, <2>2, <3>2
      <4>2. QED
        BY <2>4, <3>2, <4>1
    <3>3. QED
      BY <2>1, <2>2, <3>1, <3>2
  <2>5. <<u, sender[r].show>> \in flags[r] /\ <<v, show[v]>> \in flags[r]
    BY <1>2, <1>3
  <2>6. ASSUME \E m \in pushed'[r] : m.user = w
        PROVE  <<w, TRUE>> \in flags[r]
    BY <2>3, <2>5, <2>6
  <2>7. ASSUME ~ \E m \in pushed'[r] : m.user = w
        PROVE  <<w, FALSE>> \in flags[r]
    BY <1>6, <2>4, <2>5, <2>7
  <2>8. CASE \E m \in pushed'[r] : m.user = w
    <3>1. (\E m \in pushed'[r] : m.user = w) = TRUE
      BY <2>8
    <3>2. QED
      BY <2>6, <2>8, <3>1
  <2>9. CASE ~ \E m \in pushed'[r] : m.user = w
    <3>1. (\E m \in pushed'[r] : m.user = w) = FALSE
      BY <2>9
    <3>2. QED
      BY <2>7, <2>9, <3>1
  <2>10. QED
    BY <2>8, <2>9
<1>7. Noticed(r)'
  BY <1>2, <1>5 DEF Noticed, Notifying
<1>8. Told(r)'
  BY <1>5, <1>6 DEF Told
<1>9. Devices(r)'
  <2>1. ASSUME NEW m \in pushed'[r], NEW d \in m.tokens
        PROVE  Known(m.user, d)
    <3>1. \/ m = [user |-> u, tokens |-> sender[r].tokens]
          \/ m = [user |-> v, tokens |-> TokensOf(v)]
      BY <1>3, <1>4, <2>1 DEF MessageFor
    <3>2. QED
      BY <1>2, <2>1, <3>1, TokensKnown
  <2>2. QED
    BY <1>5, <2>1 DEF Devices, Known
<1>10. ASSUME NEW t \in Requests \ {r}
       PROVE  Noticed(t)' /\ Told(t)' /\ Devices(t)'
  BY <1>1, <1>3, <1>5, OtherTransfers
<1>11. QED
  BY <1>7, <1>8, <1>9, <1>10 DEF NInv

\* Nobody is notified, and some handlers may die.
LEMMA StillTransfers ==
  ASSUME IInv, NInv, [Next]_vars,
         UNCHANGED <<req, reply, sender, pushed, show, flags>>,
         \A t \in Requests : pc'[t] = pc[t] \/ (pc'[t] = "dead" /\ pc[t] # "done")
  PROVE  NInv'
<1>1. ASSUME NEW t \in Requests
      PROVE  Noticed(t)' /\ Told(t)' /\ Devices(t)'
  <2>1. Undisturbed(t)
    BY Standing
  <2>2. QED
    BY <2>1, NoticeUnmoved
<1>2. QED
  BY <1>1 DEF NInv

LEMMA StepNInv ==
  ASSUME IInv, NInv, [Next]_vars
  PROVE  NInv'
<1>1. ASSUME NEW r \in Requests, LoseNotice(r)
      PROVE  NInv'
  <2>1. /\ UNCHANGED <<req, reply, sender, pushed, show, flags>>
        /\ \A t \in Requests : \/ pc'[t] = pc[t]
                               \/ pc'[t] = "dead" /\ pc[t] # "done"
    BY <1>1 DEF IInv, TypeOK, LoseNotice, Goto, notices
  <2>2. QED
    BY <2>1, StillTransfers
<1>2. CASE Crash \/ UNCHANGED vars
  <2>1. /\ UNCHANGED <<req, reply, sender, pushed, show, flags>>
        /\ \A t \in Requests : \/ pc'[t] = pc[t]
                               \/ pc'[t] = "dead" /\ pc[t] # "done"
    BY <1>2 DEF IInv, TypeOK, Crash, vars, notices
  <2>2. QED
    BY <2>1, StillTransfers
<1>3. QED
  BY <1>1, <1>2, ListHandlers, FlagSet, Payment, SenderRead, Notification DEF Next, Step

LEMMA NotifyInvariance == Spec => []NInv
<1>1. Init => NInv
  BY DEF Init, NInv, Noticed, Told, Devices, Notifying
<1>2. IInv /\ NInv /\ [Next]_vars => NInv'
  BY StepNInv
<1>3. QED
  BY <1>1, <1>2, Invariance, PTL DEF Spec

\* Flags that change while a transfer is notified decide it, one way or the
\* other, and a refused transfer is not notified.
THEOREM NotifiedRight == Spec => []NotifiedAsShown
<1>1. NInv => NotifiedAsShown
  BY DEF NInv, Noticed, Told, NotifiedAsShown
<1>2. QED
  BY <1>1, NotifyInvariance, PTL

\* The messages of two users meet on a device only if its token was saved twice,
\* which takes a race.
THEOREM DevicesAreOneUsers == Spec => []DeviceHearsOneUser
<1>1. ASSUME IInv, NInv
      PROVE  DeviceHearsOneUser
  <2>1. SUFFICES ASSUME NEW s \in Requests, NEW t \in Requests,
                        NEW m \in pushed[s], NEW n \in pushed[t], m.user # n.user,
                        NEW d \in m.tokens \cap n.tokens
                 PROVE  \E e \in saved \cap outdated :
                          req[e].op = "addToken" /\ req[e].value = d
    BY DEF DeviceHearsOneUser
  <2>2. Known(m.user, d) /\ Known(n.user, d)
    BY <1>1, <2>1 DEF NInv, Devices
  <2>3. PICK e \in saved : req[e].op = "addToken" /\ req[e].user = m.user
                                                  /\ req[e].value = d
    BY <2>2 DEF Known
  <2>4. PICK f \in saved : req[f].op = "addToken" /\ req[f].user = n.user
                                                  /\ req[f].value = d
    BY <2>2 DEF Known
  <2>5. e # f /\ SameEntry(e, f)
    BY <2>1, <2>3, <2>4 DEF SameEntry
  <2>6. e \in outdated \/ f \in outdated
    BY <1>1, <2>5 DEF IInv, DuplicateNeedsRace
  <2>7. QED
    BY <2>3, <2>4, <2>6
<1>2. QED
  BY <1>1, Invariance, NotifyInvariance, PTL

-----------------------------------------------------------------------------
(* Refinement of CheckedInsertion *)

\* Additions whose look-up found nothing and that have not pushed.
Looked == {r \in Requests : pc[r] \in {"count", "push"}}

\* Additions of one entry.
Rivals ==
  [e \in Requests |-> {f \in Requests : /\ {req[e].op, req[f].op} \subseteq Additions
                                        /\ e # f /\ SameEntry(e, f)}]

Insertion == INSTANCE CheckedInsertion
  WITH Writers <- Requests,
       rivals <- Rivals,
       looked <- Looked,
       items <- saved,
       stale <- outdated

\* The lists of a profile are written by the idiom of CheckedInsertion.
ImplementsInsertion == Insertion!Spec

LEMMA InitInserts ==
  ASSUME Init
  PROVE  Insertion!Init
BY DEF Init, Insertion!Init, Looked, Rivals, SameEntry

\* A look-up that found nothing.
LEMMA CheckLooks ==
  ASSUME IInv, NEW r \in Requests, CheckAddition(r), ~Taken(r)
  PROVE  Insertion!Look(r)
<1>1. Rivals' = Rivals
  BY DEF CheckAddition, Rivals, SameEntry
<1>2. UNCHANGED <<saved, outdated>>
  BY DEF CheckAddition, lists
<1>3. saved \cap Rivals[r] = {}
  BY DEF Taken, Rivals, SameEntry
<1>4. Looked' = Looked \cup {r}
  BY DEF CheckAddition, Goto, Looked, IInv, TypeOK
<1>5. QED
  BY <1>1, <1>2, <1>3, <1>4 DEF Insertion!Look

\* A push outdates exactly the rivals that found nothing before it.
LEMMA PushInserts ==
  ASSUME IInv, NEW r \in Requests, Push(r)
  PROVE  Insertion!Insert(r)
<1>1. Rivals' = Rivals
  BY DEF Push, Rivals, SameEntry
<1>2. r \in Looked /\ Looked' = Looked \ {r}
  BY DEF Push, Goto, Looked, IInv, TypeOK
<1>3. \A q \in Looked : req[q].op \in Additions
  BY DEF Looked, IInv, Placed
<1>4. outdated' = outdated \cup (Looked' \cap Rivals[r])
  <2>1. \A q \in Requests \ {r} :
          pc[q] \in {"count", "push"} /\ SameEntry(q, r) <=> q \in Looked' \cap Rivals[r]
    BY <1>2, <1>3 DEF Looked, Rivals, SameEntry
  <2>2. QED
    BY <1>2, <2>1 DEF Push, Rivals
<1>5. r \in saved' /\ saved' \subseteq saved \cup {r}
  BY DEF Push
<1>6. QED
  BY <1>1, <1>2, <1>4, <1>5 DEF Insertion!Insert

LEMMA StepInserts ==
  ASSUME IInv, [Next]_vars
  PROVE  [Insertion!Next]_(Insertion!ivars)
<1>1. Rivals' = Rivals
  <2>1. req' = req
    BY DEF Next, Step, Receive, CheckAddition, CountPhones, Push, CheckRemoval,
           PullPhone, PullCard, SetShow, Pay, ReadSender, Notify, LoseNotice, Crash, vars
  <2>2. QED
    BY <2>1 DEF Rivals, SameEntry
<1>2. ASSUME Looked' \subseteq Looked, saved' \subseteq saved, outdated' = outdated
      PROVE  Insertion!Next
  BY <1>1, <1>2 DEF Insertion!Next, Insertion!Leave
<1>3. ASSUME NEW r \in Requests, CheckAddition(r)
      PROVE  Insertion!Next
  <2>1. CASE Taken(r)
    BY <1>2, <1>3, <2>1 DEF CheckAddition, Goto, Looked, lists, IInv, TypeOK
  <2>2. CASE ~Taken(r)
    BY <1>3, <2>2, CheckLooks DEF Insertion!Next
  <2>3. QED
    BY <2>1, <2>2
<1>4. ASSUME NEW r \in Requests, Push(r)
      PROVE  Insertion!Next
  BY <1>4, PushInserts DEF Insertion!Next
<1>5. ASSUME NEW r \in Requests, Step(r), ~CheckAddition(r), ~Push(r)
      PROVE  Insertion!Next
  <2>1. /\ saved' \subseteq saved /\ outdated' = outdated
        /\ \A q \in Requests : pc'[q] = pc[q] \/ pc'[q] \notin {"count", "push"}
                                               \/ pc[q] = "count"
    BY <1>5 DEF Step, Receive, CountPhones, CheckRemoval, PullPhone, PullCard,
       SetShow, Pay, ReadSender, Notify, LoseNotice, Goto, lists, notices, IInv, TypeOK
  <2>2. QED
    BY <1>2, <2>1 DEF Looked
<1>6. CASE Crash
  BY <1>2, <1>6 DEF Crash, Looked, lists
<1>7. CASE UNCHANGED vars
  BY <1>2, <1>7 DEF vars, Looked, lists
<1>8. QED
  BY <1>3, <1>4, <1>5, <1>6, <1>7 DEF Next

\* Phone numbers, cards and tokens are pushed by the idiom of CheckedInsertion;
\* only the removal of a phone number takes one away.
THEOREM EntriesAreInserted == Spec => ImplementsInsertion
<1>1. Init => Insertion!Init
  BY InitInserts
<1>2. IInv /\ [Next]_vars => [Insertion!Next]_(Insertion!ivars)
  BY StepInserts
<1>3. QED
  BY <1>1, <1>2, Invariance, PTL DEF Spec, ImplementsInsertion, Insertion!Spec

-----------------------------------------------------------------------------
(* Requests in turn *)

\* No two additions of one entry, and no two numbers of one user, are between
\* their look-up and their end.
InTurn ==
  \A q, r \in Looked :
    q # r => /\ ~SameEntry(q, r)
             /\ ~ /\ {req[q].op, req[r].op} = {"addPhone"}
                  /\ req[q].user = req[r].user

LEMMA NobodyRaced ==
  ASSUME InTurn, outdated = {} /\ overtaken = {}, [Next]_vars
  PROVE  (outdated = {} /\ overtaken = {})'
<1>1. ASSUME NEW r \in Requests, Push(r)
      PROVE  (outdated = {} /\ overtaken = {})'
  <2>1. r \in Looked
    BY <1>1 DEF Push, Looked
  <2>2. ASSUME NEW q \in Requests \ {r}, pc[q] \in {"count", "push"}
        PROVE  /\ ~SameEntry(q, r)
               /\ ~ /\ req[q].op = "addPhone" /\ req[r].op = "addPhone"
                    /\ req[q].user = req[r].user
    <3>1. q \in Looked
      BY <2>2 DEF Looked
    <3>2. QED
      BY <2>1, <2>2, <3>1 DEF InTurn
  <2>3. QED
    BY <1>1, <2>2 DEF Push
<1>2. ASSUME \A r \in Requests : ~Push(r)
      PROVE  UNCHANGED <<outdated, overtaken>>
  BY <1>2 DEF Next, Step, Receive, CheckAddition, CountPhones, CheckRemoval,
     PullPhone, PullCard, SetShow, Pay, ReadSender, Notify, LoseNotice, Crash,
     vars, lists, notices
<1>3. QED
  BY <1>1, <1>2

\* Nothing is listed twice: in a user's numbers, or in anyone's cards or tokens.
NoDuplicates == \A e, f \in saved : SameEntry(e, f) => e = f

\* Users who do not add two things at once have no entry twice and no number too
\* many: the limit and the look-ups are right, and only not atomic.
THEOREM ListsInTurn == Spec /\ []InTurn => [](NoDuplicates /\ AtMostMaxPhones)
<1>1. Init => outdated = {} /\ overtaken = {}
  BY DEF Init
<1>2. InTurn /\ (outdated = {} /\ overtaken = {}) /\ [Next]_vars
        => (outdated = {} /\ overtaken = {})'
  BY NobodyRaced
<1>3. ASSUME IInv, outdated = {} /\ overtaken = {}
      PROVE  NoDuplicates /\ AtMostMaxPhones
  <2>1. NoDuplicates
    BY <1>3 DEF IInv, DuplicateNeedsRace, NoDuplicates
  <2>2. ASSUME NEW u \in Users
        PROVE  Cardinality(PhonesOf(u)) <= MaxPhones
    <3>1. Cardinality(PhonesOf(u) \cap overtaken) = 0
      BY <1>3, FS_EmptySet
    <3>2. Cardinality(PhonesOf(u)) <= MaxPhones + 0
      BY <1>3, <3>1 DEF IInv, Excess
    <3>3. QED
      BY <3>2, LimitType
  <2>3. QED
    BY <2>1, <2>2 DEF AtMostMaxPhones
<1>4. QED
  BY <1>1, <1>2, <1>3, Invariance, PTL DEF Spec

-----------------------------------------------------------------------------
(* Cards *)

\* A card is not taken out of a document.
CardsStay == \A e \in saved : req[e].op = "addCard" => e \in saved'

\* The finding about cards is no matter of timing: no step of any handler takes
\* a card out, so a removal that found its card answers and leaves it for good.
THEOREM CardsAreNeverRemoved == Spec => [][CardsStay]_vars
<1>1. ASSUME [Next]_vars
      PROVE  [CardsStay]_vars
  <2>1. ASSUME NEW r \in Requests, PullPhone(r)
        PROVE  CardsStay
    BY <2>1 DEF PullPhone, OwnEntry, AddedBy, CardsStay
  <2>2. ASSUME NEW r \in Requests, Step(r), ~PullPhone(r)
        PROVE  saved \subseteq saved'
    BY <2>2 DEF Step, Receive, CheckAddition, CountPhones, Push, CheckRemoval,
                PullCard, SetShow, Pay, ReadSender, Notify, LoseNotice, lists
  <2>3. CASE Crash \/ UNCHANGED vars
    BY <2>3 DEF Crash, vars, lists, CardsStay
  <2>4. QED
    BY <1>1, <2>1, <2>2, <2>3 DEF Next, CardsStay
<1>2. QED
  BY <1>1, PTL DEF Spec
=============================================================================

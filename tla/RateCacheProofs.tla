--------------------------- MODULE RateCacheProofs ---------------------------
(***************************************************************************)
(* RateCache for every number of requests and coins, every clock and       *)
(* period: answers are recent, a coin that nobody overtook is quoted once  *)
(* a period, and only what is old is replaced.  The key is Alone: who      *)
(* found nothing fresh and was not overtaken still faces an old document.  *)
(***************************************************************************)
EXTENDS RateCache, TLAPS

-----------------------------------------------------------------------------
(* The inductive invariant *)

\* A handler that found nothing fresh, before it has saved.
Looked(r) == pc[r] \in {"fetch", "stamp", "upsert"}

\* The times a handler has read follow each other.
Timed(r) ==
  /\ reply[r] # "none" => pc[r] = "done"
  /\ pc[r] \in {"idle", "find"} \/ Looked(r) => r \notin wrote
  /\ pc[r] = "find" \/ Looked(r) => since[r] <= now
  /\ pc[r] \in {"stamp", "upsert"} => since[r] <= quote[r] /\ quote[r] <= now
  /\ pc[r] = "upsert" => quote[r] <= stamp[r]

\* What is about to be answered, or was, was saved recently enough.
Recent(r) ==
  pc[r] = "price" \/ reply[r] = "ok" =>
    \E w \in wrote : /\ req[w] = req[r]
                     /\ quote[r] = quote[w]
                     /\ stamp[w] + TTL >= since[r]

Alone(r) ==
  Looked(r) /\ r \notin raced /\ doc[req[r]] # None
    => doc[req[r]].date + TTL < since[r]

\* A document is what a writer saved, after it was quoted.
Kept(c) ==
  doc[c] # None =>
    /\ doc[c].quote <= doc[c].date
    /\ \E w \in wrote : /\ req[w] = c
                        /\ quote[w] = doc[c].quote
                        /\ stamp[w] = doc[c].date

Writers(c) == {w \in wrote : req[w] = c}

\* Without overtaking, the document is the last in date.
Latest(c) ==
  Writers(c) \cap raced = {} =>
    \A w \in Writers(c) : doc[c] # None /\ stamp[w] <= doc[c].date

IInv ==
  /\ TypeOK
  /\ \A r \in Requests : Timed(r) /\ Recent(r) /\ Alone(r)
  /\ \A c \in Coins : Kept(c) /\ Latest(c)
  /\ OneQuotePerPeriod

LEMMA InitIInv ==
  ASSUME Init
  PROVE  IInv
BY RateCacheAssumption
   DEF Init, IInv, TypeOK, Time, Timed, Looked, Recent, Alone, Kept, Writers, Latest,
       OneQuotePerPeriod

-----------------------------------------------------------------------------
(* Type correctness *)

\* What is in a document, and a document is not None.
LEMMA DocType ==
  ASSUME TypeOK, NEW c \in Coins
  PROVE  /\ doc[c] # None => doc[c].quote \in Time /\ doc[c].date \in Time
         /\ \A q, d \in Time : [quote |-> q, date |-> d] # None
         /\ Time \subseteq Nat /\ TTL \in Nat
BY RateCacheAssumption DEF TypeOK, Time

LEMMA TypeStep ==
  ASSUME TypeOK, [Next]_vars
  PROVE  TypeOK'
<1>1. ASSUME NEW r \in Requests, Start(r)
      PROVE  TypeOK'
  BY <1>1 DEF TypeOK, Start, Goto, Finish, cache
<1>2. ASSUME NEW r \in Requests, Find(r)
      PROVE  TypeOK'
  <2>1. Fresh(r) => doc[req[r]].quote \in Time
    BY DocType DEF TypeOK, Fresh
  <2>2. quote' \in [Requests -> Time]
    BY <1>2, <2>1 DEF TypeOK, Find
  <2>3. QED
    BY <1>2, <2>2 DEF TypeOK, Find, Goto, Finish, cache
<1>3. ASSUME NEW r \in Requests, Fetch(r)
      PROVE  TypeOK'
  BY <1>3 DEF TypeOK, Fetch, Goto, Finish, cache
<1>4. ASSUME NEW r \in Requests, Stamp(r)
      PROVE  TypeOK'
  BY <1>4 DEF TypeOK, Stamp, Goto, cache
<1>5. ASSUME NEW r \in Requests, Upsert(r)
      PROVE  TypeOK'
  <2>1. /\ doc' \in [Coins -> [quote : Time, date : Time] \cup {None}]
        /\ wrote' \subseteq Requests /\ raced' \subseteq Requests
    BY <1>5 DEF TypeOK, Upsert, Save, Renewing, cache
  <2>2. QED
    BY <1>5, <2>1 DEF TypeOK, Upsert, Goto, Finish
<1>6. ASSUME NEW r \in Requests, Price(r)
      PROVE  TypeOK'
  BY <1>6 DEF TypeOK, Price, Finish, cache
<1>7. CASE Crash
  BY <1>7 DEF TypeOK, Crash, cache
<1>8. CASE Tick
  BY <1>8, RateCacheAssumption DEF TypeOK, Time, Tick, handlers, cache
<1>9. CASE UNCHANGED vars
  BY <1>9 DEF TypeOK, vars, handlers, cache
<1>10. QED
  BY <1>1, <1>2, <1>3, <1>4, <1>5, <1>6, <1>7, <1>8, <1>9 DEF Next, Step

-----------------------------------------------------------------------------
(* The invariant holds at every step *)

\* What was saved stays what it is as long as writers keep their times.
LEMMA CacheUnchanged ==
  ASSUME IInv, req' = req, UNCHANGED cache,
         \A w \in wrote : quote'[w] = quote[w] /\ stamp'[w] = stamp[w]
                                               /\ since'[w] = since[w]
  PROVE  /\ \A c \in Coins : Kept(c)' /\ Latest(c)'
         /\ OneQuotePerPeriod'
<1>1. doc' = doc /\ wrote' = wrote /\ raced' = raced
  BY DEF cache
<1>2. QED
  BY <1>1 DEF IInv, Kept, Latest, Writers, OneQuotePerPeriod

\* Nothing is saved, and the others stay where they are or stop.
LEMMA OthersStep ==
  ASSUME IInv, req' = req, UNCHANGED cache, now' \in Time, now \in Time, now' >= now,
         \A w \in wrote : quote'[w] = quote[w] /\ stamp'[w] = stamp[w],
         NEW q \in Requests, reply'[q] = reply[q], since'[q] = since[q],
         quote'[q] = quote[q], stamp'[q] = stamp[q],
         \/ pc'[q] = pc[q]
         \/ pc'[q] = "dead" /\ pc[q] \notin {"idle", "done"}
  PROVE  Timed(q)' /\ Recent(q)' /\ Alone(q)'
<1>1. doc' = doc /\ wrote' = wrote /\ raced' = raced
  BY DEF cache
<1>2. Timed(q)'
  BY <1>1, RateCacheAssumption DEF IInv, TypeOK, Time, Timed, Looked
<1>3. Recent(q)'
  BY <1>1 DEF IInv, Recent, Timed
<1>4. Alone(q)'
  BY <1>1 DEF IInv, Alone, Looked
<1>5. QED
  BY <1>2, <1>3, <1>4

\* A step of r alone that saves nothing.
LEMMA OwnStep ==
  ASSUME IInv, TypeOK', NEW r \in Requests, req' = req, now' = now, UNCHANGED cache,
         pc[r] \in {"idle", "find", "fetch", "stamp"},
         \A q \in Requests \ {r} :
           /\ pc'[q] = pc[q] /\ reply'[q] = reply[q] /\ since'[q] = since[q]
           /\ quote'[q] = quote[q] /\ stamp'[q] = stamp[q],
         Timed(r)', Recent(r)', Alone(r)'
  PROVE  IInv'
<1>1. r \notin wrote
  BY DEF IInv, Timed, Looked
<1>2. \A w \in wrote : w \in Requests \ {r}
  BY <1>1 DEF IInv, TypeOK
<1>3. ASSUME NEW q \in Requests \ {r}
      PROVE  Timed(q)' /\ Recent(q)' /\ Alone(q)'
  <2>1. now \in Time /\ now' >= now
    BY RateCacheAssumption DEF IInv, TypeOK, Time
  <2>2. QED
    BY <1>2, <2>1, OthersStep
<1>4. /\ \A c \in Coins : Kept(c)' /\ Latest(c)'
      /\ OneQuotePerPeriod'
  BY <1>2, CacheUnchanged
<1>5. QED
  BY <1>3, <1>4 DEF IInv

LEMMA StartStep ==
  ASSUME IInv, TypeOK', NEW r \in Requests, Start(r)
  PROVE  IInv'
<1>1. /\ pc[r] = "idle" /\ reply[r] = "none" /\ r \notin wrote
      /\ UNCHANGED <<req, now, quote, stamp, doc, wrote, raced>>
      /\ \A q \in Requests \ {r} :
           pc'[q] = pc[q] /\ reply'[q] = reply[q] /\ since'[q] = since[q]
      /\ \/ pc'[r] = "find" /\ reply'[r] = "none" /\ since'[r] = now
         \/ pc'[r] = "done" /\ reply'[r] = "error"
  BY DEF IInv, TypeOK, Timed, Start, Goto, Finish, cache
<1>2. Timed(r)' /\ Recent(r)' /\ Alone(r)'
  BY <1>1 DEF IInv, TypeOK, Time, Timed, Looked, Recent, Alone
<1>3. QED
  BY <1>1, <1>2, OwnStep DEF cache

LEMMA FindStep ==
  ASSUME IInv, TypeOK', NEW r \in Requests, Find(r)
  PROVE  IInv'
<1>1. /\ pc[r] = "find" /\ reply[r] = "none" /\ r \notin wrote
      /\ UNCHANGED <<req, now, since, stamp, doc, wrote, raced>>
      /\ \A q \in Requests \ {r} :
           pc'[q] = pc[q] /\ reply'[q] = reply[q] /\ quote'[q] = quote[q]
      /\ \/ /\ Fresh(r) /\ pc'[r] = "price" /\ reply'[r] = "none"
            /\ quote'[r] = doc[req[r]].quote
         \/ ~Fresh(r) /\ pc'[r] = "fetch" /\ reply'[r] = "none"
         \/ pc'[r] = "done" /\ reply'[r] = "error"
      /\ since[r] <= now /\ req[r] \in Coins
  BY DEF IInv, TypeOK, Timed, Find, Goto, Finish, cache
<1>2. Timed(r)'
  BY <1>1 DEF Timed, Looked
<1>3. Recent(r)'
  <2>1. CASE Fresh(r) /\ pc'[r] = "price" /\ quote'[r] = doc[req[r]].quote
    <3>1. PICK w \in wrote : /\ req[w] = req[r]
                             /\ quote[w] = doc[req[r]].quote
                             /\ stamp[w] = doc[req[r]].date
      BY <1>1, <2>1 DEF IInv, Kept, Fresh
    <3>2. w # r /\ w \in Requests
      BY <1>1 DEF IInv, TypeOK
    <3>3. QED
      BY <1>1, <2>1, <3>1, <3>2 DEF Recent, Fresh
  <2>2. QED
    BY <1>1, <2>1 DEF Recent
<1>4. Alone(r)'
  BY <1>1, DocType, RateCacheAssumption DEF IInv, TypeOK, Time, Alone, Looked, Fresh
<1>5. QED
  BY <1>1, <1>2, <1>3, <1>4, OwnStep DEF cache

LEMMA FetchStep ==
  ASSUME IInv, TypeOK', NEW r \in Requests, Fetch(r)
  PROVE  IInv'
<1>1. /\ pc[r] = "fetch" /\ reply[r] = "none" /\ r \notin wrote
      /\ UNCHANGED <<req, now, since, stamp, doc, wrote, raced>>
      /\ \A q \in Requests \ {r} :
           pc'[q] = pc[q] /\ reply'[q] = reply[q] /\ quote'[q] = quote[q]
      /\ \/ pc'[r] = "stamp" /\ reply'[r] = "none" /\ quote'[r] = now
         \/ pc'[r] = "done" /\ reply'[r] = "error"
      /\ since[r] <= now
  BY DEF IInv, TypeOK, Timed, Looked, Fetch, Goto, Finish, cache
<1>2. Timed(r)' /\ Recent(r)' /\ Alone(r)'
  BY <1>1 DEF IInv, TypeOK, Time, Timed, Looked, Recent, Alone
<1>3. QED
  BY <1>1, <1>2, OwnStep DEF cache

LEMMA StampStep ==
  ASSUME IInv, TypeOK', NEW r \in Requests, Stamp(r)
  PROVE  IInv'
<1>1. /\ pc[r] = "stamp" /\ reply[r] = "none" /\ r \notin wrote
      /\ UNCHANGED <<req, now, reply, since, quote, doc, wrote, raced>>
      /\ \A q \in Requests \ {r} : pc'[q] = pc[q] /\ stamp'[q] = stamp[q]
      /\ pc'[r] = "upsert" /\ stamp'[r] = now
      /\ since[r] <= quote[r] /\ quote[r] <= now /\ since[r] <= now
  BY DEF IInv, TypeOK, Timed, Looked, Stamp, Goto, cache
<1>2. Timed(r)' /\ Recent(r)' /\ Alone(r)'
  BY <1>1 DEF IInv, TypeOK, Time, Timed, Looked, Recent, Alone
<1>3. QED
  BY <1>1, <1>2, OwnStep DEF cache

\* A quote is saved: the old document was out of date unless r was overtaken.
LEMMA SaveStep ==
  ASSUME IInv, TypeOK', NEW r \in Requests, pc[r] = "upsert", Save(r),
         UNCHANGED <<req, now, since, quote, stamp>>,
         \/ pc' = [pc EXCEPT ![r] = "price"] /\ reply' = reply
         \/ /\ pc' = [pc EXCEPT ![r] = "done"]
            /\ reply' = [reply EXCEPT ![r] = "error"]
  PROVE  IInv'
<1> DEFINE c == req[r]
<1>1. /\ c \in Coins /\ TTL \in Nat /\ Time \subseteq Nat
      /\ [quote |-> quote[r], date |-> stamp[r]] # None
  BY DocType DEF IInv, TypeOK
<1>2. /\ reply[r] = "none" /\ r \notin wrote
      /\ since[r] <= quote[r] /\ quote[r] <= stamp[r]
      /\ since[r] \in Nat /\ quote[r] \in Nat /\ stamp[r] \in Nat
  BY <1>1 DEF IInv, TypeOK, Timed, Looked
<1>3. /\ doc'[c] = [quote |-> quote[r], date |-> stamp[r]]
      /\ \A x \in Coins \ {c} : doc'[x] = doc[x]
      /\ wrote' = wrote \cup {r}
      /\ raced \subseteq raced'
      /\ \A q \in Requests \ {r} : Looked(q) /\ req[q] = c => q \in raced'
      /\ r \in raced' => r \in raced
      /\ \A q \in Requests \ {r} : pc'[q] = pc[q] /\ reply'[q] = reply[q]
      /\ ~Looked(r)'
      /\ pc'[r] \notin {"idle", "find"} /\ reply'[r] \in {"none", "error"}
      /\ reply'[r] # "none" => pc'[r] = "done"
  BY <1>1, <1>2 DEF IInv, TypeOK, Save, Renewing, Looked
<1>4. ASSUME NEW q \in Requests
      PROVE  Timed(q)'
  BY <1>3, <1>4 DEF IInv, Timed, Looked
<1>5. ASSUME NEW q \in Requests
      PROVE  Recent(q)'
  <2>1. CASE q = r
    BY <1>2, <1>3, <1>1, <2>1 DEF Recent
  <2>2. CASE q # r
    BY <1>3, <2>2 DEF IInv, Recent
  <2>3. QED
    BY <2>1, <2>2
<1>6. ASSUME NEW q \in Requests
      PROVE  Alone(q)'
  <2>1. req[q] \in Coins
    BY DEF IInv, TypeOK
  <2>2. QED
    BY <1>3, <2>1 DEF IInv, Alone, Looked
<1>7. ASSUME NEW x \in Coins
      PROVE  Kept(x)'
  <2>1. CASE x = c
    BY <1>2, <1>3, <2>1 DEF Kept
  <2>2. CASE x # c
    BY <1>3, <2>2 DEF IInv, Kept
  <2>3. QED
    BY <2>1, <2>2
<1>8. ASSUME NEW x \in Coins, Writers(x)' \cap raced' = {}
      PROVE  Writers(x) \cap raced = {} /\ (x = c => r \notin raced)
  BY <1>3, <1>8 DEF Writers
<1>9. ASSUME NEW w \in Writers(c), Writers(c) \cap raced = {}, r \notin raced
      PROVE  stamp[w] + TTL < since[r] /\ stamp[w] <= stamp[r]
  <2>1. doc[c] # None /\ stamp[w] <= doc[c].date
    BY <1>1, <1>9 DEF IInv, Latest
  <2>2. doc[c].date + TTL < since[r]
    BY <1>9, <2>1 DEF IInv, Alone, Looked
  <2>3. stamp[w] \in Nat /\ doc[c].date \in Nat
    BY <1>1, <2>1, DocType DEF IInv, TypeOK, Writers
  <2>4. QED
    BY <1>1, <1>2, <2>1, <2>2, <2>3
<1>10. ASSUME NEW x \in Coins
       PROVE  Latest(x)'
  <2>1. SUFFICES ASSUME Writers(x)' \cap raced' = {}, NEW w \in Writers(x)'
                 PROVE  doc'[x] # None /\ stamp[w] <= doc'[x].date
    BY DEF Latest
  <2>2. CASE x = c
    <3>1. w = r \/ w \in Writers(c)
      BY <1>3, <2>1, <2>2 DEF Writers
    <3>2. stamp[w] <= stamp[r]
      BY <1>2, <1>8, <1>9, <2>1, <2>2, <3>1
    <3>3. QED
      BY <1>1, <1>3, <2>2, <3>2
  <2>3. CASE x # c
    BY <1>3, <1>8, <2>1, <2>3 DEF IInv, Latest, Writers
  <2>4. QED
    BY <2>2, <2>3
<1>11. OneQuotePerPeriod'
  <2>1. SUFFICES ASSUME NEW x \in Coins, Writers(x)' \cap raced' = {},
                        NEW v \in Writers(x)', NEW w \in Writers(x)', v # w
                 PROVE  stamp[v] + TTL < since[w] \/ stamp[w] + TTL < since[v]
    BY DEF OneQuotePerPeriod, Writers
  <2>2. Writers(x) \cap raced = {} /\ (x = c => r \notin raced)
    BY <1>8, <2>1
  <2>3. CASE v \in Writers(x) /\ w \in Writers(x)
    BY <2>1, <2>2, <2>3 DEF IInv, OneQuotePerPeriod, Writers
  <2>4. CASE v = r
    BY <1>3, <1>9, <2>1, <2>2, <2>4 DEF Writers
  <2>5. CASE w = r
    BY <1>3, <1>9, <2>1, <2>2, <2>5 DEF Writers
  <2>6. QED
    BY <1>3, <2>1, <2>3, <2>4, <2>5 DEF Writers
<1>12. QED
  BY <1>4, <1>5, <1>6, <1>7, <1>10, <1>11 DEF IInv

\* A handler ends without saving.
LEMMA EndStep ==
  ASSUME IInv, TypeOK', NEW r \in Requests, NEW answer \in {"ok", "error"},
         pc' = [pc EXCEPT ![r] = "done"], reply' = [reply EXCEPT ![r] = answer],
         pc[r] # "done", answer = "ok" => pc[r] = "price",
         UNCHANGED <<req, now, since, quote, stamp, cache>>
  PROVE  IInv'
<1>1. /\ UNCHANGED <<doc, wrote, raced>>
      /\ pc'[r] = "done" /\ reply'[r] = answer
      /\ \A q \in Requests \ {r} : pc'[q] = pc[q] /\ reply'[q] = reply[q]
  BY DEF IInv, TypeOK, cache
<1>2. ASSUME NEW q \in Requests
      PROVE  Timed(q)' /\ Recent(q)' /\ Alone(q)'
  BY <1>1 DEF IInv, Timed, Recent, Alone, Looked
<1>3. QED
  BY <1>1, <1>2, CacheUnchanged DEF IInv

LEMMA StepIInv ==
  ASSUME IInv, [Next]_vars
  PROVE  IInv'
<1>1. TypeOK'
  BY TypeStep DEF IInv
<1>2. ASSUME NEW r \in Requests, Upsert(r)
      PROVE  IInv'
  <2>1. CASE Save(r)
    BY <1>1, <1>2, <2>1, SaveStep DEF Upsert, Goto, Finish
  <2>2. CASE UNCHANGED cache /\ Finish(r, "error")
    BY <1>1, <1>2, <2>2, EndStep DEF Upsert, Finish
  <2>3. QED
    BY <1>2, <2>1, <2>2 DEF Upsert
<1>3. ASSUME NEW r \in Requests, Price(r)
      PROVE  IInv'
  BY <1>1, <1>3, EndStep DEF Price, Finish
<1>4. CASE Crash \/ Tick \/ UNCHANGED vars
  <2>1. /\ UNCHANGED <<req, reply, since, quote, stamp, doc, wrote, raced>>
        /\ now \in Time /\ now' \in Time /\ now' >= now
        /\ \A q \in Requests :
             \/ pc'[q] = pc[q]
             \/ pc'[q] = "dead" /\ pc[q] \notin {"idle", "done"}
    BY <1>1, <1>4, RateCacheAssumption
       DEF IInv, TypeOK, Time, Crash, Tick, vars, handlers, cache
  <2>2. ASSUME NEW q \in Requests
        PROVE  Timed(q)' /\ Recent(q)' /\ Alone(q)'
    BY <2>1, OthersStep DEF cache
  <2>3. QED
    BY <1>1, <2>1, <2>2, CacheUnchanged DEF IInv, cache
<1>5. QED
  BY <1>1, <1>2, <1>3, <1>4, StartStep, FindStep, FetchStep, StampStep DEF Next, Step

LEMMA Invariance == Spec => []IInv
BY InitIInv, StepIInv, PTL DEF Spec

-----------------------------------------------------------------------------
(* The theorems *)

\* The handlers, the clock and the documents stay within their types.
THEOREM TypeCorrect == Spec => []TypeOK
<1>1. IInv => TypeOK
  BY DEF IInv
<1>2. QED
  BY <1>1, Invariance, PTL

\* Whatever was lost, failed or overtaken, an answered change was dated at most
\* a period before the question.
THEOREM AnswersAreRecent == Spec => []ServedIsRecent
<1>1. IInv => ServedIsRecent
  BY DEF IInv, Recent, ServedIsRecent
<1>2. QED
  BY <1>1, Invariance, PTL

\* The market is asked for a coin once a period, unless handlers overtake each
\* other.
THEOREM QuotesAreSpaced == Spec => []OneQuotePerPeriod
<1>1. IInv => OneQuotePerPeriod
  BY DEF IInv
<1>2. QED
  BY <1>1, Invariance, PTL

\* The step that OnlyOldIsReplaced speaks of.
Replaced ==
  \A c \in Coins :
    doc[c] # None /\ doc'[c] # doc[c]
      => \/ /\ doc[c].quote < doc'[c].quote
            /\ doc[c].date + TTL < doc'[c].date
         \/ \E r \in raced : pc[r] = "upsert" /\ pc'[r] # "upsert"

\* A document is replaced by a newer one when it is out of date; only a handler
\* that was overtaken can do otherwise.
THEOREM ReplacementsAreDue == Spec => OnlyOldIsReplaced
<1>1. ASSUME IInv, [Next]_vars
      PROVE  [Replaced]_vars
  <2>1. ASSUME NEW c \in Coins, doc[c] # None, doc'[c] # doc[c],
               NEW r \in Requests, Upsert(r), Save(r)
        PROVE  \/ /\ doc[c].quote < doc'[c].quote
                  /\ doc[c].date + TTL < doc'[c].date
               \/ \E q \in raced : pc[q] = "upsert" /\ pc'[q] # "upsert"
    <3>1. /\ req[r] = c /\ doc'[c] = [quote |-> quote[r], date |-> stamp[r]]
          /\ pc[r] = "upsert" /\ pc'[r] # "upsert"
      BY <1>1, <2>1 DEF IInv, TypeOK, Upsert, Save, Goto, Finish
    <3>2. CASE r \in raced
      BY <3>1, <3>2
    <3>3. CASE r \notin raced
      <4>1. /\ doc[c].date + TTL < since[r] /\ doc[c].quote <= doc[c].date
            /\ since[r] <= quote[r] /\ quote[r] <= stamp[r]
        BY <1>1, <2>1, <3>1, <3>3 DEF IInv, Alone, Looked, Kept, Timed
      <4>2. /\ doc[c].date \in Nat /\ doc[c].quote \in Nat /\ TTL \in Nat
            /\ since[r] \in Nat /\ quote[r] \in Nat /\ stamp[r] \in Nat
        BY <1>1, <2>1, DocType DEF IInv, TypeOK
      <4>3. QED
        BY <3>1, <4>1, <4>2
    <3>4. QED
      BY <3>2, <3>3
  <2>2. doc' = doc \/ \E r \in Requests : Upsert(r) /\ Save(r)
    BY <1>1 DEF Next, Step, Start, Find, Fetch, Stamp, Upsert, Price, Crash, Tick,
                vars, cache
  <2>3. QED
    BY <2>1, <2>2 DEF Replaced
<1>2. QED
  BY <1>1, Invariance, PTL DEF Spec, OnlyOldIsReplaced, Replaced

-----------------------------------------------------------------------------
(* Requests in turn *)

\* No two handlers of one coin are between finding nothing fresh and saving.
InTurn ==
  \A q, r \in Requests : Looked(q) /\ Looked(r) /\ req[q] = req[r] => q = r

LEMMA NobodyRaced ==
  ASSUME InTurn, raced = {}, [Next]_vars
  PROVE  raced' = {}
<1>1. ASSUME NEW r \in Requests, Upsert(r), Save(r)
      PROVE  raced' = {}
  <2>1. Renewing(r) = {}
    BY <1>1 DEF Upsert, InTurn, Looked, Renewing
  <2>2. QED
    BY <1>1, <2>1 DEF Save
<1>2. ASSUME \A r \in Requests : ~(Upsert(r) /\ Save(r))
      PROVE  raced' = raced
  BY <1>2 DEF Next, Step, Start, Find, Fetch, Stamp, Upsert, Price, Crash, Tick,
              vars, cache
<1>3. QED
  BY <1>1, <1>2

\* Two quotes of a coin are a period apart.
QuotesApart ==
  \A v, w \in wrote :
    v # w /\ req[v] = req[w] => stamp[v] + TTL < since[w] \/ stamp[w] + TTL < since[v]

\* A document changes when it is out of date, for a newer quote.
Renewed ==
  \A c \in Coins :
    doc[c] # None /\ doc'[c] # doc[c]
      => doc[c].quote < doc'[c].quote /\ doc[c].date + TTL < doc'[c].date

\* If those who renew a coin take turns, the market is asked once a period and
\* the document only moves on, whatever calls fail and whenever the process dies.
THEOREM QuotesInTurn == Spec /\ []InTurn => []QuotesApart /\ [][Renewed]_vars
<1>1. Init => raced = {}
  BY DEF Init
<1>2. InTurn /\ raced = {} /\ [Next]_vars => (raced = {})'
  BY NobodyRaced
<1>3. ASSUME IInv, raced = {}
      PROVE  QuotesApart
  <2>1. SUFFICES ASSUME NEW v \in wrote, NEW w \in wrote, v # w, req[v] = req[w]
                 PROVE  stamp[v] + TTL < since[w] \/ stamp[w] + TTL < since[v]
    BY DEF QuotesApart
  <2>2. req[v] \in Coins
    BY <1>3 DEF IInv, TypeOK
  <2>3. v \in Writers(req[v]) /\ w \in Writers(req[v]) /\ Writers(req[v]) \cap raced = {}
    BY <1>3, <2>1 DEF Writers
  <2>4. QED
    BY <1>3, <2>1, <2>2, <2>3 DEF IInv, OneQuotePerPeriod, Writers
<1>4. ASSUME raced = {}, [Replaced]_vars
      PROVE  [Renewed]_vars
  BY <1>4 DEF Replaced, Renewed, vars, handlers, cache
<1>5. QED
  BY <1>1, <1>2, <1>3, <1>4, Invariance, ReplacementsAreDue, PTL
     DEF Spec, OnlyOldIsReplaced, Replaced
=============================================================================

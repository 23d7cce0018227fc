------------------------------ MODULE RateCache ------------------------------
(***************************************************************************)
(* The daily change of a crypto coin: crypto.service.ts, as the            *)
(* description of a coin to its owner uses it (getCryptoInfo).  A document *)
(* per coin keeps the last change and when it was written; a change        *)
(* younger than four hours is served, an older one is fetched again from   *)
(* CoinMarketCap and saved.  A quote is known by the time it was made.     *)
(***************************************************************************)
EXTENDS Naturals

CONSTANTS
  Requests, \* HTTP calls
  Coins,    \* the coins whose change can be had
  TTL,      \* how long a document is fresh
  MaxTime,  \* bound of the clock
  None

ASSUME RateCacheAssumption ==
  /\ TTL \in Nat
  /\ MaxTime \in Nat
  /\ None \notin [quote : Nat, date : Nat]

Time == 0 .. MaxTime

VARIABLES
  req,   \* the coin each request asks about; never changed
  pc,    \* where the handler of each request stands
  reply, \* what the client was answered; the kinds of error are one
  now,   \* the clock
  doc,   \* the document of each coin: a quote and its date
  since, \* when each handler computed the age it accepts
  quote, \* the quote each handler found or fetched
  stamp, \* the date a handler that fetched gave to its quote
  wrote, \* history: handlers that saved their quote
  raced  \* history: handlers whose coin another saved after they looked

handlers == <<pc, reply, since, quote, stamp>>
cache == <<doc, wrote, raced>>
vars == <<req, now, handlers, cache>>

-----------------------------------------------------------------------------
(* Steps of getCryptoInfo *)

Goto(r, label) ==
  /\ pc' = [pc EXCEPT ![r] = label]
  /\ UNCHANGED reply

Finish(r, answer) ==
  /\ pc' = [pc EXCEPT ![r] = "done"]
  /\ reply' = [reply EXCEPT ![r] = answer]

\* The balance is read first, and may fail.  A request for a coin without a
\* change stops here too.
Start(r) ==
  /\ pc[r] = "idle"
  /\ \/ since' = [since EXCEPT ![r] = now] /\ Goto(r, "find")
     \/ Finish(r, "error") /\ UNCHANGED since
  /\ UNCHANGED <<req, now, quote, stamp, cache>>

\* Mistake: the age of the document is not asked for.
FreshAlways(r) == doc[req[r]] # None

\* Mistake: the comparison is the wrong way round.
FreshWhenOld(r) ==
  LET c == req[r]
  IN doc[c] # None /\ doc[c].date + TTL <= since[r]

Fresh(r) ==
  LET c == req[r]
  IN doc[c] # None /\ doc[c].date + TTL >= since[r]

Find(r) ==
  /\ pc[r] = "find"
  /\ \/ /\ Fresh(r)
        /\ quote' = [quote EXCEPT ![r] = doc[req[r]].quote]
        /\ Goto(r, "price")
     \/ ~Fresh(r) /\ Goto(r, "fetch") /\ UNCHANGED quote
     \/ Finish(r, "error") /\ UNCHANGED quote
  /\ UNCHANGED <<req, now, since, stamp, cache>>

\* The market quotes, or does not answer.
Fetch(r) ==
  /\ pc[r] = "fetch"
  /\ \/ quote' = [quote EXCEPT ![r] = now] /\ Goto(r, "stamp")
     \/ Finish(r, "error") /\ UNCHANGED quote
  /\ UNCHANGED <<req, now, since, stamp, cache>>

\* The date is the handler's, when the quote has arrived; the write comes later.
Stamp(r) ==
  /\ pc[r] = "stamp"
  /\ stamp' = [stamp EXCEPT ![r] = now]
  /\ Goto(r, "upsert")
  /\ UNCHANGED <<req, now, since, quote, cache>>

\* Those who looked for the coin of r and found nothing fresh.
Renewing(r) ==
  {q \in Requests \ {r} : req[q] = req[r] /\ pc[q] \in {"fetch", "stamp", "upsert"}}

\* Mistake: the quote is forgotten.
SaveDateOnly(r) ==
  /\ doc' = [doc EXCEPT ![req[r]] = [quote |-> None, date |-> stamp[r]]]
  /\ wrote' = wrote \cup {r}
  /\ raced' = raced \cup Renewing(r)

\* Mistake: the date is that of the first document.
SaveQuoteOnly(r) ==
  /\ doc' = [doc EXCEPT ![req[r]] =
               [quote |-> quote[r], date |-> IF @ = None THEN stamp[r] ELSE @.date]]
  /\ wrote' = wrote \cup {r}
  /\ raced' = raced \cup Renewing(r)

\* MongoDB makes the document or changes it; of two that would make it, it has
\* one try again (the name of a coin is unique).
Save(r) ==
  /\ doc' = [doc EXCEPT ![req[r]] = [quote |-> quote[r], date |-> stamp[r]]]
  /\ wrote' = wrote \cup {r}
  /\ raced' = raced \cup Renewing(r)

Upsert(r) ==
  /\ pc[r] = "upsert"
  /\ \/ Save(r) /\ Goto(r, "price")
     \/ (Save(r) \/ UNCHANGED cache) /\ Finish(r, "error")
  /\ UNCHANGED <<req, now, since, quote, stamp>>

\* The price is asked for last; only then is the change answered.
Price(r) ==
  /\ pc[r] = "price"
  /\ \E answer \in {"ok", "error"} : Finish(r, answer)
  /\ UNCHANGED <<req, now, since, quote, stamp, cache>>

\* The process stops; its handlers are gone.
Crash ==
  /\ \E r \in Requests : pc[r] \notin {"idle", "done", "dead"}
  /\ pc' = [r \in Requests |->
              IF pc[r] \in {"idle", "done"} THEN pc[r] ELSE "dead"]
  /\ UNCHANGED <<req, now, reply, since, quote, stamp, cache>>

Tick ==
  /\ now < MaxTime
  /\ now' = now + 1
  /\ UNCHANGED <<req, handlers, cache>>

-----------------------------------------------------------------------------
(* The specification *)

Init ==
  /\ req \in [Requests -> Coins]
  /\ pc = [r \in Requests |-> "idle"]
  /\ reply = [r \in Requests |-> "none"]
  /\ now = 0
  /\ doc = [c \in Coins |-> None]
  /\ since = [r \in Requests |-> 0]
  /\ quote = [r \in Requests |-> 0]
  /\ stamp = [r \in Requests |-> 0]
  /\ wrote = {}
  /\ raced = {}

Step(r) == Start(r) \/ Find(r) \/ Fetch(r) \/ Stamp(r) \/ Upsert(r) \/ Price(r)

Next == \/ \E r \in Requests : Step(r)
        \/ Crash
        \/ Tick

Spec == Init /\ [][Next]_vars

-----------------------------------------------------------------------------
(* Properties *)

TypeOK ==
  /\ req \in [Requests -> Coins]
  /\ pc \in [Requests -> {"idle", "find", "fetch", "stamp", "upsert", "price",
                          "done", "dead"}]
  /\ reply \in [Requests -> {"none", "ok", "error"}]
  /\ now \in Time
  /\ doc \in [Coins -> [quote : Time, date : Time] \cup {None}]
  /\ since \in [Requests -> Time]
  /\ quote \in [Requests -> Time]
  /\ stamp \in [Requests -> Time]
  /\ wrote \subseteq Requests
  /\ raced \subseteq Requests

\* Nobody is answered a change that was dated more than four hours before the
\* question: it is one's own quote or was saved, for the coin, by someone else.
ServedIsRecent ==
  \A r \in Requests :
    reply[r] = "ok" =>
      \E w \in wrote : /\ req[w] = req[r]
                       /\ quote[r] = quote[w]
                       /\ stamp[w] + TTL >= since[r]

\* A coin whose writers were never overtaken is quoted once in four hours: the
\* second looked four hours after the date of the first.
OneQuotePerPeriod ==
  \A c \in Coins :
    LET writers == {w \in wrote : req[w] = c}
    IN writers \cap raced = {} =>
         \A v, w \in writers :
           v # w => stamp[v] + TTL < since[w] \/ stamp[w] + TTL < since[v]

\* A saved change is replaced by a newer one, and only when it was no longer
\* fresh, except by a handler that another overtook between look and write.
OnlyOldIsReplaced ==
  [][\A c \in Coins :
       doc[c] # None /\ doc'[c] # doc[c]
         => \/ /\ doc[c].quote < doc'[c].quote
               /\ doc[c].date + TTL < doc'[c].date
            \/ \E r \in raced : pc[r] = "upsert" /\ pc'[r] # "upsert"]_vars
=============================================================================

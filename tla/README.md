# Duniapay backend: a TLA+ verification project

The backend (NestJS on Node 12, MongoDB through Mongoose 5) serves a wallet app.
Users sign up with a verified phone number, hold a wallet in the Rehive ledger, pay
in and out through the Intouch mobile-money gateway, verify their identity with
Passbase and receive crypto currency in Fireblocks vaults. There is little state of
its own: user documents and a rate cache in MongoDB. What is hard is that nearly
every operation writes in two places that share no transaction (the ledger and the
document, the ledger and the gateway, a vault and its asset), that it decides on a
read that is stale when it writes, and that the process can stop between any two
of its awaits.

The modules below model those operations step by step. One step is the code between
two awaits: Node runs it without interruption, and anything may happen between it and
the next. TLC checks every interleaving for small instances; TLAPS proves the main
results for all of them.

Paths in this file are relative to `src/src/` of the repository.

## 1. Inventory

| Component | Code | State | Operations | Status |
|---|---|---|---|---|
| Payments | `transactions/`, `common/rehive`, `common/intouch` | ledger entries and balances (Rehive), payments (Intouch) | credit, debit, transfer, mobile deposit, airtime, withdrawal, gateway callback | modelled, proved |
| Accounts | `auth/auth.service.ts`, `auth/accounts.controller.ts`, `users/users.service.ts` | user documents, ledger users | sign-up, Facebook sign-up and sign-in, change of phone number | modelled, proved |
| Passwords and sign-in | `auth/auth.service.ts`, `users/users.service.ts` | password hashes | sign-in, change, reset by phone | modelled, proved |
| Profile lists | `users/users.service.ts` | saved numbers, debit cards, push tokens | add, remove | modelled, proved |
| Notifications | `transactions/transactions.controller.ts`, `transactions/transactions.service.ts`, `users/users.service.ts`, `common/firebase` | the flag that asks for them | set the flag, notify both parties of a transfer | modelled, proved |
| Identity verification | `users/users.service.ts`, `common/rehive` | KYC status in ledger and document | submission, review by Passbase | modelled, proved |
| Crypto vaults | `common/fireblocks` | vaults and assets at Fireblocks | asset id of a coin, balance of an asset | modelled, proved |
| Phone verification | `services/twilio.service.ts`, its callers in `auth/` and `users/` | verifications at Twilio | start, retry at the limit of sends, check | modelled, proved |
| Rate cache | `crypto/` | one document per coin | 24-hour change of a coin | modelled, proved |
| Contacts | `users/users.service.ts` | none | matching of an address book with the accounts | modelled as operators, proved |
| Authentication guard | `auth/guards`, `auth/services` | none | user of a token | its read of the user only |
| Transaction lists | `users/users.service.ts`, `transactions/` | none | a page of the ledger, joined with users | not modelled |
| Prices, balances | `common/coinbase`, `common/rehive` | none | reads | not modelled |
| Storage, logger, bootstrap | `common/s3`, `middlewares`, `main.ts`, `mongo-replicator` | none | pure input and output | not modelled |

How they interact:

- Controllers call services, services call each other in memory, and everything that
  lasts is behind an HTTP call or a MongoDB call, that is, behind an await.
- `Accounts` makes a ledger user first and saves a document under its id; `Payments`
  names ledger users by that id.
- The gateway calls back on a public endpoint, on a connection of its own; the only
  link with the handler that asked for the payment is the id of the ledger entry.
  Passbase calls back in the same way, with the key of a verification. Nothing in the
  code says who calls: the models take the callers to be the gateway and Passbase.
- `Accounts` changes phone numbers under `Passwords`, which finds users by number.
- A token that `Verification` gives out is what a sign-up, a Facebook sign-up or a reset
  takes as proof of a number, and carries the number as it was typed. It has no expiry and
  is not used up, so for `Accounts` and `Passwords` any number can be a verified one at any
  time. A change of number asks for no token: it takes the number from the body of the
  request (`users/users.controller.ts:163`).
- A transfer answers its client and leaves a function running that nobody awaits: it reads
  the documents of both parties (`Profile`) and hands Firebase their messages.

What makes each component correct:

- Payments: money is neither made nor lost; the wallet ends as the gateway decided;
  a refusal holds nothing; what was accepted is settled.
- Accounts: names, identities and numbers belong to one account; an account has its
  ledger user; answers tell the truth.
- Passwords: only a password of the user lets in; only who was asked for is changed.
- Profile: no duplicates, no more than three numbers, removal removes.
- Identity: ledger and document agree; approval is of what was submitted.
- Vaults: one vault per user; the balance counts what clients were told to pay into, and
  shows what was paid.
- Notifications: each party is told or not as its flag says; a device hears of one user.
- Phone verification: the code answered works; the limit of sends is no dead end; a token
  is earned with a code, and one code earns one.
- Rate cache: what is served is recent; the market is asked once a period; an older quote
  never replaces a newer one.
- Contacts: a contact is listed with its own account or offered for an invitation, and
  is never invited if the account has its number in plain form and the contact begins with
  its plus or has none.

## 2. Modules

`Payments`, `Accounts`, `Profile`, `Kyc`, `Passwords`, `Vault`, `Verification` and
`RateCache` share one form. The constant `Requests` is a set of HTTP calls. `req` says what each asks for and is never
changed; it is chosen in `Init`, so TLC tries all combinations. `pc` is the place of its
handler, named after the next thing the handler does; `reply` is the class of the answer
(`ok`, `badRequest` 400, `serverError` 500). The other variables are what MongoDB or the
external service holds, or, where a comment says "history", what a property needs to
remember. What a request creates (a ledger entry, a user, a list entry, a vault) is
identified by the request, and so are a Twilio verification and its code. `Crash` stops the process: every handler that was running is
`dead`, what was stored stays.

Operators commented "Mistake:" are plausible errors in the definition they stand
before. They are in no behaviour: each is there to show that a property notices it.

### Payments and Settlement

`Settlement` is the abstract specification. A payment has a half in the wallet
(absent, open, moved, released) and a half at the gateway (undecided, moved, not
moved). The gateway's half is decided once and moves only while the wallet's is open;
the wallet's half is opened, then closed once, as the money went.

`Payments` models the handlers:

| Code | Action |
|---|---|
| `TransactionsController` endpoints | `Receive`, and `ErrorReply` for the catch blocks |
| `rehiveService.credit/debit/transfer` | `CreateTransaction`, `RejectTransaction` |
| formatting of the phone, choice of service, call | `CallGateway` |
| result of `makeRequest` of `intouch.service.ts` | `GatewayAnswers`, `GatewayCallFails` |
| catch: `updateTransactionStatus(id, 'Failed')`, `throw e` | `Compensate` |
| `processIntouchTransaction` | `Webhook` |

The ledger and the gateway are external, modelled from use: an entry holds its amount
while Pending, moves it when Complete, gives it back when Failed; the ledger refuses an
outbound entry above the available balance; every call may fail before or after it took
effect. Two parameters cover what the code does not tell:

- `SettledIsFinal`: does the ledger refuse to update a settled entry?
- `LostReplies`: can the handler see an error for a payment the gateway has taken?

`Webhook` is called for payments the gateway has decided, with what it decided, any number of
times. The endpoint is public (`transactions/transactions.controller.ts:128`) and the handler
believes its body; that the caller is the gateway is an assumption on the environment.

Catch blocks read fields of the error, so an error of the wrong library makes them throw
a TypeError: a 500 in place of a 400. `HandledErrors` says which endpoint reads which, and
`error` records what a handler caught and then what it answered, so that a property can tell
a 400 that quotes the gateway from one that quotes the ledger.

### Accounts

Email and username are checked, lowered and indexed alike and become one name
(`Lower`). A sign-up looks for the name and the number, makes the ledger user, saves. A
Facebook sign-in looks for the identity and, if it is unknown, goes on like a sign-up with
the name as Facebook spells it, uncaught errors being 500. `SetPhone` is the change of
number: check of the other documents, read, save of the field if it differs. `raced`
holds the requests whose number another user got since they looked.

### Passwords

`Receive` is the existence query, `FindUser` the second read, `Compare` bcrypt,
`SetPassword` the save. A Facebook account has no hash, and bcrypt throws. A reset finds its
user by number; `ChangePhone` moves numbers between users at any time, which allows more
than `Accounts` does. `held` and `holders` remember what a user's password was, and who had
the number, while a request ran.

### Profile

An addition looks for its value, a phone number counts those there are, and one atomic
`$push` adds it. A removal looks for the entry and pulls it. `removeDebitCard` goes through
`updateOne` of the base service, which sets fields: `PullCard` changes nothing, and its
client was answered in `Receive`, since the controller does not await it; a refusal reaches
nobody and ends the handler (`dead`). An entry gets its id from the handler that pushes it, so a
removal names one only when that handler has ended (`Nameable`).

Notifications share the documents, so they share the module:

| Code | Action |
|---|---|
| change of the flag | `SetShow` |
| `TransactionsController` transfer: the ledger answers, the client is answered | `Pay` |
| `sendTransferNotifications`: read of the sender | `ReadSender` |
| read of the recipient, both messages | `Notify` |
| an unhandled rejection: a read fails, or no recipient has the name it uses | `LoseNotice` |

A message holds the tokens of the document that was read. The recipient can be a ledger user
without a document. `flags` remembers what users wanted while a transfer was notifying.

### Kyc

A submission patches the ledger, reads the document and saves status and key; a review finds
the document by key, patches the ledger and sets the status of the document by user. Each
user has its own Passbase keys (`KeyOwner`). A status is only checked for being there: `other`
is any that Passbase did not name, which the ledger is told as incomplete. `torn` holds
 the users for whom handlers
overlapped or one failed halfway since one last ran alone to its end.

### Vault

`FindVault` lists the vaults and takes any of the user's (the order of the list is not
known); `CreateVault` and `CreateAsset` fill in what is missing. Coins without a
symbol are those outside `Supported`. `FindBalanceVault` and `ReadBalance` are
`getBalanceAssetVaultAccount`, whose catch block answers a failed read as a balance of zero.
`PayIn` is anyone who pays coins into an asset, external and at any time. `due` holds the
requests whose user had been paid when they asked, `mute` those whose read failed.

### Verification

| Code | Action |
|---|---|
| look-up of the number, the test number | `Receive` |
| `sendSms`: creation of a verification | `Create` |
| its catch block at the limit of sends: cancel, create again | `Cancel`, `Recreate` |
| `verifySms` and the token | `CheckCode` |
| Twilio drops a code after its time | `Expire` |

Twilio is external, modelled from use: a number has at most one pending verification; asking
again sends the same code again, `MaxSends` times, and then answers the error (60203) that
the code looks for; a verification ends when its code is given, when it is cancelled, or by
itself. Any call may fail before or after it took effect. The cancellation names the number
and not a verification, so of two retries one may cancel what the other made. `ended` says
how each verification ended, `disturbed` which retries others interfered with.

### RateCache

`Start` computes the age that is accepted, `Find` looks for a document of that age, `Fetch`
asks CoinMarketCap, `Stamp` dates the quote, `Upsert` saves it, `Price` is the request for the
price on which the answer waits. Each is an await apart, so a slow handler saves after a
fast one. A quote is identified by the time it was made. The upsert is atomic: of two
that would insert, MongoDB repeats the one that the unique name refuses. `raced` holds the
handlers whose coin another saved after they found nothing fresh.

### CheckedInsertion and OneTimeCodes

Two more abstract specifications, each of an idiom and not of an endpoint.

`CheckedInsertion` is how the backend keeps one of a kind: look for a rival, then write, with
nothing that holds the two together. `Look` finds no rival's item, `Insert` adds an item and
marks as stale the rivals that have looked and not written, `Leave` is everything else (a
refusal, a failure, a crash, a removal). Its promise is `ConflictsAreStale`. Three modules
implement it; the mapping is an INSTANCE in `Accounts`, `ProfileProofs` and `VaultProofs`:

| Module | A writer looks by | Items | Rivals | Stale |
|---|---|---|---|---|
| `Accounts` | the check of a number, of all three endpoints | the numbers in documents, by who wrote them (`claim`) | requests that would give one number to two users | `raced`, of those with a number |
| `Profile` | the look-up of an addition | the entries in documents (`saved`) | additions of the same entry | `outdated` |
| `Vault` | the list of vaults without one of the user | the vaults | first requests of a user | `raced` |

A change of number takes the user's earlier number away in the same step, which is why
`Insert` may remove items.

`OneTimeCodes` is what phone verification promises: a number has one code in force at most, a
code is issued once, and its life ends once, by a lapse or by a token. `Verification`
implements it (`ImplementsCodes` in `VerificationProofs`): the retry at the limit is a lapse and
an issue, a code sent again is no step, a check answered with a token is `Redeem`, one whose answer
is lost a lapse. The test number has no codes at Twilio and is left out.

### Contacts

`Contacts` extends `Accounts` with what a user sees of its address book: `GetCorrectPhone`,
`FindCrossContacts` and `FindNotDuniapayUsers` are each one read, so they are operators on
the state and not actions. Numbers have a form, that of accounts as well as that of contacts:
`plain` +226.., `spaced` (any other characters in it), `bare` (no plus), `bracketed` (+226).. and
`doubled` ++226... An account keeps its number as it was typed: nothing checks a number but for
being empty (`auth/dto/create-account.dto.ts:6`, `users/users.service.ts:448`). A contact's is
corrected first: `plain`, `spaced` and `bare` become plain; the other two, in which a plus is kept
where it stands or put before one, become doubled.

So an account that was not saved in plain form is matched by nobody, and who knows its
number is told to invite its owner, unless both have a doubled plus. `ContactsSplit` states what
remains, with `SameDigits` (the accounts with the digits of the contact, however written) for
reference: nobody is named under another's number, no account twice, no contact is lost or is on
both lists, and an account in plain form is found by every plain, spaced or bare contact.

## 3. Runs

| Run | Properties | Instance | Distinct states |
|---|---|---|---|
| `payments_overwrite` | `TypeOK`, `NoOverdraft`, `BadRequestReleases`, `ImplementsSettlement` | 2 requests, 2 users, amounts 1 and 2, funds 1, ledger takes any update, true errors | 96 000 |
| `payments_lossy` | `NoUnbackedCredit`, `AcknowledgedSettlesAsDecided`, `EveryRequestAnswered`, `AcceptedPaymentSettles` | 2 requests, 1 user, settled is final, lost answers, fairness | 94 000 |
| `accounts` | `TypeOK`, `NamesDistinct`, `OneAccountPerFacebook`, `AccountsHaveLedgerUsers`, `SignUpAnswerIsTrue`, `SharedPhoneNeedsRace`, `ContactsSplit`, `ImplementsInsertion` | 3 requests, 3 names, 2 numbers of which one is typed in 2 ways, 2 identities, 40 address books of 2 contacts | 1 026 000 |
| `accounts_phone` | `UniquePhone`, violated | 2 requests | |
| `passwords` | `TypeOK`, `AnswerFitsPassword`, `ReplacedOnRequest` | 2 requests, 2 users, 2 passwords, 2 numbers | 65 000 |
| `profile` | `TypeOK`, `DuplicateNeedsRace`, `ExcessNeedsRace`, `OnlyOwnerRemoves`, `NotifiedAsShown`, `DeviceHearsOneUser` | 3 requests, 2 users, 2 values, limit 1 | 209 000 |
| `profile_limit` | `AtMostMaxPhones`, violated | 3 requests, 1 user, 3 values, limit 2 | |
| `profile_card` | `RemovedCardIsGone`, violated | 2 requests | |
| `kyc` | `TypeOK`, `LedgerAndDocumentAgree`, `ApprovedUnderItsKey` | 4 requests, 2 users, 3 keys | 464 000 |
| `vault` | `TypeOK`, `SecondVaultNeedsRace`, `AnsweredAssetIsCounted`, `BalanceTellsOfPayments` | 3 requests, 2 users, 3 coins | 151 000 |
| `verification` | `TypeOK`, `AnsweredCodeWorks`, `RetryFailsOnlyDisturbed`, `TokenIsEarned` | 4 requests, a number and the test number, 2 sends | 78 000 |
| `rate_cache` | `TypeOK`, `ServedIsRecent`, `OneQuotePerPeriod`, `OnlyOldIsReplaced` | 3 requests, 2 coins, fresh for 1 tick, 3 ticks | 4 940 000 |

What they show:

- **Payments.** Nothing in the handlers reads a balance or a status before writing over
  it; yet, as long as an error of the gateway means that it did not take the payment, no
  wallet is overdrawn and each payment is settled once, as the gateway decided, in every
  order of answer, callback, compensation and crash, even with a ledger that would take
  any update. If answers can be lost, the wallet can end Failed for money that
  moved, because the catch block cannot tell "refused" from "not heard of"; what then
  remains true is that no Complete entry is unbacked and that a payment *acknowledged* to
  the client ends as the gateway decided. A 400 that quotes the gateway means a released
  entry (`BadRequestReleases`) if errors are true or settled entries final. A withdrawal's
  400 may quote the ledger instead, which can have refused the entry or only its release;
  and a number that is not text leaves an entry that nothing releases, with a 500.
- **Accounts.** Names stay distinct thanks to the unique indexes and to storing what was
  checked; one Facebook identity has one account although no index covers it, because the
  name it brings is unique. Ledger users without an account come only from requests that
  failed or died.
- **Needs-race properties** (`SharedPhoneNeedsRace`, `DuplicateNeedsRace`,
  `ExcessNeedsRace`, `SecondVaultNeedsRace`). The code checks and then writes with no
  index to back the check, so the plain property is false. These say exactly how far it
  is false: only if a write that another request made fell between the check and the
  write of one of those concerned. Sequential requests, retries after failures and
  crashes included, never break the plain property; the proofs below state that too.
- **Implementation.** `ImplementsInsertion` says that the numbers of accounts are written as
  `CheckedInsertion` describes, by each of the three endpoints that write one. `Profile` and
  `Vault` implement it too and `Verification` implements `OneTimeCodes`; these three
  refinements are proved, and no run repeats them.
- **Notifications.** Flags, tokens and transfers change in any order, and nobody is notified
  against what it wanted at every moment since the money moved, nor of a transfer that was
  refused. A device is told of the money of two users only if two registrations of its token
  overlapped. What is *not* promised: a notification can be lost silently (`LoseNotice`, a
  crash), after the client was answered.
- **Balances.** A balance never shows coins of somebody else or of another currency. It can
  hide what was paid, in the two cases the property names: a read that failed, answered as
  zero, and a user with two vaults.
- **Phone verification.** A client who was told that a code was sent can use it, until it is
  used, expires, or another start for the number cancels it at the limit; that start, if it
  is answered ok, has sent another. A start that meets the limit alone never fails unless
  Twilio does. The limit cannot be used to get a token without a code, or two for one.
- **Rate cache.** No answer is older than a period, counted from the question. Overlapping
  requests may ask the market more often than once a period, and a slow one may put an older
  quote over a newer one; the properties say that only a handler that was overtaken between
  its look and its write can do either.
- **Contacts.** In every state `Accounts` reaches, with shared numbers, accounts without one
  and numbers saved as they were typed, each contact is on a list, an account at most once
  and under its own number. Who has an account and is invited all the same is named in the
  property: an account not saved in plain form, or a contact whose plus is not first.

### Findings

Three runs end in a counterexample, each against what the code itself says.

1. `accounts_phone`: two overlapping sign-ups with one number both pass the look-up
   (`auth/auth.service.ts:256`) and both save; "This phone is already registered" (:271).
2. `profile_limit`: two overlapping additions both count one number less than the limit
   (`users/users.service.ts:231`) and push; "You can`t add more then 3 phone numbers" (:234).
   The limit is scaled down to two; nothing in the code depends on its being three.
3. `profile_card`: a debit card is still there after a removal that found it and ran its
   update (:363), with no concurrency needed; "This card doesn`t exist" (:358). With an
   update that pulls the card, as `removePhoneNumber` does, the run finds no violation.

The proofs say how far each goes. The first two need requests that overlap: if those that
could conflict take turns between look and write, no number is shared (`UniqueInTurn`) and
the limit is kept (`ListsInTurn`), whatever fails or crashes. The third is no matter of
timing: no step of any handler takes a card out (`CardsAreNeverRemoved`).

### Bounds

- Two payment requests: the properties relate one payment to its own callback, or two
  payments through one balance. Amounts 1 and 2 against funds of 1 make the ledger admit
  some and refuse some; a transfer of one request can fund a debit of the other.
- Three account requests: two that race and one that comes after, or changes the number
  of what the first made. Four, with numbers in one form only, were checked once.
- The names of the accounts instance differ by case only or not at all; one Facebook
  identity bears the capital one, the other hides its email, which the schema refuses.
- Profile: a limit of one is reached by two additions, and the third request removes
  or races. A transfer fits with two changes of flags, or with two registrations of a token.
  `profile_limit` adds one number more than its limit of two.
- Kyc: four requests allow submission, review, newer submission, late review. Vault: two that
  race and one that follows or asks for the balance. Passwords: a check
  and a write that falls into it; three requests (4.3 million states) checked once.
- Address books of two contacts, the first with either number in any of the five forms, the
  second bare or bracketed, as the five are corrected to only two; the same number twice and
  none of an account included. Each contact is matched by itself, and a pair shows which of two
  names an account. Accounts have one number plain and the other plain or spaced: a third form
  would be one more that no correction writes.
- Verification: of four starts two meet a limit of two sends, so two retries overlap;
  or three requests lead to a check. One number besides the test number, as Twilio keeps
  numbers apart; the second is the test number, so codes of one are tried on the other.
- Rate cache: a document is fresh for one tick, so three ticks hold two periods and a late
  write in the second. `MaxTime` bounds the clock; it is the only bound on something that
  would grow.
- Nothing else is bounded: no constraint cuts behaviours. Each request
  is made once, so the system stops and deadlock is not checked. Webhooks repeat without bound.
- Requests, users, numbers, and so on are declared symmetric where the instance treats them
  alike; the numbers of `accounts` are not, and only its requests are.
  `payments_lossy`, which checks liveness, uses no symmetry.

### Fairness

Only `payments_lossy` needs it (`FairSpec`):

- *Handlers.* Node runs every continuation whose call has come back, and every call comes
  back: the code sets no timeout, the HTTP client and the operating system end a
  connection some day. That end is `GatewayCallFails` or `RejectTransaction`.
  `Receive` and `Crash` are not fair: clients need not call, the process need not crash.
- *Gateway.* It answers or refuses what it was sent, and decides what it accepted: an
  assumption about Intouch.
- *Webhook.* The gateway calls back until the ledger has taken its decision, the other
  assumption about Intouch. The code stores no payment of its own and never asks for
  one: if callbacks stop, an entry stays Pending for ever.

## 4. Proofs

Every state machine has its proofs in a module of its own, for every value of the constants:
`PaymentsProofs` (542 obligations), `AccountsProofs` (723), `PasswordsProofs` (323),
`ProfileProofs` (874), `KycProofs` (652), `VaultProofs` (424), `VerificationProofs` (683),
`RateCacheProofs` (363). Each has an inductive
invariant `IInv`, one lemma that the initial states satisfy it, lemmas that the steps keep
it, and the theorems that follow. Apart from what the Payments table says, they assume only
the named assumptions on the constants.

**Payments.** `IInv` is `TypeOK` and, for each request, five parts: `Stage` (what the place
of the handler says of entry and gateway), `Backed` (Complete entries have money behind
them), `Uncompensated` (a handler that has not compensated leaves failing to the gateway),
`Released` (a 400 follows a compensation) and `Honest` (with true errors, only what the
gateway never took is compensated). The properties alone are not inductive: that a callback
may overwrite a status is harmless only because the gateway decides once (`Backed`), and
that a compensation does not fail a payment that moved only because of where the handler
stands (`Uncompensated`, `Honest`). A step touches one request, except `Crash`; so one
lemma shows the step of a request (`OwnStep`), one that others are unchanged, and `StepIInv`
combines them. From `IInv`:

| Theorem | Assumes | States |
|---|---|---|
| `TypeCorrect` | | `[]TypeOK` |
| `BackedCredit` | | `[]NoUnbackedCredit` |
| `AcknowledgementsKept` | | `[]AcknowledgedSettlesAsDecided` |
| `RefusalsRelease` | settled is final, or errors are true | `[]BadRequestReleases` |
| `FundsNeverNegative` | the same | `[]NoOverdraft` |
| `Implementation` | errors are true | `ImplementsSettlement`, step by step |
| `HalvesAgree` | errors are true | a closed entry tells what the gateway did |
| `SettledForGood` | settled is final, or errors are true | a Complete or Failed entry stays as it is |

`FundsNeverNegative` needs the assumption: with a ledger that reopens settled entries and
lost answers, a compensation can free an amount, the client can spend it, and the late
callback takes it again. `SettledForGood` needs it for the same reason.

**Requests in turn.** Five components have a history variable for the requests that were
overtaken, and properties that except them. Each of them also has a theorem
`Spec /\ []InTurn => ...`, with the plain property and no history: `InTurn` says of a state
that no two requests that could conflict stand between their look and their write. It does
not forbid requests to run together, to fail, to crash or to be repeated. The argument is
always that `InTurn` keeps the history variable empty (`NobodyStale`, `NobodyRaced`), and that
the invariants with the exceptions, which are proved without `InTurn`, then have none.

| Theorem | Plain property |
|---|---|
| `AccountsProofs!UniqueInTurn` | no two accounts share a number |
| `ProfileProofs!ListsInTurn` | no duplicates, and never more numbers than the limit |
| `VaultProofs!VaultsInTurn` | one vault per user, with each asset answered; balances are true |
| `RateCacheProofs!QuotesInTurn` | two quotes of a coin are a period apart, each newer than the last |
| `KycProofs!OkInTurn` | an answer ok leaves ledger and document agreed |

`OkInTurn` is an action property and says more than `Agreement`: whatever failed or died before,
the next handler that runs alone and is answered ok has repaired the user.

**Accounts.** `IInv` is `TypeOK`, `Placed` (where an operation leads), `Made` (how far a
request is in making its user), `CheckStands` (the answer of a check holds until another user
gets the number: this is what makes `SharedPhoneNeedsRace` inductive), `Indexed` (the unique
index) and `SharedPhoneNeedsRace`. Theorems: `TypeCorrect`, `DistinctNames`,
`DistinctFacebooks`, `LedgerUsersKept`, `SignUpAnswers`, `SharedPhonesRaced`, with no
assumption but those on the constants.

`NumbersAreInserted` is the refinement. It needs `CInv` on top of `IInv`: the number in a
document is that of the request that wrote it, for that user (`claim`). One lemma per action
shows which of `Look`, `Insert` and `Leave` it is. `RivalsAreStale` is then proved from
`CheckedInsertion` alone, by `Insertion!Inv`: what a writer found still holds, unless it is
stale. The first attempt failed for writers that are rivals of themselves, who would make
themselves stale; so `Init` requires rivals to be others, and the mappings show that they are.

`AddressBooksSplit` proves `ContactsSplit` for address books of every length and numbers typed in
any way. It needs only `TypeOK` of the state, no reachability: what accounts share, lack or
typed oddly does not matter. `CorrectedFinds` says which contacts a find by corrected number
matches to an account in plain form, and that it never matches other digits. Both lists are sets
of places in the book, and an account is listed under its first place: that there is a first is
well-foundedness of the naturals (`FirstPlace`), so no induction over the book is needed.

**Passwords.** The safety properties speak of histories that others keep writing while a
request runs. `Remembered` and `Reached` say that what the handler holds now (the hash it
read, the user its number led to) and what it could still read are among what the histories
remember; `Fits` carries that to the answer, `Saving` to the password that is replaced.
Theorems: `TypeCorrect`, `AnswersFit`, `ReplacementsRequested`.

`FirstPasswords` is about accounts made with Facebook, which have no hash. It needs
`Unknowing`: a change of password for such an account cannot get past the comparison, so what
gives it a first password is a reset. No account ever loses one.

**Profile.** `Unlisted`: the look-up of an addition still holds, unless it is outdated.
`Room`: its count still holds, unless it was overtaken. Without them an addition about to be
pushed could be anything. A push adds one to the numbers of the user and, if it was overtaken,
one to what the excess allows; a removal takes one from the first and at most one from the
second. Cardinalities come from the library's theorems on finite sets. Theorems:
`TypeCorrect`, `DuplicatesRaced`, `ExcessRaced`, `OwnersRemove`, the refinement
`EntriesAreInserted`, and `CardsAreNeverRemoved`.

Notifications have a second invariant on top, `NInv`: `Noticed` (what a handler has read of
the sender is among what the flags were since the payment, and a message that was handed over
fits them), `Told` (only a paid transfer has messages) and `Devices` (the tokens in a message
were saved for its user, and tokens are never taken away). With `DuplicateNeedsRace` the last
gives that a device in two users' messages was registered in a race. Theorems: `NotifiedRight`,
`DevicesAreOneUsers`.

**Kyc.** `Trusts` says what a handler that was not raced may rely on: it is the only one in
flight for its user, the ledger is as it patched it, the document as it read it. `Whole` is
`LedgerAndDocumentAgree` extended to the time when handlers run but none has patched; `RacesTear`
links the two. Theorems: `TypeCorrect`, `Agreement`, `Approval`.

**Vault.** `Unseen`: a handler about to create a vault is right that its user has none,
unless it was raced; `Placed` says which vault a later step writes to. Theorems:
`TypeCorrect`, `SecondVaultsRaced`, `AnsweredAssetsCounted`. On top of it `BInv` adds `Told`:
a handler about to read a balance still finds its user paid if it was paid when it asked, and
an answer stays true, since no step loses a vault, a payment or a race (`Kept`). That two
vaults of a user need a race then tells where coins can hide. Theorems: `BalancesTell`, and the
refinement `VaultsAreInserted`.

**Verification.** A pending verification has not ended (`Pending`); a handler on its way has
begun none (`Placed`); what was sent is pending or has ended (`Delivered`); who cancelled
a verification sent another (`Cancelled`). `Undisturbed` carries a
retry over its two calls: one that nobody disturbed finds the number as it left it, with a verification
before the cancellation and without a verification after it. This is what makes
`RetryFailsOnlyDisturbed` inductive. `TokenIsEarned` is inductive with `Pending`: a code that was
used is not pending, so it is not used again. Theorems: `TypeCorrect`, `AnsweredCodes`,
`Retries`, `Tokens`.

`CodesAreOneTime` is the refinement of `OneTimeCodes`: a pending verification maps to the code
in force, one that ended to a code that is over, a token to who earned it. The step that
matters is that a creation issues a code only if none is pending and never an old one.
`OneTokenEach` follows in the abstract specification from `Codes!Inv`: what is in force has
bought nothing yet.

**RateCache.** `Timed` orders the times a handler holds, `Recent` says that what it is about to
answer was saved with a date within the period, `Kept` that the document of a coin is what a writer
saved, `Latest` that without overtaking it has the last date. `Alone`
is the key: who found nothing fresh and was not overtaken still faces an old document, so
its write is due. `OneQuotePerPeriod` and `OnlyOldIsReplaced` follow from it. Theorems:
`TypeCorrect`, `AnswersAreRecent`, `QuotesAreSpaced`, `ReplacementsAreDue`, for every period
and every bound of the clock.

**Only model-checked:** `EveryRequestAnswered` and `AcceptedPaymentSettles`, since liveness
under fairness is beyond TLAPS. Each invariant and action property of a passing run has a
theorem, and so has the refinement of each abstract specification.

## 5. Abstractions

- Mongoose: one call is atomic; `save` writes only the fields that changed since the
  document was read; a call to MongoDB itself does not fail (failures of the
  external services are modelled). Documents are never deleted: the code has no such operation.
- Tokens: a signature proves what it signs. Verification tokens carry no expiry and are not
  used up, so `Accounts` and `Passwords` let any number come as a verified one at any time.
- A phone number is its digits, as one value, and its form (`Forms`); pluses among the digits are
  left out. Numbers are compared as they are stored, as the code does: two ways to type
  a number are two numbers for the checks of a sign-up, and `SharedPhoneNeedsRace` and
  `UniquePhone` are about what is stored, not about telephones.
- In `Vault`, an amount is zero or more than zero.
- Notifications end where Firebase takes them: delivery, texts and amounts are left out.
- In `RateCache` the kinds of error are one, and a quote is the time it was made.
- An idempotency key does not exist: a client that retries makes a new request, which the
  models contain, since requests may ask for the same thing.
- In `Payments`, sums are integers: `amount` is a number in the request, and Rehive's own
  arithmetic is external.
- Callers of the two public callbacks are taken to be the gateway and Passbase. The gateway
  reports what it decided, Passbase any status of a key.
- `sendSms` answers an empty object in development; not modelled.
- Texts of messages, layout of answers, logging and validation of request bodies are left
  out, except the bodies that make a handler throw (`Bodies`).

## 6. Plan

Done: Settlement, Payments, Accounts, Contacts, Profile with notifications, Kyc, Passwords, Vault
with balances, Verification and RateCache, with CheckedInsertion and OneTimeCodes above them,
all proved. Next:

1. `RateCache` as an implementation of `CheckedInsertion`, where an item is a document that is
   not out of date: it ages, so items leave with the clock.
2. Composition of `Verification` with sign-up and reset, which take its tokens: an account
   holds a number only if its owner, or who had the number before, earned a token for it.
3. `Payments` with three requests, so that a retry of a payment meets its first attempt.

### Not modelled

- *Transaction lists:* one read of a page of the ledger, one of its partners' documents, and
  a join by id. They have no state, and the order of a page is the ledger's, which the
  repository does not tell.
- *Prices and balances of the ledger:* reads; the fees are floating-point arithmetic with
  rounding, better tested than modelled.
- *Authentication guard:* its read of the user is in `Accounts`; the rest verifies signatures.
- *Storage, logging, configuration, bootstrap:* no state of their own.

Four hazards have no property. An answer of the ledger lost after the entry was made
(`common/rehive/rehive.service.ts:53`) makes a client repeat a payment: money is conserved
either way, and no state tells a repeated payment from a second one. A review that arrives before
its submission saved the key (`users/users.service.ts:414`) is dropped and answered with
success: nothing in the code promises that it is kept, or asks Passbase for it again. The removal
of a card is answered before it is done (`users/users.controller.ts:200`), so the answer says
nothing about it and a refusal reaches nobody. Notifications are lost when a read fails or the
recipient has no document (`transactions/transactions.controller.ts:80`): nothing promises that
one arrives, and nothing tries again. The models contain all four.

Two more are only bounded by their properties. The entry of a payment whose number is not text
stays open for ever (`transactions/transactions.service.ts:62`): `BadRequestReleases` says that
its client is not told of a refusal. A refused save in `createUserAccount` is a 500 where the
catch block meant a 400 (`auth/auth.service.ts:54`): `AccountsHaveLedgerUsers` says that no such
request is answered ok.

-------------------------------- MODULE Vault --------------------------------
(***************************************************************************)
(* Crypto accounts: getAssetId and getBalanceAssetVaultAccount of          *)
(* fireblocks.service.ts.  A user's vault at Fireblocks bears its username;*)
(* the vault and the asset asked for are created when they are missing.  A *)
(* balance is read from the first vault of that name, in whatever order    *)
(* Fireblocks lists them.  Coins reach the vaults from outside; the code   *)
(* takes none out.                                                         *)
(***************************************************************************)
CONSTANTS
  Requests,  \* HTTP calls; each also names the vault it may create
  Users,     \* usernames
  Coins,     \* crypto currencies a client may name
  Supported, \* those with a symbol at Fireblocks
  None

ASSUME VaultAssumption ==
  /\ Supported \subseteq Coins
  /\ None \notin Requests \cup {"zero", "more"}

VARIABLES
  req,    \* what each request asks for; never changed
  pc,     \* where the handler of each request stands
  reply,  \* what the client was answered
  vault,  \* the vault each handler works on
  vaults, \* the vaults at Fireblocks, by the request that created them
  assets, \* the coins held in each vault
  raced,  \* history: handlers that found no vault before another made one
  funded, \* the coins that were paid into each vault
  shown,  \* the balance answered to each request: zero, or more
  due,    \* history: balances that began after the user was paid the coin
  mute    \* history: balances whose read failed

balances == <<funded, shown, due, mute>>
vars == <<req, pc, reply, vault, vaults, assets, raced, balances>>

AssetRequest   == [op : {"asset"}, user : Users, coin : Coins]
BalanceRequest == [op : {"balance"}, user : Users, coin : Coins]

\* Mistake: a vault without the asset is passed over.
VaultsWithAsset(u) ==
  {v \in vaults : req[v].user = u /\ \E r \in Requests : req[r].coin \in assets[v]}

VaultsOf(u) == {v \in vaults : req[v].user = u}

\* User u was paid in coin, into whichever of its vaults.
Paid(u, coin) == \E v \in VaultsOf(u) : coin \in funded[v]

-----------------------------------------------------------------------------
(* Handlers *)

Goto(r, label) == pc' = [pc EXCEPT ![r] = label]

Finish(r, answer) ==
  /\ Goto(r, "done")
  /\ reply' = [reply EXCEPT ![r] = answer]

\* Mistake: the handler keeps the name of the vault.
FindVaultName(r) ==
  /\ pc[r] = "idle"
  /\ req[r].op = "asset"
  /\ vault' = [vault EXCEPT ![r] = req[r].user]
  /\ Goto(r, "asset")
  /\ UNCHANGED <<req, reply, vaults, assets, raced, balances>>

\* The first vault of the user's name decides; the call itself may fail.
FindVault(r) ==
  /\ pc[r] = "idle"
  /\ req[r].op = "asset"
  /\ \/ Finish(r, "serverError") /\ UNCHANGED vault
     \/ \E v \in VaultsOf(req[r].user) :
          /\ vault' = [vault EXCEPT ![r] = v]
          /\ IF req[r].coin \in assets[v] THEN Finish(r, "ok")
             ELSE Goto(r, "asset") /\ UNCHANGED reply
     \/ /\ VaultsOf(req[r].user) = {}
        /\ Goto(r, "create")
        /\ UNCHANGED <<reply, vault>>
  /\ UNCHANGED <<req, vaults, assets, raced, balances>>

\* Fireblocks makes the vault of r; handlers that found none are outdated.
NewVault(r) ==
  /\ vaults' = vaults \cup {r}
  /\ raced' = raced \cup {q \in Requests \ {r} : pc[q] = "create"
                                              /\ req[q].user = req[r].user}

\* A call that fails may have made the vault.
CreateVault(r) ==
  /\ pc[r] = "create"
  /\ \/ /\ NewVault(r)
        /\ vault' = [vault EXCEPT ![r] = r]
        /\ Goto(r, "asset")
        /\ UNCHANGED reply
     \/ /\ NewVault(r) \/ UNCHANGED <<vaults, raced>>
        /\ Finish(r, "badRequest")
        /\ UNCHANGED vault
  /\ UNCHANGED <<req, assets, balances>>

\* Only the creation of an asset in a new vault is inside the try block.
AssetFailure(r) == IF vault[r] = r THEN "badRequest" ELSE "serverError"

\* Mistake: the answer does not depend on the call.
CreateAssetUnchecked(r) ==
  /\ pc[r] = "asset"
  /\ assets' \in {assets, [assets EXCEPT ![vault[r]] = @ \cup {req[r].coin}]}
  /\ Finish(r, "ok")
  /\ UNCHANGED <<req, vault, vaults, raced, balances>>

\* A coin without a symbol is refused; the vault made for it stays, empty.  A
\* call that fails may have made the asset.
CreateAsset(r) ==
  /\ pc[r] = "asset"
  /\ LET added == [assets EXCEPT ![vault[r]] = @ \cup {req[r].coin}]
     IN \/ /\ req[r].coin \notin Supported
           /\ Finish(r, "badRequest")
           /\ UNCHANGED assets
        \/ /\ req[r].coin \in Supported
           /\ Finish(r, "ok")
           /\ assets' = added
        \/ /\ req[r].coin \in Supported
           /\ Finish(r, AssetFailure(r))
           /\ assets' \in {assets, added}
  /\ UNCHANGED <<req, vault, vaults, raced, balances>>

\* A balance is zero without a vault.  Only the read of the asset is inside a
\* try block.
FindBalanceVault(r) ==
  /\ pc[r] = "idle"
  /\ req[r].op = "balance"
  /\ \/ Finish(r, "serverError") /\ UNCHANGED <<vault, shown>>
     \/ \E v \in VaultsOf(req[r].user) :
          /\ vault' = [vault EXCEPT ![r] = v]
          /\ Goto(r, "read")
          /\ UNCHANGED <<reply, shown>>
     \/ /\ VaultsOf(req[r].user) = {}
        /\ Finish(r, "ok")
        /\ shown' = [shown EXCEPT ![r] = "zero"]
        /\ UNCHANGED vault
  /\ due' = IF Paid(req[r].user, req[r].coin) THEN due \cup {r} ELSE due
  /\ UNCHANGED <<req, vaults, assets, raced, funded, mute>>

\* Amounts are not told apart, but for none.
Amount(coins) == IF coins = {} THEN "zero" ELSE "more"

\* Mistake: any asset of the vault is read.
ReadAnyAsset(r) ==
  /\ pc[r] = "read"
  /\ \/ /\ shown' = [shown EXCEPT ![r] = Amount(funded[vault[r]])]
        /\ UNCHANGED mute
     \/ /\ shown' = [shown EXCEPT ![r] = "zero"]
        /\ mute' = mute \cup {r}
  /\ Finish(r, "ok")
  /\ UNCHANGED <<req, vault, vaults, assets, raced, funded, due>>

\* Without the asset, or a symbol for the coin, the balance is zero; so it is
\* when the call fails.
ReadBalance(r) ==
  /\ pc[r] = "read"
  /\ \/ /\ shown' = [shown EXCEPT ![r] = Amount(funded[vault[r]] \cap {req[r].coin})]
        /\ UNCHANGED mute
     \/ /\ shown' = [shown EXCEPT ![r] = "zero"]
        /\ mute' = mute \cup {r}
  /\ Finish(r, "ok")
  /\ UNCHANGED <<req, vault, vaults, assets, raced, funded, due>>

\* Somebody pays coins into an asset of a vault.
PayIn(v) ==
  /\ \E coin \in assets[v] : funded' = [funded EXCEPT ![v] = @ \cup {coin}]
  /\ UNCHANGED <<req, pc, reply, vault, vaults, assets, raced, shown, due, mute>>

\* The process stops; its handlers are gone.
Crash ==
  /\ \E r \in Requests : pc[r] \notin {"idle", "done", "dead"}
  /\ pc' = [r \in Requests |->
              IF pc[r] \in {"idle", "done"} THEN pc[r] ELSE "dead"]
  /\ UNCHANGED <<req, reply, vault, vaults, assets, raced, balances>>

-----------------------------------------------------------------------------
(* The specification *)

Init ==
  /\ req \in [Requests -> AssetRequest \cup BalanceRequest]
  /\ pc = [r \in Requests |-> "idle"]
  /\ reply = [r \in Requests |-> "none"]
  /\ vault = [r \in Requests |-> None]
  /\ vaults = {}
  /\ assets = [v \in Requests |-> {}]
  /\ raced = {}
  /\ funded = [v \in Requests |-> {}]
  /\ shown = [r \in Requests |-> None]
  /\ due = {}
  /\ mute = {}

Step(r) ==
  \/ FindVault(r) \/ CreateVault(r) \/ CreateAsset(r)
  \/ FindBalanceVault(r) \/ ReadBalance(r)

Next == (\E r \in Requests : Step(r) \/ PayIn(r)) \/ Crash

Spec == Init /\ [][Next]_vars

-----------------------------------------------------------------------------
(* Properties *)

TypeOK ==
  /\ req \in [Requests -> AssetRequest \cup BalanceRequest]
  /\ pc \in [Requests -> {"idle", "create", "asset", "read", "done", "dead"}]
  /\ reply \in [Requests -> {"none", "ok", "badRequest", "serverError"}]
  /\ vault \in [Requests -> Requests \cup {None}]
  /\ vaults \subseteq Requests
  /\ assets \in [Requests -> SUBSET Supported]
  /\ raced \subseteq Requests
  /\ funded \in [Requests -> SUBSET Supported]
  /\ shown \in [Requests -> {None, "zero", "more"}]
  /\ due \subseteq Requests
  /\ mute \subseteq Requests

\* Failures, crashes and the retries after them leave a user with one vault:
\* a second one comes only from two first requests that overlap.
SecondVaultNeedsRace ==
  \A v, w \in vaults :
    v # w /\ req[v].user = req[w].user => v \in raced \/ w \in raced

\* An asset answered to a client is in the vault that its balance is read from,
\* unless first requests of the user overlapped: any vault of that name may be
\* listed first, and only one of them has the asset.
AnsweredAssetIsCounted ==
  \A r \in Requests :
    req[r].op = "asset" /\ reply[r] = "ok" /\ VaultsOf(req[r].user) \cap raced = {}
      => /\ VaultsOf(req[r].user) # {}
         /\ \A v \in VaultsOf(req[r].user) : req[r].coin \in assets[v]

\* A balance above zero is of coins the user was paid, in that currency.  One of
\* zero hides coins paid before it was asked for only if its read failed or
\* first requests of the user overlapped.
BalanceTellsOfPayments ==
  \A r \in Requests :
    req[r].op = "balance" /\ reply[r] = "ok"
      => /\ shown[r] = "more" => Paid(req[r].user, req[r].coin)
         /\ shown[r] = "zero" /\ r \in due
              => r \in mute \/ VaultsOf(req[r].user) \cap raced # {}
=============================================================================

----------------------------- MODULE VaultProofs -----------------------------
(***************************************************************************)
(* Vault for every number of requests, users and coins: a second vault     *)
(* comes from a race only, and without one the balance counts the answered *)
(* asset and shows what was paid.  The key is Unseen: a handler that found *)
(* no vault is right until it is put in raced.                             *)
(***************************************************************************)
EXTENDS Vault, TLAPS

-----------------------------------------------------------------------------
(* The inductive invariant *)

\* What the place of a handler and its answer say of its vault.
Placed(r) ==
  /\ pc[r] \in {"idle", "create"} => r \notin vaults
  /\ pc[r] \in {"asset", "read"} => vault[r] \in VaultsOf(req[r].user)
  /\ pc[r] \in {"create", "asset"} => req[r].op = "asset"
  /\ pc[r] = "read" => req[r].op = "balance"
  /\ reply[r] # "none" => pc[r] = "done"
  /\ reply[r] = "ok" /\ req[r].op = "asset"
       => /\ vault[r] \in VaultsOf(req[r].user)
          /\ req[r].coin \in assets[vault[r]]

\* A handler that is about to make the first vault does, unless it was raced.
Unseen(r) == pc[r] = "create" /\ r \notin raced => VaultsOf(req[r].user) = {}

IInv ==
  /\ TypeOK
  /\ \A r \in Requests : Placed(r) /\ Unseen(r)
  /\ SecondVaultNeedsRace

LEMMA InitIInv ==
  ASSUME Init
  PROVE  IInv
BY DEF Init, IInv, TypeOK, Placed, Unseen, VaultsOf, SecondVaultNeedsRace

-----------------------------------------------------------------------------
(* Type correctness *)

\* What the requests name.
LEMMA RequestKinds ==
  ASSUME TypeOK, NEW r \in Requests
  PROVE  req[r].op \in {"asset", "balance"} /\ req[r].coin \in Coins
BY DEF TypeOK, AssetRequest, BalanceRequest

LEMMA TypeStep ==
  ASSUME TypeOK,
         \A r \in Requests : pc[r] \in {"asset", "read"} => vault[r] \in Requests,
         [Next]_vars
  PROVE  TypeOK'
<1>1. ASSUME NEW r \in Requests, FindVault(r)
      PROVE  TypeOK'
  BY <1>1 DEF TypeOK, FindVault, VaultsOf, Goto, Finish, balances
<1>2. ASSUME NEW r \in Requests, CreateVault(r)
      PROVE  TypeOK'
  BY <1>2 DEF TypeOK, CreateVault, NewVault, Goto, Finish, balances
<1>3. ASSUME NEW r \in Requests, CreateAsset(r)
      PROVE  TypeOK'
  <2>1. /\ req' = req /\ vault' = vault /\ vaults' = vaults /\ raced' = raced
        /\ UNCHANGED <<funded, shown, due, mute>>
        /\ pc' = [pc EXCEPT ![r] = "done"]
        /\ \E a \in {"ok", "badRequest", "serverError"} :
             reply' = [reply EXCEPT ![r] = a]
    BY <1>3 DEF CreateAsset, Goto, Finish, AssetFailure, balances
  <2>2. \/ assets' = assets
        \/ /\ assets' = [assets EXCEPT ![vault[r]] = @ \cup {req[r].coin}]
           /\ req[r].coin \in Supported
    BY <1>3 DEF CreateAsset
  <2>3. assets' \in [Requests -> SUBSET Supported]
    BY <1>3, <2>2 DEF TypeOK, CreateAsset
  <2>4. QED
    BY <2>1, <2>3 DEF TypeOK
<1>4. ASSUME NEW r \in Requests, FindBalanceVault(r)
      PROVE  TypeOK'
  <2>1. /\ UNCHANGED <<req, vaults, assets, raced, funded, mute>>
        /\ \E label \in {"read", "done"} : pc' = [pc EXCEPT ![r] = label]
        /\ reply' = reply \/ \E a \in {"ok", "serverError"} :
                                reply' = [reply EXCEPT ![r] = a]
        /\ vault' = vault \/ \E v \in Requests : vault' = [vault EXCEPT ![r] = v]
        /\ due' \subseteq Requests
    BY <1>4 DEF TypeOK, FindBalanceVault, VaultsOf, Goto, Finish
  <2>2. \/ shown' = shown
        \/ shown' = [shown EXCEPT ![r] = "zero"]
    BY <1>4 DEF FindBalanceVault
  <2>3. shown' \in [Requests -> {None, "zero", "more"}]
    BY <2>2 DEF TypeOK
  <2>4. /\ pc' \in [Requests -> {"idle", "create", "asset", "read", "done", "dead"}]
        /\ reply' \in [Requests -> {"none", "ok", "badRequest", "serverError"}]
        /\ vault' \in [Requests -> Requests \cup {None}]
    BY <2>1 DEF TypeOK
  <2>5. QED
    BY <2>1, <2>3, <2>4 DEF TypeOK
<1>5. ASSUME NEW r \in Requests, ReadBalance(r)
      PROVE  TypeOK'
  <2>1. /\ UNCHANGED <<req, vault, vaults, assets, raced, funded, due>>
        /\ pc' = [pc EXCEPT ![r] = "done"]
        /\ reply' = [reply EXCEPT ![r] = "ok"]
        /\ mute' \subseteq Requests
    BY <1>5 DEF TypeOK, ReadBalance, Goto, Finish
  <2>2. \E b \in {"zero", "more"} : shown' = [shown EXCEPT ![r] = b]
    BY <1>5 DEF ReadBalance, Amount
  <2>3. shown' \in [Requests -> {None, "zero", "more"}]
    BY <2>2 DEF TypeOK
  <2>4. QED
    BY <2>1, <2>3 DEF TypeOK
<1>6. ASSUME NEW v \in Requests, PayIn(v)
      PROVE  TypeOK'
  BY <1>6 DEF TypeOK, PayIn
<1>7. CASE Crash
  BY <1>7 DEF TypeOK, Crash, balances
<1>8. CASE UNCHANGED vars
  BY <1>8 DEF TypeOK, vars, balances
<1>9. QED
  BY <1>1, <1>2, <1>3, <1>4, <1>5, <1>6, <1>7, <1>8 DEF Next, Step

-----------------------------------------------------------------------------
(* The invariant holds at every step *)

\* A new vault outdates every other handler that found none.
LEMMA NewVaultStep ==
  ASSUME IInv, NEW r \in Requests, pc[r] = "create", NewVault(r),
         req' = req, assets' = assets,
         NEW label \in {"asset", "done"}, pc' = [pc EXCEPT ![r] = label]
  PROVE  /\ SecondVaultNeedsRace'
         /\ \A q \in Requests : Unseen(q)'
<1>1. SecondVaultNeedsRace'
  <2>1. SUFFICES ASSUME NEW v \in vaults', NEW w \in vaults',
                        v # w, req[v].user = req[w].user
                 PROVE  v \in raced' \/ w \in raced'
    BY DEF SecondVaultNeedsRace
  <2>2. CASE v \in vaults /\ w \in vaults
    BY <2>1, <2>2 DEF IInv, SecondVaultNeedsRace, NewVault
  <2>3. ASSUME NEW x \in vaults, req[x].user = req[r].user
        PROVE  r \in raced'
    BY <2>3 DEF IInv, Unseen, VaultsOf, NewVault
  <2>4. QED
    BY <2>1, <2>2, <2>3 DEF NewVault
<1>2. ASSUME NEW q \in Requests
      PROVE  Unseen(q)'
  BY <1>2 DEF IInv, TypeOK, Unseen, VaultsOf, NewVault
<1>3. QED
  BY <1>1, <1>2

LEMMA StepIInv ==
  ASSUME IInv, [Next]_vars
  PROVE  IInv'
<1>1. TypeOK /\ TypeOK'
  BY TypeStep DEF IInv, Placed, VaultsOf, TypeOK
<1>2. ASSUME NEW r \in Requests, FindVault(r)
      PROVE  IInv'
  <2>1. SecondVaultNeedsRace'
    BY <1>2 DEF IInv, SecondVaultNeedsRace, FindVault
  <2>2. ASSUME NEW q \in Requests
        PROVE  Placed(q)' /\ Unseen(q)'
    BY <1>1, <1>2, <2>2
       DEF IInv, TypeOK, Placed, Unseen, VaultsOf, FindVault, Goto, Finish
  <2>3. QED
    BY <1>1, <2>1, <2>2 DEF IInv
<1>3. ASSUME NEW r \in Requests, CreateVault(r)
      PROVE  IInv'
  <2>1. CASE NewVault(r)
    <3>1. /\ pc[r] = "create" /\ req' = req /\ assets' = assets
          /\ \E label \in {"asset", "done"} : pc' = [pc EXCEPT ![r] = label]
      BY <1>3 DEF CreateVault, Goto, Finish
    <3>2. SecondVaultNeedsRace' /\ \A q \in Requests : Unseen(q)'
      BY <2>1, <3>1, NewVaultStep
    <3>3. ASSUME NEW q \in Requests
          PROVE  Placed(q)'
      BY <1>1, <1>3, <2>1, <3>3
         DEF IInv, TypeOK, Placed, VaultsOf, CreateVault, NewVault, Goto, Finish
    <3>4. QED
      BY <1>1, <3>2, <3>3 DEF IInv
  <2>2. CASE UNCHANGED <<vaults, raced>>
    <3>1. SecondVaultNeedsRace'
      BY <1>3, <2>2 DEF IInv, SecondVaultNeedsRace, CreateVault
    <3>2. /\ UNCHANGED <<req, vault, vaults, raced, assets>>
          /\ pc' = [pc EXCEPT ![r] = "done"]
          /\ reply' = [reply EXCEPT ![r] = "badRequest"]
      BY <1>3, <2>2 DEF CreateVault, NewVault, Goto, Finish, IInv, Placed
    <3>3. ASSUME NEW q \in Requests
          PROVE  Placed(q)' /\ Unseen(q)'
      BY <1>1, <3>2, <3>3 DEF IInv, TypeOK, Placed, Unseen, VaultsOf
    <3>4. QED
      BY <1>1, <3>1, <3>3 DEF IInv
  <2>3. QED
    BY <1>3, <2>1, <2>2 DEF CreateVault
<1>4. ASSUME NEW r \in Requests, CreateAsset(r)
      PROVE  IInv'
  <2>1. /\ pc[r] = "asset" /\ UNCHANGED <<req, vault, vaults, raced>>
        /\ pc' = [pc EXCEPT ![r] = "done"]
        /\ \E a \in {"ok", "badRequest", "serverError"} :
             /\ reply' = [reply EXCEPT ![r] = a]
             /\ a = "ok" => assets' = [assets EXCEPT ![vault[r]] =
                                         @ \cup {req[r].coin}]
    BY <1>4 DEF CreateAsset, Goto, Finish, AssetFailure
  <2>2. \A v \in Requests : assets[v] \subseteq assets'[v]
    BY <1>1, <1>4 DEF CreateAsset, TypeOK
  <2>3. vault[r] \in Requests
    BY <2>1 DEF IInv, Placed, VaultsOf, TypeOK
  <2>4. ASSUME NEW q \in Requests
        PROVE  Placed(q)'
    <3>1. CASE q = r
      BY <1>1, <2>1, <2>3, <3>1 DEF IInv, TypeOK, Placed, VaultsOf
    <3>2. CASE q # r
      BY <1>1, <2>1, <2>2, <2>4, <3>2 DEF IInv, TypeOK, Placed, VaultsOf
    <3>3. QED
      BY <3>1, <3>2
  <2>5. SecondVaultNeedsRace' /\ \A q \in Requests : Unseen(q)'
    BY <1>1, <2>1 DEF IInv, TypeOK, SecondVaultNeedsRace, Unseen, VaultsOf
  <2>6. QED
    BY <1>1, <2>4, <2>5 DEF IInv
<1>5. ASSUME NEW r \in Requests, FindBalanceVault(r) \/ ReadBalance(r)
      PROVE  IInv'
  <2>1. UNCHANGED <<req, vaults, assets, raced>>
    BY <1>5 DEF FindBalanceVault, ReadBalance
  <2>2. SecondVaultNeedsRace'
    BY <2>1 DEF IInv, SecondVaultNeedsRace
  <2>3. ASSUME NEW q \in Requests
        PROVE  Placed(q)' /\ Unseen(q)'
    <3>1. CASE FindBalanceVault(r)
      BY <1>1, <2>1, <2>3, <3>1
         DEF IInv, TypeOK, Placed, Unseen, VaultsOf, FindBalanceVault, Goto, Finish
    <3>2. CASE ReadBalance(r)
      BY <1>1, <2>1, <2>3, <3>2
         DEF IInv, TypeOK, Placed, Unseen, VaultsOf, ReadBalance, Goto, Finish
    <3>3. QED
      BY <1>5, <3>1, <3>2
  <2>4. QED
    BY <1>1, <2>2, <2>3 DEF IInv
<1>6. CASE Crash
  <2>1. SecondVaultNeedsRace'
    BY <1>6 DEF IInv, SecondVaultNeedsRace, Crash
  <2>2. ASSUME NEW q \in Requests
        PROVE  Placed(q)' /\ Unseen(q)'
    BY <1>1, <1>6, <2>2 DEF IInv, TypeOK, Placed, Unseen, VaultsOf, Crash
  <2>3. QED
    BY <1>1, <2>1, <2>2 DEF IInv
<1>7. ASSUME UNCHANGED vars \/ \E v \in Requests : PayIn(v)
      PROVE  IInv'
  <2>1. UNCHANGED <<req, pc, reply, vault, vaults, assets, raced>>
    BY <1>7 DEF vars, PayIn
  <2>2. QED
    BY <1>1, <2>1 DEF IInv, Placed, Unseen, VaultsOf, SecondVaultNeedsRace
<1>8. QED
  BY <1>2, <1>3, <1>4, <1>5, <1>6, <1>7 DEF Next, Step

LEMMA Invariance == Spec => []IInv
BY InitIInv, StepIInv, PTL DEF Spec

-----------------------------------------------------------------------------
(* Results *)

\* Every variable keeps its type.
THEOREM TypeCorrect == Spec => []TypeOK
<1>1. IInv => TypeOK
  BY DEF IInv
<1>2. QED
  BY <1>1, Invariance, PTL

\* Failures, crashes and retries of getAssetId leave one vault per user.
THEOREM SecondVaultsRaced == Spec => []SecondVaultNeedsRace
<1>1. IInv => SecondVaultNeedsRace
  BY DEF IInv
<1>2. QED
  BY <1>1, Invariance, PTL

\* Without a race the one vault of the user holds every asset answered.
THEOREM AnsweredAssetsCounted == Spec => []AnsweredAssetIsCounted
<1>1. IInv => AnsweredAssetIsCounted
  <2>1. SUFFICES ASSUME IInv, NEW r \in Requests,
                        req[r].op = "asset", reply[r] = "ok",
                        VaultsOf(req[r].user) \cap raced = {}
                 PROVE  /\ VaultsOf(req[r].user) # {}
                        /\ \A v \in VaultsOf(req[r].user) : req[r].coin \in assets[v]
    BY DEF AnsweredAssetIsCounted
  <2>2. vault[r] \in VaultsOf(req[r].user) /\ req[r].coin \in assets[vault[r]]
    BY <2>1 DEF IInv, Placed
  <2>3. \A v \in VaultsOf(req[r].user) : v = vault[r]
    BY <2>1, <2>2 DEF IInv, SecondVaultNeedsRace, VaultsOf
  <2>4. QED
    BY <2>2, <2>3
<1>2. QED
  BY <1>1, Invariance, PTL

-----------------------------------------------------------------------------
(* Balances *)

\* What a balance on its way and a balance answered know.
Told(r) ==
  /\ pc[r] = "idle" => r \notin due
  /\ pc[r] = "read" /\ r \in due => Paid(req[r].user, req[r].coin)
  /\ req[r].op = "balance" /\ reply[r] = "ok"
       => /\ shown[r] = "more" => Paid(req[r].user, req[r].coin)
          /\ shown[r] = "zero" /\ r \in due
               => r \in mute \/ VaultsOf(req[r].user) \cap raced # {}

BInv == \A r \in Requests : Told(r)

\* No step loses a vault, a payment, a race or a failure.
LEMMA Kept ==
  ASSUME TypeOK, [Next]_vars
  PROVE  /\ req' = req /\ vaults \subseteq vaults'
         /\ raced \subseteq raced' /\ mute \subseteq mute'
         /\ \A v \in Requests : funded[v] \subseteq funded'[v]
         /\ \A u, coin : Paid(u, coin) => Paid(u, coin)'
<1>1. /\ req' = req /\ vaults \subseteq vaults'
      /\ raced \subseteq raced' /\ mute \subseteq mute'
  BY DEF Next, Step, FindVault, CreateVault, NewVault, CreateAsset, FindBalanceVault,
         ReadBalance, PayIn, Crash, vars, balances
<1>2. \A v \in Requests : funded[v] \subseteq funded'[v]
  <2>1. ASSUME NEW v \in Requests, PayIn(v)
        PROVE  \A w \in Requests : funded[w] \subseteq funded'[w]
    BY <2>1 DEF TypeOK, PayIn
  <2>2. ASSUME ~ \E v \in Requests : PayIn(v)
        PROVE  funded' = funded
    BY <2>2 DEF Next, Step, FindVault, CreateVault, CreateAsset, FindBalanceVault,
                ReadBalance, Crash, vars, balances
  <2>3. QED
    BY <2>1, <2>2
<1>3. QED
  BY <1>1, <1>2 DEF TypeOK, Paid, VaultsOf

\* A handler that answers no balance in this step knows what it knew.
LEMMA StillTold ==
  ASSUME IInv, BInv, [Next]_vars, NEW r \in Requests,
         pc'[r] \in {"idle", "read"} => pc'[r] = pc[r],
         req[r].op = "balance" /\ reply'[r] = "ok" => reply[r] = "ok",
         shown'[r] = shown[r], r \in due' => r \in due
  PROVE  Told(r)'
<1>1. TypeOK
  BY DEF IInv
<1>2. Told(r)
  BY DEF BInv
<1>3. VaultsOf(req[r].user) \cap raced # {} => (VaultsOf(req[r].user) \cap raced # {})'
  BY <1>1, Kept DEF VaultsOf
<1>4. QED
  BY <1>1, <1>2, <1>3, Kept DEF Told

\* The first vault decides.
LEMMA BalanceVault ==
  ASSUME IInv, BInv, NEW r \in Requests, FindBalanceVault(r)
  PROVE  BInv'
<1>1. /\ TypeOK /\ [Next]_vars
  BY DEF IInv, Next, Step
<1>2. ASSUME NEW q \in Requests \ {r}
      PROVE  Told(q)'
  <2>1. /\ pc'[q] = pc[q] /\ reply'[q] = reply[q] /\ shown'[q] = shown[q]
        /\ q \in due' => q \in due
    BY <1>1 DEF FindBalanceVault, TypeOK, Goto, Finish
  <2>2. QED
    BY <1>1, <2>1, StillTold
<1>3. Told(r)'
  <2>1. /\ UNCHANGED <<req, vaults, raced, funded, mute>>
        /\ r \notin due
        /\ r \in due' => Paid(req[r].user, req[r].coin)
        /\ pc'[r] \in {"read", "done"}
        /\ reply[r] = "none"
    BY <1>1 DEF FindBalanceVault, TypeOK, Goto, Finish, IInv, BInv, Told, Placed
  <2>2. reply'[r] = "ok" => VaultsOf(req[r].user) = {} /\ shown'[r] = "zero"
    BY <1>1, <2>1 DEF FindBalanceVault, TypeOK, Goto, Finish
  <2>3. \A u, coin : Paid(u, coin)' <=> Paid(u, coin)
    BY <2>1 DEF Paid, VaultsOf
  <2>4. QED
    BY <2>1, <2>2, <2>3 DEF Told, Paid
<1>4. QED
  BY <1>2, <1>3 DEF BInv

\* Without a race the vault read is the one that was paid into.
LEMMA BalanceRead ==
  ASSUME IInv, BInv, NEW r \in Requests, ReadBalance(r)
  PROVE  BInv'
<1>1. /\ TypeOK /\ [Next]_vars
  BY DEF IInv, Next, Step
<1>2. ASSUME NEW q \in Requests \ {r}
      PROVE  Told(q)'
  <2>1. pc'[q] = pc[q] /\ reply'[q] = reply[q] /\ shown'[q] = shown[q] /\ due' = due
    BY <1>1 DEF ReadBalance, TypeOK, Goto, Finish
  <2>2. QED
    BY <1>1, <2>1, StillTold
<1>3. Told(r)'
  <2>1. /\ UNCHANGED <<req, vaults, raced, funded, due>>
        /\ vault[r] \in VaultsOf(req[r].user)
        /\ r \in due => Paid(req[r].user, req[r].coin)
        /\ pc'[r] = "done"
    BY <1>1 DEF ReadBalance, TypeOK, Goto, Finish, IInv, BInv, Told, Placed
  <2>2. /\ shown'[r] = "more" => req[r].coin \in funded[vault[r]]
        /\ shown'[r] = "zero" => req[r].coin \notin funded[vault[r]] \/ r \in mute'
    BY <1>1 DEF ReadBalance, Amount, TypeOK
  <2>3. VaultsOf(req[r].user) \cap raced = {} => VaultsOf(req[r].user) = {vault[r]}
    BY <2>1 DEF IInv, SecondVaultNeedsRace, VaultsOf
  <2>4. req[r].coin \in funded[vault[r]] => Paid(req[r].user, req[r].coin)
    BY <2>1 DEF Paid
  <2>5. r \in due /\ VaultsOf(req[r].user) \cap raced = {}
          => req[r].coin \in funded[vault[r]]
    BY <2>1, <2>3 DEF Paid
  <2>6. /\ \A u, coin : Paid(u, coin)' <=> Paid(u, coin)
        /\ \A u : VaultsOf(u)' = VaultsOf(u)
    BY <2>1 DEF Paid, VaultsOf
  <2>7. QED
    BY <2>1, <2>2, <2>4, <2>5, <2>6 DEF Told
<1>4. QED
  BY <1>2, <1>3 DEF BInv

LEMMA StepBInv ==
  ASSUME IInv, BInv, [Next]_vars
  PROVE  BInv'
<1>1. TypeOK
  BY DEF IInv
<1>2. ASSUME NEW r \in Requests, FindVault(r) \/ CreateVault(r) \/ CreateAsset(r)
      PROVE  BInv'
  <2>1. /\ UNCHANGED <<shown, due>>
        /\ req[r].op = "asset"
        /\ pc'[r] \notin {"idle", "read"}
        /\ \A q \in Requests \ {r} : pc'[q] = pc[q] /\ reply'[q] = reply[q]
    BY <1>1, <1>2 DEF FindVault, CreateVault, CreateAsset, TypeOK, IInv, Placed,
                      Goto, Finish, balances
  <2>2. ASSUME NEW q \in Requests
        PROVE  Told(q)'
    BY <2>1, StillTold
  <2>3. QED
    BY <2>2 DEF BInv
<1>3. ASSUME Crash \/ UNCHANGED vars \/ \E v \in Requests : PayIn(v)
      PROVE  BInv'
  <2>1. /\ UNCHANGED <<reply, shown, due>>
        /\ \A q \in Requests : pc'[q] = pc[q] \/ pc'[q] = "dead"
    BY <1>1, <1>3 DEF Crash, PayIn, TypeOK, vars, balances
  <2>2. ASSUME NEW q \in Requests
        PROVE  Told(q)'
    BY <2>1, StillTold
  <2>3. QED
    BY <2>2 DEF BInv
<1>4. QED
  BY <1>2, <1>3, BalanceVault, BalanceRead DEF Next, Step

LEMMA BalanceInvariance == Spec => []BInv
<1>1. Init => BInv
  BY DEF Init, BInv, Told
<1>2. IInv /\ BInv /\ [Next]_vars => BInv'
  BY StepBInv
<1>3. QED
  BY <1>1, <1>2, Invariance, PTL DEF Spec

\* A balance shows the user's own coins, and hides them only after a failed read
\* or a race of first requests.
THEOREM BalancesTell == Spec => []BalanceTellsOfPayments
<1>1. BInv => BalanceTellsOfPayments
  BY DEF BInv, Told, BalanceTellsOfPayments
<1>2. QED
  BY <1>1, BalanceInvariance, PTL

-----------------------------------------------------------------------------
(* Refinement of CheckedInsertion *)

\* Handlers that found no vault and have not made one.
Looked == {r \in Requests : pc[r] = "create"}

\* Requests of one user.
Rivals ==
  [r \in Requests |-> {q \in Requests : q # r /\ req[q].user = req[r].user}]

Insertion == INSTANCE CheckedInsertion
  WITH Writers <- Requests,
       rivals <- Rivals,
       looked <- Looked,
       items <- vaults,
       stale <- raced

\* The vaults of a user are made by the idiom of CheckedInsertion.
ImplementsInsertion == Insertion!Spec

LEMMA InitInserts ==
  ASSUME Init
  PROVE  Insertion!Init
BY DEF Init, Insertion!Init, Looked, Rivals

LEMMA StepInserts ==
  ASSUME IInv, [Next]_vars
  PROVE  [Insertion!Next]_(Insertion!ivars)
<1>1. TypeOK /\ Rivals' = Rivals
  BY Kept DEF IInv, Rivals
<1>2. ASSUME UNCHANGED <<vaults, raced>>, Looked' \subseteq Looked
      PROVE  Insertion!Next
  BY <1>1, <1>2 DEF Insertion!Next, Insertion!Leave
<1>3. ASSUME NEW r \in Requests, FindVault(r)
      PROVE  Insertion!Next
  <2>1. UNCHANGED <<vaults, raced>>
    BY <1>3 DEF FindVault
  <2>2. CASE pc'[r] = "create"
    <3>1. VaultsOf(req[r].user) = {} /\ pc' = [pc EXCEPT ![r] = "create"]
      BY <1>1, <1>3, <2>2 DEF FindVault, Goto, Finish, TypeOK
    <3>2. vaults \cap Rivals[r] = {}
      BY <3>1 DEF VaultsOf, Rivals
    <3>3. Looked' = Looked \cup {r}
      BY <1>1, <3>1 DEF Looked, TypeOK
    <3>4. QED
      BY <1>1, <2>1, <3>2, <3>3 DEF Insertion!Next, Insertion!Look
  <2>3. CASE pc'[r] # "create"
    <3>1. Looked' \subseteq Looked
      BY <1>1, <1>3, <2>3 DEF FindVault, Goto, Finish, Looked, TypeOK
    <3>2. QED
      BY <1>2, <2>1, <3>1
  <2>4. QED
    BY <2>2, <2>3
<1>4. ASSUME NEW r \in Requests, CreateVault(r)
      PROVE  Insertion!Next
  <2>1. r \in Looked /\ Looked' = Looked \ {r}
    BY <1>1, <1>4 DEF CreateVault, Goto, Finish, Looked, TypeOK
  <2>2. CASE NewVault(r)
    <3>1. r \in vaults' /\ vaults' \subseteq vaults \cup {r}
      BY <2>2 DEF NewVault
    <3>2. raced' = raced \cup (Looked' \cap Rivals[r])
      BY <2>1, <2>2 DEF NewVault, Looked, Rivals
    <3>3. QED
      BY <1>1, <2>1, <3>1, <3>2 DEF Insertion!Next, Insertion!Insert
  <2>3. CASE UNCHANGED <<vaults, raced>>
    BY <1>2, <2>1, <2>3
  <2>4. QED
    BY <1>4, <2>2, <2>3 DEF CreateVault
<1>5. ASSUME NEW r \in Requests,
             CreateAsset(r) \/ FindBalanceVault(r) \/ ReadBalance(r) \/ PayIn(r)
      PROVE  Insertion!Next
  <2>1. UNCHANGED <<vaults, raced>> /\ Looked' \subseteq Looked
    BY <1>1, <1>5 DEF CreateAsset, FindBalanceVault, ReadBalance, PayIn, Goto, Finish,
       Looked, TypeOK, balances
  <2>2. QED
    BY <1>2, <2>1
<1>6. CASE Crash \/ UNCHANGED vars
  BY <1>2, <1>6 DEF Crash, vars, Looked
<1>7. QED
  BY <1>3, <1>4, <1>5, <1>6 DEF Next, Step

\* getAssetId makes vaults by the idiom of CheckedInsertion, calls that fail after
\* the vault was made included.
THEOREM VaultsAreInserted == Spec => ImplementsInsertion
<1>1. Init => Insertion!Init
  BY InitInserts
<1>2. IInv /\ [Next]_vars => [Insertion!Next]_(Insertion!ivars)
  BY StepInserts
<1>3. QED
  BY <1>1, <1>2, Invariance, PTL DEF Spec, ImplementsInsertion, Insertion!Spec

-----------------------------------------------------------------------------
(* Requests in turn *)

\* No two requests of one user are between finding no vault and making one.
InTurn == \A q, r \in Looked : req[q].user = req[r].user => q = r

LEMMA NobodyRaced ==
  ASSUME InTurn, raced = {}, [Next]_vars
  PROVE  raced' = {}
<1>1. ASSUME NEW r \in Requests, CreateVault(r), NewVault(r)
      PROVE  raced' = {}
  BY <1>1 DEF CreateVault, NewVault, InTurn, Looked
<1>2. ASSUME \A r \in Requests : ~(CreateVault(r) /\ NewVault(r))
      PROVE  raced' = raced
  BY <1>2 DEF Next, Step, FindVault, CreateVault, CreateAsset, FindBalanceVault,
         ReadBalance, PayIn, Crash, vars, balances
<1>3. QED
  BY <1>1, <1>2

\* One vault for each user, with every asset a client was answered, and a balance
\* of zero only for what was never paid or could not be read.
VaultsServe ==
  /\ \A v, w \in vaults : req[v].user = req[w].user => v = w
  /\ \A r \in Requests :
       /\ req[r].op = "asset" /\ reply[r] = "ok"
            => \E v \in VaultsOf(req[r].user) : req[r].coin \in assets[v]
       /\ req[r].op = "balance" /\ reply[r] = "ok" /\ shown[r] = "zero" /\ r \in due
            => r \in mute

\* If first requests of a user take turns, crashes, failures and retries leave
\* it one vault, and its balances are right.
THEOREM VaultsInTurn == Spec /\ []InTurn => []VaultsServe
<1>1. Init => raced = {}
  BY DEF Init
<1>2. InTurn /\ raced = {} /\ [Next]_vars => (raced = {})'
  BY NobodyRaced
<1>3. ASSUME IInv, AnsweredAssetIsCounted, BalanceTellsOfPayments, raced = {}
      PROVE  VaultsServe
  <2>1. \A v, w \in vaults : req[v].user = req[w].user => v = w
    BY <1>3 DEF IInv, SecondVaultNeedsRace
  <2>2. ASSUME NEW r \in Requests, req[r].op = "asset", reply[r] = "ok"
        PROVE  \E v \in VaultsOf(req[r].user) : req[r].coin \in assets[v]
    BY <1>3, <2>2 DEF AnsweredAssetIsCounted
  <2>3. ASSUME NEW r \in Requests, req[r].op = "balance", reply[r] = "ok",
               shown[r] = "zero", r \in due
        PROVE  r \in mute
    BY <1>3, <2>3 DEF BalanceTellsOfPayments
  <2>4. QED
    BY <2>1, <2>2, <2>3 DEF VaultsServe
<1>4. QED
  BY <1>1, <1>2, <1>3, Invariance, AnsweredAssetsCounted, BalancesTell, PTL DEF Spec
=============================================================================

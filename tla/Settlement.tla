----------------------------- MODULE Settlement -----------------------------
(***************************************************************************)
(* What the mobile-money part of the backend promises.  Every payment has  *)
(* two halves held by different companies: the entry in the wallet ledger  *)
(* (Rehive) and the movement of real money at the gateway (Intouch).  The  *)
(* gateway half is decided once.  The wallet half is opened first, and is  *)
(* closed once, the way the gateway decided; money never moves for a       *)
(* payment that is not open in the wallet.                                 *)
(***************************************************************************)
CONSTANT Payments

VARIABLES
  wallet,   \* the wallet's half of each payment
  money     \* the gateway's half of each payment

svars == <<wallet, money>>

WalletStates == {"absent", "open", "moved", "released"}
MoneyStates  == {"undecided", "moved", "not_moved"}

Init ==
  /\ wallet = [p \in Payments |-> "absent"]
  /\ money = [p \in Payments |-> "undecided"]

\* The gateway's half of p is decided at most once, and money moves only for
\* a payment the wallet holds open.
MoneyStep(p) ==
  \/ money'[p] = money[p]
  \/ /\ money[p] = "undecided"
     /\ money'[p] \in {"moved", "not_moved"}
     /\ money'[p] = "moved" => wallet[p] = "open"

\* The wallet's half of p is opened, then closed as the money went.
WalletStep(p) ==
  \/ wallet'[p] = wallet[p]
  \/ wallet[p] = "absent" /\ wallet'[p] = "open"
  \/ wallet[p] = "open" /\ money[p] = "moved" /\ wallet'[p] = "moved"
  \/ wallet[p] = "open" /\ money[p] = "not_moved" /\ wallet'[p] = "released"

\* Payments are independent: one step may advance several of them, as a
\* restart of the program does.
Next ==
  /\ wallet' \in [Payments -> WalletStates]
  /\ money' \in [Payments -> MoneyStates]
  /\ \A p \in Payments : MoneyStep(p) /\ WalletStep(p)

Spec == Init /\ [][Next]_svars

(***************************************************************************)
(* The agreement the promise amounts to.  A closed wallet entry tells what *)
(* the gateway did.                                                        *)
(***************************************************************************)
Agreement ==
  \A p \in Payments :
    /\ wallet[p] = "moved" => money[p] = "moved"
    /\ wallet[p] = "released" => money[p] = "not_moved"
=============================================================================

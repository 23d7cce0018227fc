---------------------------- MODULE OneTimeCodes ----------------------------
(***************************************************************************)
(* What phone verification promises.  A number has at most one code in     *)
(* force.  A code is issued once, for one number, and its life ends once:  *)
(* it lapses, or it is redeemed by one client for one token of its number. *)
(* Cancelling at Twilio's limit, expiry and lost answers are all lapses.   *)
(***************************************************************************)
CONSTANTS Phones, Codes, Clients, None

VARIABLES
  pending, \* the code in force for each number
  over,    \* the codes whose life has ended
  tokens   \* what was earned: by whom, for which number, with which code

cvars == <<pending, over, tokens>>

Init ==
  /\ pending = [p \in Phones |-> None]
  /\ over = {}
  /\ tokens = {}

Issue(p, c) ==
  /\ pending[p] = None
  /\ c \notin over /\ \A q \in Phones : pending[q] # c
  /\ pending' = [pending EXCEPT ![p] = c]
  /\ UNCHANGED <<over, tokens>>

End(p) ==
  /\ pending[p] # None
  /\ pending' = [pending EXCEPT ![p] = None]
  /\ over' = over \cup {pending[p]}

Lapse(p) == End(p) /\ UNCHANGED tokens

Redeem(p, k) ==
  /\ End(p)
  /\ tokens' = tokens \cup {[client |-> k, phone |-> p, code |-> pending[p]]}

Next ==
  \E p \in Phones :
    \/ \E c \in Codes : Issue(p, c)
    \/ Lapse(p)
    \/ \E k \in Clients : Redeem(p, k)

Spec == Init /\ [][Next]_cvars

(***************************************************************************)
(* One code buys one token.                                                *)
(***************************************************************************)
OneTokenPerCode == \A s, t \in tokens : s.code = t.code => s = t

\* What makes it inductive: what is in force has bought nothing yet.
Inv ==
  /\ \A p \in Phones : pending[p] \notin over
  /\ \A p, q \in Phones : pending[p] = pending[q] /\ pending[p] # None => p = q
  /\ \A t \in tokens : t.code \in over
  /\ None \notin over
  /\ OneTokenPerCode
=============================================================================

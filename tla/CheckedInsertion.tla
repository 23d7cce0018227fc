-------------------------- MODULE CheckedInsertion --------------------------
(***************************************************************************)
(* The idiom by which the backend keeps one of a kind: look for what would *)
(* conflict, then write, with nothing that holds the two together.  A      *)
(* writer that finds no conflicting item may insert its own later, however *)
(* many others inserted theirs meanwhile.  A writer is stale when a        *)
(* conflicting item was inserted after its look.  Phone numbers of         *)
(* accounts, entries of profiles and vaults are written like this.         *)
(***************************************************************************)
CONSTANT Writers

VARIABLES
  rivals, \* for each writer, those that may not have an item beside it; constant
  looked, \* the writers that found no conflict and have not inserted yet
  items,  \* the items, by the writer that inserted them
  stale   \* the writers overtaken between look and insertion

ivars == <<rivals, looked, items, stale>>

Init ==
  /\ rivals \in [Writers -> SUBSET Writers]
  /\ \A v, w \in Writers : v \in rivals[w] => v # w /\ w \in rivals[v]
  /\ looked = {}
  /\ items = {}
  /\ stale = {}

Look(w) ==
  /\ items \cap rivals[w] = {}
  /\ looked' = looked \cup {w}
  /\ UNCHANGED <<rivals, items, stale>>

\* An insertion may take other items away, as an update of a field does.
Insert(w) ==
  /\ w \in looked
  /\ looked' = looked \ {w}
  /\ w \in items' /\ items' \subseteq items \cup {w}
  /\ stale' = stale \cup (looked' \cap rivals[w])
  /\ UNCHANGED rivals

\* Writers give up or die, and items are removed.
Leave ==
  /\ looked' \subseteq looked
  /\ items' \subseteq items
  /\ UNCHANGED <<rivals, stale>>

Next == Leave \/ \E w \in Writers : Look(w) \/ Insert(w)

Spec == Init /\ [][Next]_ivars

(***************************************************************************)
(* What the idiom is worth: two conflicting items are there together only  *)
(* if one of their writers was overtaken.                                  *)
(***************************************************************************)
ConflictsAreStale ==
  \A v, w \in items : v \in rivals[w] => v \in stale \/ w \in stale

\* What makes it inductive: a look still holds, unless its writer is stale.
Inv ==
  /\ \A v, w \in Writers : v \in rivals[w] => v # w /\ w \in rivals[v]
  /\ items \subseteq Writers /\ looked \subseteq Writers
  /\ \A q \in looked \ stale : items \cap rivals[q] = {}
  /\ ConflictsAreStale
=============================================================================

----------------------------- MODULE MCAccounts -----------------------------
(***************************************************************************)
(* Accounts and Contacts for TLC.  Two names differ by case only; one      *)
(* Facebook identity bears the capital one, the other hides its email, so  *)
(* that no document can be saved for it.  Of two numbers one is typed in   *)
(* two ways by users, and both in every way by their contacts.  A book has *)
(* one contact of any form and one that is corrected, well or badly.       *)
(***************************************************************************)
EXTENDS Contacts, TLC

MCNames == {"ann", "Ann", "bob"}
MCLower == [n \in MCNames |-> IF n = "Ann" THEN "ann" ELSE n]
MCFacebooks == {"annsFacebook", "emailless"}
MCFacebookName == [f \in MCFacebooks |-> IF f = "annsFacebook" THEN "Ann" ELSE None]
MCDigits == {"70", "76"}
MCPhones ==
  [digits : MCDigits, form : {"plain"}] \cup [digits : {"70"}, form : {"spaced"}]
MCBooks == {<<first, second>> : first \in Written,
                                second \in [digits : MCDigits, form : {"bare", "bracketed"}]}

Symmetry == Permutations(Requests)
=============================================================================

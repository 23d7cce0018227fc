------------------------------- MODULE Contacts -------------------------------
(***************************************************************************)
(* The address book of a user against the accounts: findCrossContacts and  *)
(* findNotDuniapayUsers of users.service.ts.  Each takes the whole book,   *)
(* reads the accounts once and changes nothing, so both are operators on   *)
(* the state of Accounts.  A contact is its place in the book.  Numbers of *)
(* contacts are corrected before they are compared; those of accounts are  *)
(* what a client once typed, since nothing checks them but for emptiness.  *)
(***************************************************************************)
EXTENDS Accounts, Naturals, Sequences

CONSTANTS
  Digits, \* what is left of a number without its other characters
  Books   \* the address books that clients send

\* A number as it was typed: +226.., +226 .. with characters that are neither
\* digits nor pluses, 226.. without a plus, (+226).. and ++226...
Forms == {"plain", "spaced", "bare", "bracketed", "doubled"}
Written == [digits : Digits, form : Forms]

ASSUME ContactsAssumption ==
  /\ Phones \subseteq Written
  /\ Books \subseteq Seq(Written)
  /\ None \notin Written

\* Mistake: the number is compared as it was typed.
CorrectPhoneAsTyped(number) == number

\* Everything but digits and pluses is dropped, and a plus is put before what
\* did not begin with one, even if it has one.
GetCorrectPhone(number) ==
  [number EXCEPT !.form =
     IF number.form \in {"bracketed", "doubled"} THEN "doubled" ELSE "plain"]

\* The accounts that a find by number returns.
Holders(number) == {u \in stored : phone[u] = number}

\* The first contact with the number of an account gives the account its name.
FindCrossContacts(book) ==
  LET under(u) == {i \in DOMAIN book : u \in Holders(GetCorrectPhone(book[i]))}
  IN {[user |-> u, contact |-> CHOOSE i \in under(u) : \A j \in under(u) : i <= j] :
        u \in {u \in stored : under(u) # {}}}

FindNotDuniapayUsers(book) ==
  {i \in DOMAIN book : Holders(GetCorrectPhone(book[i])) = {}}

\* The accounts of whoever has this number, however the two are written.
SameDigits(number) ==
  {u \in stored : phone[u] # None /\ phone[u].digits = number.digits}

\* Whoever shares a number with another, has none or typed it oddly, and however
\* often a book repeats one: nobody is listed under another's number, no account
\* twice, and a contact is either offered for an invitation or has its account
\* listed.  An account that was saved in plain form is found by whoever typed it
\* in any way but with a plus that is not first; so a contact that is invited
\* has no account, or only accounts saved as no correction writes them, or is
\* such a contact.
ContactsSplit ==
  \A book \in Books :
    LET found   == FindCrossContacts(book)
        listed  == {f.user : f \in found}
        invited == FindNotDuniapayUsers(book)
        Plain(i) == {u \in SameDigits(book[i]) : phone[u].form = "plain"}
    IN /\ \A f \in found : f.user \in SameDigits(book[f.contact])
       /\ \A f, g \in found : f.user = g.user => f = g
       /\ \A f \in found : f.contact \notin invited
       /\ \A i \in DOMAIN book : i \in invited \/ SameDigits(book[i]) \cap listed # {}
       /\ \A i \in DOMAIN book :
            book[i].form \in {"plain", "spaced", "bare"} /\ Plain(i) # {}
              => i \notin invited /\ Plain(i) \subseteq listed
=============================================================================

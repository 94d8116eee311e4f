----------------------------- MODULE ImportRows -----------------------------
(***************************************************************************)
(* The rows of an imported file, and the rules that accept or reject them  *)
(* before anybody reviews the file (validateRows).                         *)
(*                                                                         *)
(* A phone cell or contact is a pair <<spelling, number>>.  Files are      *)
(* stored in the local spelling, whatever prefix the cell had; the mobile  *)
(* application stores the full number.  Contacts are compared as text, so  *)
(* the two spellings of one number are different contacts.                 *)
(***************************************************************************)
EXTENDS Naturals

CONSTANTS
    Mobiles,    \* numbers of Yemeni mobile phones
    Landlines,  \* other numbers of 7 to 15 digits
    Requests,   \* service requests that dues can be charged to
    Nothing     \* an empty cell, and no value in general

Kinds == {"taxpayers", "activities", "dues"}

Local(n) == <<"local", n>>
Full(n) == <<"full", n>>
Spelt(numbers) == {"local", "full"} \X numbers

(* The prefixes 967 and 00967 are dropped, the digits are kept. *)
NormalizePhone(cell) == IF cell = Nothing THEN Nothing ELSE Local(cell[2])

(* The number an identity is created with; a landline has none. *)
NormalizeYemeniPhone(v) == IF v # Nothing /\ v[2] \in Mobiles THEN v[2] ELSE Nothing

SubscriberDigits(v) == v[2]

(* Cells that hold too few or too many digits carry a number of no set. *)
WellFormed(v) == v[2] \in Mobiles \cup Landlines

(* contactRefs: the values that may name the taxpayer of a row. *)
ContactRefs(row) == {NormalizePhone(row.phone), row.tax} \ {Nothing}

-----------------------------------------------------------------------------
(* Nothing required is missing or malformed in the row itself. *)
Complete(kind, row) ==
    \/ /\ kind = "taxpayers"
       /\ row.name
       /\ row.phone # Nothing
       /\ WellFormed(NormalizePhone(row.phone))
    \/ /\ kind = "activities"
       /\ row.activity
       /\ ContactRefs(row) # {}
    \/ /\ kind = "dues"
       /\ row.amount = "valid"
       /\ row.request # Nothing \/ ContactRefs(row) # {}

(* Mutant: phones are compared before their prefixes are dropped. *)
BugRepeatsEarlier(rows, i) ==
    \E k \in 1..(i - 1) :
        \/ rows[k].phone # Nothing /\ rows[k].phone = rows[i].phone
        \/ rows[k].tax # Nothing /\ rows[k].tax = rows[i].tax

(* An earlier row of the file, accepted or not, has its phone or tax number. *)
RepeatsEarlier(rows, i) ==
    \E k \in 1..(i - 1) :
        \/ rows[k].phone # Nothing /\ NormalizePhone(rows[k].phone) = NormalizePhone(rows[i].phone)
        \/ rows[k].tax # Nothing /\ rows[k].tax = rows[i].tax

(* Active contacts are records [taxpayer, type, value]. *)
Listed(contacts, type, value) ==
    value # Nothing /\ \E c \in contacts : c.type = type /\ c.value = value

(* What the row refers to must be absent for a taxpayer, present otherwise. *)
FitsRegistry(kind, row, contacts) ==
    LET phone == Listed(contacts, "phone", NormalizePhone(row.phone))
        tax == Listed(contacts, "tax_number", row.tax)
    IN IF kind = "taxpayers" THEN ~phone /\ ~tax
       ELSE ContactRefs(row) # {} => phone \/ tax

ValidRow(kind, rows, i, contacts, requests) ==
    /\ Complete(kind, rows[i])
    /\ kind # "dues" => ~RepeatsEarlier(rows, i)
    /\ FitsRegistry(kind, rows[i], contacts)
    /\ kind = "dues" => rows[i].request \in requests \cup {Nothing}

(* validateRows: each row with its verdict, by the contacts and requests that
   two queries have found. *)
ValidateRows(kind, rows, contacts, requests) ==
    {[number |-> i, cells |-> rows[i], valid |-> ValidRow(kind, rows, i, contacts, requests)] :
        i \in DOMAIN rows}

(* ORDER BY row_number: the row that comes next. *)
FirstRows(rows) == {r \in rows : \A q \in rows : r.number <= q.number}
=============================================================================

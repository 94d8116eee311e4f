--------------------------- MODULE ImportApproval ---------------------------
(***************************************************************************)
(* Files of taxpayers, activities or dues: upload, review, and the copy of *)
(* the accepted rows into the registry.                                    *)
(*                                                                         *)
(* Each HTTP call c of the staff runs its statements one by one.  The      *)
(* upload commits every row on its own, after the job is already open for  *)
(* review.  The approval reads the status and the rows without a lock and  *)
(* copies the rows in one transaction, whose inserts nobody else sees      *)
(* before it commits (READ COMMITTED).                                     *)
(***************************************************************************)
EXTENDS ImportRows, FiniteSets

CONSTANTS
    Calls,       \* calls to the API that may run at the same time
    Jobs,        \* uploads
    Uploads,     \* files that may be uploaded, with the kind of their rows
    Registered,  \* taxpayers who were in the registry before
    Before,      \* their contacts
    Owner,       \* Owner[r]: the taxpayer of the service request r
    Newest       \* Newest[t]: the newest request of a registered taxpayer

(* Rows are numbered from 1. *)
ASSUME ImportAssumption ==
    /\ \A u \in Uploads : u.kind \in Kinds /\ DOMAIN u.rows \subseteq Nat \ {0}
    /\ \A k \in Before : k.taxpayer \in Registered
    /\ Owner \in [Requests -> Registered]
    /\ Newest \in [Registered -> Requests \cup {Nothing}]
    /\ Nothing \notin Jobs \cup Requests \cup Mobiles \cup Landlines

VARIABLES
    kind,      \* import_type in the rows of the job
    status,    \* status_code of the job, "absent" before the upload
    stored,    \* its import_rows
    landed,    \* what approvals have copied into the registry and the ledger
    pc,        \* what a call does next
    at,        \* the job a call works on
    todo,      \* the rows it has still to store or to copy
    made       \* what its open transaction has inserted

importVars == <<kind, status, stored, landed>>
copyVars == <<at, todo, made>>

(* An insert of row n of job j by call c, for a taxpayer. *)
Entry(j, n, c, t, cells, request) ==
    [job |-> j, number |-> n, by |-> c, taxpayer |-> t, cells |-> cells, request |-> request]

(* The id an approval draws for the taxpayer of a row. *)
NewTaxpayer(j, n, c) == <<j, n, c>>

Taxpayers(entries) == {e.taxpayer : e \in {x \in entries : kind[x.job] = "taxpayers"}}

(* The contacts that imported taxpayers bring with them. *)
ContactsOf(entries) ==
    LET new == {e \in entries : kind[e.job] = "taxpayers"}
    IN {[taxpayer |-> e.taxpayer, type |-> "phone", value |-> NormalizePhone(e.cells.phone)] : e \in new}
       \cup {[taxpayer |-> e.taxpayer, type |-> "tax_number", value |-> e.cells.tax] :
                e \in {x \in new : x.cells.tax # Nothing}}

Idle(c) ==
    /\ at' = [at EXCEPT ![c] = Nothing]
    /\ todo' = [todo EXCEPT ![c] = {}]
    /\ made' = [made EXCEPT ![c] = {}]
    /\ pc' = [pc EXCEPT ![c] = "idle"]

Goto(c, next) == pc' = [pc EXCEPT ![c] = next]

ImportInit ==
    /\ kind = [j \in Jobs |-> Nothing]
    /\ status = [j \in Jobs |-> "absent"]
    /\ stored = [j \in Jobs |-> {}]
    /\ landed = {}
    /\ pc = [c \in Calls |-> "idle"]
    /\ at = [c \in Calls |-> Nothing]
    /\ todo = [c \in Calls |-> {}]
    /\ made = [c \in Calls |-> {}]

-----------------------------------------------------------------------------
(***************************************************************************)
(* uploadImport: validate the rows against the registry as it is now, then *)
(* insert the job and its rows one after the other.  A query that fails    *)
(* while validating counts as one that found nothing.                      *)
(***************************************************************************)
UploadImport(c, j, contacts) ==
    /\ pc[c] = "idle"
    /\ status[j] = "absent"
    /\ \E u \in Uploads, seen \in {contacts, {}}, found \in {Requests, {}} :
          /\ kind' = [kind EXCEPT ![j] = u.kind]
          /\ todo' = [todo EXCEPT ![c] = ValidateRows(u.kind, u.rows, seen, found)]
    /\ status' = [status EXCEPT ![j] = "pending_review"]
    /\ at' = [at EXCEPT ![c] = j]
    /\ Goto(c, "storing")
    /\ UNCHANGED <<stored, landed, made>>

StoreRow(c) ==
    /\ pc[c] = "storing"
    /\ \E row \in FirstRows(todo[c]) :
          /\ stored' = [stored EXCEPT ![at[c]] = @ \cup {row}]
          /\ IF todo[c] = {row}
             THEN Idle(c)
             ELSE todo' = [todo EXCEPT ![c] = @ \ {row}] /\ UNCHANGED <<at, made, pc>>
    /\ UNCHANGED <<kind, status, landed>>

-----------------------------------------------------------------------------
(***************************************************************************)
(* approveImport: read the status, read the accepted rows, then a          *)
(* transaction that copies each row and marks the job.                     *)
(***************************************************************************)
ReadJob(c, j) ==
    /\ pc[c] = "idle"
    /\ status[j] = "pending_review"
    /\ at' = [at EXCEPT ![c] = j]
    /\ Goto(c, "deciding")
    /\ UNCHANGED <<importVars, todo, made>>

(* Mutant: the rows are read whatever their validation_status is. *)
BugReadRows(c) ==
    /\ pc[c] = "deciding"
    /\ IF stored[at[c]] = {} THEN Idle(c)
       ELSE /\ todo' = [todo EXCEPT ![c] = stored[at[c]]]
            /\ Goto(c, "copying")
            /\ UNCHANGED <<at, made>>
    /\ UNCHANGED importVars

ReadRows(c) ==
    /\ pc[c] = "deciding"
    /\ LET rows == {row \in stored[at[c]] : row.valid}
       IN IF rows = {} THEN Idle(c)
          ELSE /\ todo' = [todo EXCEPT ![c] = rows]
               /\ Goto(c, "copying")
               /\ UNCHANGED <<at, made>>
    /\ UNCHANGED importVars

(* The taxpayers whom an active contact names with one of the values. *)
Holders(values, contacts) == {k.taxpayer : k \in {x \in contacts : x.value \in values}}

(* commitTaxpayerRow: skipped when a contact has its phone or tax number. *)
TaxpayerEntries(c, row, contacts) ==
    IF Holders(ContactRefs(row.cells), contacts) # {} THEN {{}}
    ELSE {{Entry(at[c], row.number, c, NewTaxpayer(at[c], row.number, c), row.cells, Nothing)}}

(* commitActivityRow: any one of the taxpayers the contacts name. *)
ActivityEntries(c, row, contacts) ==
    LET holders == Holders(ContactRefs(row.cells), contacts)
    IN IF holders = {} THEN {{}}
       ELSE {{Entry(at[c], row.number, c, t, row.cells, Nothing)} : t \in holders}

(* commitDueRow: the request of the row, or the newest of its taxpayer. *)
DueEntries(c, row, contacts) ==
    LET due(t, r) == {Entry(at[c], row.number, c, t, row.cells, r)}
        newest(t) == IF t \in Registered THEN Newest[t] ELSE Nothing
        holders == Holders(ContactRefs(row.cells), contacts)
    IN IF row.cells.request # Nothing
       THEN {due(Owner[row.cells.request], row.cells.request)}
       ELSE IF holders = {} THEN {{}}
       ELSE {IF newest(t) = Nothing THEN {} ELSE due(t, newest(t)) : t \in holders}

Inserted(c, row, contacts) ==
    CASE kind[at[c]] = "taxpayers" -> TaxpayerEntries(c, row, contacts)
      [] kind[at[c]] = "activities" -> ActivityEntries(c, row, contacts)
      [] OTHER -> DueEntries(c, row, contacts)

(* The transaction reads what is committed, and its own inserts. *)
CopyRow(c, contacts) ==
    /\ pc[c] = "copying"
    /\ \E row \in FirstRows(todo[c]) :
          /\ \E new \in Inserted(c, row, contacts \cup ContactsOf(made[c])) :
                made' = [made EXCEPT ![c] = @ \cup new]
          /\ todo' = [todo EXCEPT ![c] = @ \ {row}]
    /\ UNCHANGED <<importVars, at, pc>>

(***************************************************************************)
(* The job is marked and the transaction commits.  Taxpayers it created    *)
(* get accounts next; when the answer to COMMIT is lost they do not, and   *)
(* the caller is told that the approval failed.                            *)
(***************************************************************************)
CommitImport(c) ==
    /\ pc[c] = "copying"
    /\ todo[c] = {}
    /\ landed' = landed \cup made[c]
    /\ status' = [status EXCEPT ![at[c]] = "imported"]
    /\ \/ Idle(c)
       \/ /\ kind[at[c]] = "taxpayers" /\ made[c] # {}
          /\ Goto(c, "provisioning")
          /\ UNCHANGED copyVars
    /\ UNCHANGED <<kind, stored>>

(* A statement fails, or the process stops: a transaction is rolled back.  *)
(* The error of one row is caught, but the statements after it are refused *)
(* in the aborted transaction, the update of the job included.             *)
ImportCallFails(c) ==
    /\ pc[c] \in {"storing", "deciding", "copying"}
    /\ Idle(c)
    /\ UNCHANGED importVars

(* rejectImport: one guarded UPDATE. *)
RejectImport(j) ==
    /\ status[j] = "pending_review"
    /\ status' = [status EXCEPT ![j] = "rejected"]
    /\ UNCHANGED <<kind, stored, landed, pc, copyVars>>
=============================================================================

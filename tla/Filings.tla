------------------------------- MODULE Filings -------------------------------
(***************************************************************************)
(* What a taxpayer files with the office by itself: a balagh, which        *)
(* declares an event of one of six types, and the notice of a new address  *)
(* of an activity.  Both are created as a draft, edited and submitted by   *)
(* their owner, and both are stored in the same way: a row with its        *)
(* status, numbered snapshots of the form, a history of the status, and    *)
(* for a balagh the activities it selects.                                 *)
(*                                                                         *)
(* A call reads the filing, decides on what it has read and saves the      *)
(* whole object.  save() reads the previous status in a statement of its   *)
(* own.  Its transaction begins with an UPDATE of the row, which makes     *)
(* every other transaction on that row wait until it has ended: the rest   *)
(* of it, read and inserts, is one step with the UPDATE.                   *)
(*                                                                         *)
(* A notice is a service request among others.  The staff moves it on with *)
(* updateRequestStatus, one transaction that locks the row before it reads *)
(* the status.  The calls of the owner of a notice take every draft of a   *)
(* service request: what they do to those of other services is modelled in *)
(* ServiceRequests.                                                        *)
(***************************************************************************)
EXTENDS RequestStates, Naturals, Sequences, FiniteSets

CONSTANTS
    Balaghs,         \* identities of balaghs
    AddressNotices,  \* identities of drafts of the address-change service
    Activities,      \* activities of the owner
    TypesFiled,      \* bound: the types of balaghs in play
    MaxFilings,      \* bound: filings that are created
    MaxSnapshots,    \* bound: snapshots of one filing
    MaxHistory,      \* bound: rows of a history that the staff adds to
    Calls            \* calls the API serves at a time

NoFiling == "none"
Types == {"FR-201", "FR-202", "FR-203", "FR-204", "FR-205", "FR-206"}

ASSUME FilingAssumption ==
    /\ Balaghs \cap AddressNotices = {} /\ NoFiling \notin Balaghs \cup AddressNotices
    /\ TypesFiled \subseteq Types
    /\ MaxFilings \in Nat /\ MaxSnapshots \in Nat /\ MaxHistory \in Nat

VARIABLES
    status,      \* status_code, or "none" before the filing exists
    declared,    \* balagh_type_code
    snapshots,   \* rows of the form snapshots, in the order of insertion
    history,     \* rows of the status history, in the order of insertion
    selected,    \* balagh_selected_activities
    at,          \* what a call does next
    on,          \* the filing a call works on
    copy,        \* the object it will save
    previous     \* the status save() takes for the stored one

rowVars == <<status, declared, snapshots, history, selected>>
copyVars == <<on, copy, previous>>
filingVars == <<rowVars, at, copyVars>>

Filed == Balaghs \cup AddressNotices
Notice == "address_change"

(* The schemas of the forms are strict and differ in what they require: a
   form fits one type.  FR-202 and FR-205 name no activity, FR-203 and
   FR-204 one, the others at least one. *)
Targets(type) ==
    CASE type \in {"FR-202", "FR-205"} -> {{}}
      [] type \in {"FR-203", "FR-204"} -> {{a} : a \in Activities}
      [] OTHER -> SUBSET Activities \ {{}}

FormsOf(types) == UNION {[type : {t}, activityIds : Targets(t)] : t \in types}
Forms(f) == FormsOf(IF f \in Balaghs THEN TypesFiled ELSE {Notice})
Form == FormsOf(TypesFiled \cup {Notice})

NoForm == [type |-> "none", activityIds |-> {}]
NoCopy == [status |-> "none", form |-> NoForm]
(* Mutant: the union of the six schemas is all that is checked. *)
BugFormMatches(f, type, form) == form.type \in Types \cup {Notice}

(* balaghFormMatchesType; a notice has one schema. *)
FormMatches(f, type, form) == form.type = type

Goto(c, where) == at' = [at EXCEPT ![c] = where]

FilingInit ==
    /\ status = [f \in Filed |-> "none"]
    /\ declared = [f \in Filed |-> "none"]
    /\ snapshots = [f \in Filed |-> <<>>]
    /\ history = [f \in Filed |-> <<>>]
    /\ selected = [f \in Filed |-> {}]
    /\ at = [c \in Calls |-> "idle"]
    /\ on = [c \in Calls |-> NoFiling]
    /\ copy = [c \in Calls |-> NoCopy]
    /\ previous = [c \in Calls |-> "none"]

-----------------------------------------------------------------------------
(* The identity is new, so no other call meets this one. *)
Create(f, type, form) ==
    /\ status[f] = "none"
    /\ Cardinality({g \in Filed : status[g] # "none"}) < MaxFilings
    /\ FormMatches(f, type, form)
    /\ status' = [status EXCEPT ![f] = "draft"]
    /\ declared' = [declared EXCEPT ![f] = type]
    /\ snapshots' = [snapshots EXCEPT ![f] = <<[version |-> 1, form |-> form]>>]
    /\ history' = [history EXCEPT ![f] = <<[from |-> "none", to |-> "draft"]>>]
    /\ selected' = [selected EXCEPT ![f] = IF f \in Balaghs THEN form.activityIds ELSE {}]
    /\ UNCHANGED <<at, copyVars>>

Highest(f) == CHOOSE n \in 1 .. Len(snapshots[f]) :
    \A i \in 1 .. Len(snapshots[f]) : snapshots[f][i].version <= snapshots[f][n].version

(* findById: the form of the snapshot with the highest version. *)
StoredForm(f) == snapshots[f][Highest(f)].form

Take(c, f, object) ==
    /\ at[c] = "idle" /\ status[f] = "draft"
    /\ on' = [on EXCEPT ![c] = f]
    /\ copy' = [copy EXCEPT ![c] = object]
    /\ Goto(c, "saving")
    /\ UNCHANGED <<rowVars, previous>>

Edit(c, f, form) ==
    /\ FormMatches(f, declared[f], form)
    /\ Take(c, f, [status |-> "draft", form |-> form])

(* Mutant: the object that is submitted has lost its form. *)
BugSubmit(c, f) == Take(c, f, [status |-> "submitted", form |-> NoForm])

(* The form is saved once more as it was read. *)
Submit(c, f) ==
    status[f] = "draft" /\ Take(c, f, [status |-> "submitted", form |-> StoredForm(f)])

ReadPrevious(c) ==
    /\ at[c] = "saving"
    /\ previous' = [previous EXCEPT ![c] = status[on[c]]]
    /\ Goto(c, "writing")
    /\ UNCHANGED <<rowVars, on, copy>>

(* Mutant: the row is compared with itself after the UPDATE. *)
BugHistoryRow(c) == <<>>

HistoryRow(c) ==
    IF previous[c] = copy[c].status THEN <<>>
    ELSE <<[from |-> previous[c], to |-> copy[c].status]>>

Rest(c) ==
    /\ Goto(c, "idle")
    /\ on' = [on EXCEPT ![c] = NoFiling]
    /\ copy' = [copy EXCEPT ![c] = NoCopy]
    /\ previous' = [previous EXCEPT ![c] = "none"]

(* The transaction of save().  Whether its answer arrives changes nothing
   the API keeps. *)
Save(c) ==
    LET f == on[c] IN
    /\ at[c] = "writing"
    /\ Len(snapshots[f]) < MaxSnapshots
    /\ status' = [status EXCEPT ![f] = copy[c].status]
    /\ snapshots' = [snapshots EXCEPT ![f] =
           Append(@, [version |-> snapshots[f][Highest(f)].version + 1, form |-> copy[c].form])]
    /\ history' = [history EXCEPT ![f] = @ \o HistoryRow(c)]
    /\ Rest(c)
    /\ UNCHANGED <<declared, selected>>

(* A statement fails or the process ends before COMMIT. *)
SaveFails(c) ==
    /\ at[c] \in {"saving", "writing"}
    /\ Rest(c)
    /\ UNCHANGED rowVars

(* updateRequestStatus; no form is looked at or stored. *)
StaffMove(f, to) ==
    /\ f \in AddressNotices /\ to \in Allowed(status[f])
    /\ Len(history[f]) < MaxHistory
    /\ status' = [status EXCEPT ![f] = to]
    /\ history' = [history EXCEPT ![f] = Append(@, [from |-> status[f], to |-> to])]
    /\ UNCHANGED <<declared, snapshots, selected, at, copyVars>>

FilingNext ==
    \/ \E f \in Filed : \E form \in Forms(f) : \E type \in TypesFiled \cup {Notice} :
           (f \in AddressNotices <=> type = Notice) /\ Create(f, type, form)
    \/ \E c \in Calls, f \in Filed :
           Submit(c, f) \/ \E form \in Forms(f) : Edit(c, f, form)
    \/ \E c \in Calls : ReadPrevious(c) \/ Save(c) \/ SaveFails(c)
    \/ \E f \in AddressNotices, to \in Status : StaffMove(f, to)

-----------------------------------------------------------------------------
FilingTypeOK ==
    /\ status \in [Filed -> Status \cup {"none"}]
    /\ \A f \in Balaghs : status[f] \in {"none", "draft", "submitted"}
    /\ declared \in [Filed -> Types \cup {Notice, "none"}]
    /\ snapshots \in [Filed -> Seq([version : Nat, form : Form])]
    /\ history \in [Filed -> Seq([from : Status \cup {"none"}, to : Status])]
    /\ selected \in [Filed -> SUBSET Activities]
    /\ on \in [Calls -> Filed \cup {NoFiling}]
    /\ copy \in [Calls -> [status : {"draft", "submitted"}, form : Form] \cup {NoCopy}]
    /\ previous \in [Calls -> Status \cup {"none"}]

(* Whatever edits and submissions overlap, every form on record is one of
   the type that was declared: a balagh declared as FR-206, which the office
   handles without a visit, never carries the form of another type. *)
FormsFitTheirType ==
    \A f \in Filed : \A i \in DOMAIN snapshots[f] : snapshots[f][i].form.type = declared[f]

(* However calls of the owner and moves of the staff overlap, a filing that
   is not a draft has a history row that says it was submitted. *)
SubmissionIsRecorded ==
    \A f \in Filed : status[f] \notin {"none", "draft"} =>
        \E i \in DOMAIN history[f] : history[f][i] = [from |-> "draft", to |-> "submitted"]
=============================================================================

-------------------------- MODULE ServiceRequests --------------------------
(***************************************************************************)
(* Service requests: what the taxpayer does (create, edit, attach          *)
(* documents, submit) and what the staff does (move the request along).    *)
(*                                                                         *)
(* ServiceRequestService reads the request, decides on what it has read,   *)
(* and saves the whole object later: save() reads the previous status in   *)
(* a statement of its own, then, in a transaction, updates the row by its  *)
(* id without looking at it again, reads the highest snapshot version and  *)
(* inserts a snapshot and, if the status changed, a history row.           *)
(* RequestDraftService, made for notices of a change of address, finds any *)
(* request of its owner by its id: its calls save these requests too, with *)
(* a form of their own and without looking at the documents.  The staff    *)
(* endpoint locks the row before it looks at it.  The database is          *)
(* PostgreSQL at READ COMMITTED: an UPDATE and a SELECT ... FOR UPDATE     *)
(* wait for the transaction that updated or locked the row.                *)
(***************************************************************************)
EXTENDS Integers, Sequences, RequestDocuments, RequestStates

CONSTANTS
    Requests,       \* identities of requests
    Sessions,       \* calls the API serves at the same time
    Service,        \* Service[r]: the service that r asks for
    IsCompany,      \* IsCompany[r]: its taxpayer is a company
    Forms,          \* the forms that callers send
    Calls,          \* the calls that are made, see RequestAssumption
    MaxSnapshots,   \* bound on the snapshots of one request
    MaxHistory,     \* bound on the history rows of one request
    Nobody          \* not a session

ASSUME RequestAssumption ==
    /\ Service \in [Requests -> ServiceCode]
    /\ IsCompany \in [Requests -> BOOLEAN]
    /\ Forms \subseteq Form
    /\ Calls \subseteq {"edit", "submit", "draft_edit", "draft_submit",
                       "upload", "transition"}
    /\ MaxSnapshots \in Nat
    /\ MaxHistory \in Nat
    /\ Nobody \notin Sessions

VARIABLES
    status,       \* status_code of requests.service_requests, or "absent"
    submittedAt,  \* submitted_at is set
    snapshots,    \* rows of request_form_snapshots, in the order of insertion
    history,      \* rows of request_status_histories, in the order of insertion
    documents,    \* document codes of the linked attachments
    lock,         \* the transaction that holds the row of the request
    pc,           \* what a call does next
    on,           \* the request a call works on
    copy,         \* the object it will write: status, form, submitted
    from,         \* the status it takes for the present one
    version,      \* the snapshot version it will insert
    document      \* the document it uploads

rowVars == <<status, submittedAt, snapshots, history>>
callVars == <<pc, on, copy, from, version, document>>
vars == <<rowVars, documents, lock, callVars>>

NoForm == [service |-> "none", identity |-> "none"]

(* The payload {targets} of a notice: extractTargets reads no more from the *)
(* form of a service, and it names no identity document.                    *)
TargetsForm == [service |-> "address_change", identity |-> "none"]
SavedForm == Forms \cup {TargetsForm}

NoCopy == [status |-> "draft", form |-> NoForm, submitted |-> FALSE]
NoRequest == "none"

Exists(r) == status[r] # "absent"

(* The form with the highest snapshot version. *)
LatestForm(r) ==
    LET last == CHOOSE i \in 1..Len(snapshots[r]) :
                    \A j \in 1..Len(snapshots[r]) :
                        snapshots[r][j].version <= snapshots[r][i].version
    IN  snapshots[r][last].form

Missing(r, form) ==
    MissingRequiredDocuments(Service[r], IsCompany[r], form, documents[r])

Goto(s, next) == pc' = [pc EXCEPT ![s] = next]

End(s) ==
    /\ pc' = [pc EXCEPT ![s] = "idle"]
    /\ on' = [on EXCEPT ![s] = NoRequest]
    /\ copy' = [copy EXCEPT ![s] = NoCopy]
    /\ from' = [from EXCEPT ![s] = "none"]
    /\ version' = [version EXCEPT ![s] = 0]
    /\ document' = [document EXCEPT ![s] = "none"]

Unlock(s) == lock' = [r \in Requests |-> IF lock[r] = s THEN Nobody ELSE lock[r]]

-----------------------------------------------------------------------------
Init ==
    /\ status = [r \in Requests |-> "absent"]
    /\ submittedAt = [r \in Requests |-> FALSE]
    /\ snapshots = [r \in Requests |-> <<>>]
    /\ history = [r \in Requests |-> <<>>]
    /\ documents = [r \in Requests |-> {}]
    /\ lock = [r \in Requests |-> Nobody]
    /\ pc = [s \in Sessions |-> "idle"]
    /\ on = [s \in Sessions |-> NoRequest]
    /\ copy = [s \in Sessions |-> NoCopy]
    /\ from = [s \in Sessions |-> "none"]
    /\ version = [s \in Sessions |-> 0]
    /\ document = [s \in Sessions |-> "none"]

(* Mutant: the first snapshot is numbered as an empty table's highest. *)
BugNumbersFromZero(r, form) ==
    /\ ~Exists(r)
    /\ form.service = Service[r]
    /\ status' = [status EXCEPT ![r] = "draft"]
    /\ snapshots' = [snapshots EXCEPT ![r] = <<[version |-> 0, form |-> form]>>]
    /\ history' = [history EXCEPT ![r] = <<[from |-> "absent", to |-> "draft"]>>]
    /\ UNCHANGED <<submittedAt, documents, lock, callVars>>

(***************************************************************************)
(* create: row, first snapshot and first history row, in one transaction.  *)
(* The schema is discriminated by serviceCode, so the form fits.           *)
(***************************************************************************)
Create(r, form) ==
    /\ ~Exists(r)
    /\ form.service = Service[r]
    /\ status' = [status EXCEPT ![r] = "draft"]
    /\ snapshots' = [snapshots EXCEPT ![r] = <<[version |-> 1, form |-> form]>>]
    /\ history' = [history EXCEPT ![r] = <<[from |-> "absent", to |-> "draft"]>>]
    /\ UNCHANGED <<submittedAt, documents, lock, callVars>>

-----------------------------------------------------------------------------
CanBegin(s, call, r) ==
    /\ call \in Calls
    /\ pc[s] = "idle"
    /\ Exists(r)

(* edit: only a draft; the form may be that of any service. *)
EditFind(s, r, form) ==
    /\ CanBegin(s, "edit", r)
    /\ Len(snapshots[r]) < MaxSnapshots
    /\ status[r] = "draft"
    /\ on' = [on EXCEPT ![s] = r]
    /\ copy' = [copy EXCEPT ![s] = [status |-> "draft", form |-> form,
                                    submitted |-> submittedAt[r]]]
    /\ Goto(s, "previous")
    /\ UNCHANGED <<rowVars, documents, lock, from, version, document>>

(* submit: only a draft, with the form read now ... *)
SubmitFind(s, r) ==
    /\ CanBegin(s, "submit", r)
    /\ Len(snapshots[r]) < MaxSnapshots
    /\ status[r] = "draft"
    /\ on' = [on EXCEPT ![s] = r]
    /\ copy' = [copy EXCEPT ![s] = [status |-> "draft", form |-> LatestForm(r),
                                    submitted |-> submittedAt[r]]]
    /\ Goto(s, "check")
    /\ UNCHANGED <<rowVars, documents, lock, from, version, document>>

(* ... whose mandatory documents are all attached. *)
SubmitCheck(s) ==
    /\ pc[s] = "check"
    /\ IF Missing(on[s], copy[s].form) = {}
       THEN /\ copy' = [copy EXCEPT ![s] = [status |-> "submitted", form |-> copy[s].form,
                                            submitted |-> TRUE]]
            /\ Goto(s, "previous")
            /\ UNCHANGED <<on, from, version, document>>
       ELSE End(s)
    /\ UNCHANGED <<rowVars, documents, lock>>

(* PATCH /requests/:id: the same edit, with the targets of a notice. *)
DraftEditFind(s, r) ==
    /\ CanBegin(s, "draft_edit", r)
    /\ Len(snapshots[r]) < MaxSnapshots
    /\ status[r] = "draft"
    /\ on' = [on EXCEPT ![s] = r]
    /\ copy' = [copy EXCEPT ![s] = [status |-> "draft", form |-> TargetsForm,
                                    submitted |-> submittedAt[r]]]
    /\ Goto(s, "previous")
    /\ UNCHANGED <<rowVars, documents, lock, from, version, document>>

(* POST /requests/:id/submit: submits at once, whatever documents there are. *)
DraftSubmitFind(s, r) ==
    /\ CanBegin(s, "draft_submit", r)
    /\ Len(snapshots[r]) < MaxSnapshots
    /\ status[r] = "draft"
    /\ on' = [on EXCEPT ![s] = r]
    /\ copy' = [copy EXCEPT ![s] = [status |-> "submitted", form |-> TargetsForm,
                                    submitted |-> TRUE]]
    /\ Goto(s, "previous")
    /\ UNCHANGED <<rowVars, documents, lock, from, version, document>>

-----------------------------------------------------------------------------
(* save: the previous status, before and outside the transaction. *)
SavePrevious(s) ==
    /\ pc[s] = "previous"
    /\ from' = [from EXCEPT ![s] = status[on[s]]]
    /\ Goto(s, "update")
    /\ UNCHANGED <<rowVars, documents, lock, on, copy, version, document>>

(* Mutant: the snapshot is written before, not after, the row is updated. *)
BugUpdatesLast(s) ==
    /\ pc[s] = "update"
    /\ Goto(s, "version")
    /\ UNCHANGED <<rowVars, documents, lock, on, copy, from, version, document>>

(* save: the UPDATE, which waits for the row and keeps it until COMMIT. *)
SaveUpdate(s) ==
    /\ pc[s] = "update"
    /\ lock[on[s]] = Nobody
    /\ lock' = [lock EXCEPT ![on[s]] = s]
    /\ Goto(s, "version")
    /\ UNCHANGED <<rowVars, documents, on, copy, from, version, document>>

(* save: coalesce(max(snapshot_version), 0) + 1. *)
SaveVersion(s) ==
    /\ pc[s] = "version"
    /\ LET taken == {snapshots[on[s]][i].version : i \in 1..Len(snapshots[on[s]])}
       IN  \E v \in 1..Len(snapshots[on[s]]) + 1 :
              /\ \A u \in taken : u < v
              /\ v = 1 \/ v - 1 \in taken
              /\ version' = [version EXCEPT ![s] = v]
    /\ Goto(s, "save")
    /\ UNCHANGED <<rowVars, documents, lock, on, copy, from, document>>

(* Mutant: submitted_at is written by submit only. *)
BugKeepsSubmittedAt(s) ==
    LET r == on[s] IN
    /\ pc[s] = "save"
    /\ status' = [status EXCEPT ![r] = copy[s].status]
    /\ submittedAt' = [submittedAt EXCEPT ![r] = @ \/ copy[s].submitted]
    /\ snapshots' = [snapshots EXCEPT ![r] =
                        Append(@, [version |-> version[s], form |-> copy[s].form])]
    /\ history' = [history EXCEPT ![r] =
                      IF from[s] = copy[s].status THEN @
                      ELSE Append(@, [from |-> from[s], to |-> copy[s].status])]
    /\ Unlock(s)
    /\ End(s)
    /\ UNCHANGED documents

(* save: snapshot, history row if the status changed, COMMIT. *)
SaveCommit(s) ==
    LET r == on[s] IN
    /\ pc[s] = "save"
    /\ status' = [status EXCEPT ![r] = copy[s].status]
    /\ submittedAt' = [submittedAt EXCEPT ![r] = copy[s].submitted]
    /\ snapshots' = [snapshots EXCEPT ![r] =
                        Append(@, [version |-> version[s], form |-> copy[s].form])]
    /\ history' = [history EXCEPT ![r] =
                      IF from[s] = copy[s].status THEN @
                      ELSE Append(@, [from |-> from[s], to |-> copy[s].status])]
    /\ Unlock(s)
    /\ End(s)
    /\ UNCHANGED documents

-----------------------------------------------------------------------------
(* Mutant: the row is read without FOR UPDATE. *)
BugTransitionReadsOnly(s, r, to) ==
    /\ CanBegin(s, "transition", r)
    /\ Len(history[r]) < MaxHistory
    /\ to \in Allowed(status[r])
    /\ on' = [on EXCEPT ![s] = r]
    /\ from' = [from EXCEPT ![s] = status[r]]
    /\ copy' = [copy EXCEPT ![s] = [NoCopy EXCEPT !.status = to]]
    /\ Goto(s, "transition")
    /\ UNCHANGED <<rowVars, documents, lock, version, document>>

(* updateRequestStatus: lock the row, then look at the transition.  A       *)
(* transition that is not allowed rolls back and changes nothing.           *)
TransitionFind(s, r, to) ==
    /\ CanBegin(s, "transition", r)
    /\ Len(history[r]) < MaxHistory
    /\ lock[r] = Nobody
    /\ to \in Allowed(status[r])
    /\ lock' = [lock EXCEPT ![r] = s]
    /\ on' = [on EXCEPT ![s] = r]
    /\ from' = [from EXCEPT ![s] = status[r]]
    /\ copy' = [copy EXCEPT ![s] = [NoCopy EXCEPT !.status = to]]
    /\ Goto(s, "transition")
    /\ UNCHANGED <<rowVars, documents, version, document>>

TransitionCommit(s) ==
    /\ pc[s] = "transition"
    /\ status' = [status EXCEPT ![on[s]] = copy[s].status]
    /\ history' = [history EXCEPT ![on[s]] =
                      Append(@, [from |-> from[s], to |-> copy[s].status])]
    /\ Unlock(s)
    /\ End(s)
    /\ UNCHANGED <<submittedAt, snapshots, documents>>

-----------------------------------------------------------------------------
Uploadable == {"draft", "need_more_info"}

(* upload: while the request may be completed, a document of its service. *)
UploadFind(s, r, d) ==
    /\ CanBegin(s, "upload", r)
    /\ status[r] \in Uploadable
    /\ d \in DocumentCodes(Service[r])
    /\ on' = [on EXCEPT ![s] = r]
    /\ document' = [document EXCEPT ![s] = d]
    /\ Goto(s, "store")
    /\ UNCHANGED <<rowVars, documents, lock, copy, from, version>>

(* The object storage takes the file, or fails and the call returns. *)
UploadStore(s) ==
    /\ pc[s] = "store"
    /\ \/ Goto(s, "link") /\ UNCHANGED <<on, copy, from, version, document>>
       \/ End(s)
    /\ UNCHANGED <<rowVars, documents, lock>>

(* The attachment and its link, in one transaction. *)
UploadLink(s) ==
    /\ pc[s] = "link"
    /\ documents' = [documents EXCEPT ![on[s]] = @ \cup {document[s]}]
    /\ End(s)
    /\ UNCHANGED <<rowVars, lock>>

-----------------------------------------------------------------------------
(* The call dies, or its connection does: an open transaction rolls back. *)
Crash(s) ==
    /\ pc[s] # "idle"
    /\ Unlock(s)
    /\ End(s)
    /\ UNCHANGED <<rowVars, documents>>

Continue(s) ==
    \/ SubmitCheck(s)
    \/ SavePrevious(s) \/ SaveUpdate(s) \/ SaveVersion(s) \/ SaveCommit(s)
    \/ TransitionCommit(s)
    \/ UploadStore(s) \/ UploadLink(s)

Next ==
    \/ \E r \in Requests, form \in Forms : Create(r, form)
    \/ \E s \in Sessions :
          \/ \E r \in Requests, form \in Forms : EditFind(s, r, form)
          \/ \E r \in Requests :
                SubmitFind(s, r) \/ DraftEditFind(s, r) \/ DraftSubmitFind(s, r)
          \/ \E r \in Requests, to \in Status : TransitionFind(s, r, to)
          \/ \E r \in Requests : \E d \in DocumentCodes(Service[r]) : UploadFind(s, r, d)
          \/ Continue(s)
          \/ Crash(s)

Spec == Init /\ [][Next]_vars

-----------------------------------------------------------------------------
Pc == {"idle", "check", "previous", "update", "version", "save", "transition",
       "store", "link"}
SnapshotRow == [version: Nat \ {0}, form: SavedForm]
AnyDocument == UNION {DocumentCodes(Service[r]) : r \in Requests}
HistoryRow == [from: Status \cup {"absent"}, to: Status]

TypeOK ==
    /\ status \in [Requests -> Status \cup {"absent"}]
    /\ submittedAt \in [Requests -> BOOLEAN]
    /\ snapshots \in [Requests -> Seq(SnapshotRow)]
    /\ history \in [Requests -> Seq(HistoryRow)]
    /\ documents \in [Requests -> SUBSET AnyDocument]
    /\ \A r \in Requests : documents[r] \subseteq DocumentCodes(Service[r])
    /\ lock \in [Requests -> Sessions \cup {Nobody}]
    /\ pc \in [Sessions -> Pc]
    /\ on \in [Sessions -> Requests \cup {NoRequest}]
    /\ copy \in [Sessions -> [status: Status, form: SavedForm \cup {NoForm}, submitted: BOOLEAN]]
    /\ from \in [Sessions -> Status \cup {"absent", "none"}]
    /\ version \in [Sessions -> Nat]
    /\ document \in [Sessions -> AnyDocument \cup {"none"}]

(* The snapshots of a request are numbered 1, 2, 3, ... without a gap or a  *)
(* repetition, although no unique key says so and saves run side by side:   *)
(* save() updates the row before it reads the highest version.              *)
SnapshotsNumbered ==
    \A r \in Requests : \A i \in 1..Len(snapshots[r]) : snapshots[r][i].version = i

(* A request that carries a submission date and a form of a service misses  *)
(* no mandatory document of that form, whatever edits and submissions       *)
(* overlap: submit saves the very form whose documents it counted.  What    *)
(* the calls for notices submit carries their own form, and nobody has      *)
(* counted its documents; no overlap gives it the form of a service.        *)
SubmittedIsComplete ==
    \A r \in Requests :
        submittedAt[r] /\ LatestForm(r) # TargetsForm => Missing(r, LatestForm(r)) = {}

(* A submitted request to open a tax file has an identity card, both sides, *)
(* or a passport attached ("not accepted without an identity card or        *)
(* passport"), however often the form changed from one to the other, as     *)
(* long as the form is one of that service.                                 *)
IdentityIsProven ==
    \A r \in Requests :
        Service[r] = "FR-101" /\ submittedAt[r] /\ LatestForm(r).service = "FR-101" =>
            \/ {"national_id_front", "national_id_back"} \subseteq documents[r]
            \/ "passport" \in documents[r]

(* The requests follow the lifecycle the office promises, each move told by *)
(* its history row.                                                         *)
Lifecycle == INSTANCE RequestLifecycle WITH trail <- history
LifecycleRespected == Lifecycle!Spec

(* Stale reads are all that breaks it: while no call of a taxpayer that is  *)
(* going to save a request overlaps another one that writes it, its moves   *)
(* follow the lifecycle, with its staff's, its crashes' and its uploads'    *)
(* part in any order.                                                       *)
Saving == {"check", "previous", "update", "version", "save"}

SavesAlone ==
    \A s, t \in Sessions :
        pc[s] \in Saving /\ pc[t] \in Saving \cup {"transition"} /\ on[s] = on[t] => s = t

OnlyStaleReadsBreak == []SavesAlone => LifecycleRespected

(* "approved states and their transitions only": a request that exists      *)
(* changes its state along ALLOWED_TRANSITIONS.                             *)
AllowedSteps ==
    [][\A r \in Requests :
          Exists(r) /\ status'[r] # status[r] => status'[r] \in Allowed(status[r])]_vars
=============================================================================

----------------------- MODULE ServiceRequestsProofs -----------------------
(***************************************************************************)
(* What holds of service requests for any number of requests, callers and  *)
(* documents, although save() decides on stale reads; and what the row     *)
(* lock of the staff endpoint is enough for.                               *)
(*                                                                         *)
(* SnapshotsNumbered and SubmittedIsComplete are not inductive by          *)
(* themselves.  CallInv says what a call may rely on between two of its    *)
(* steps: after its UPDATE it holds the row, so the version it read is     *)
(* still the next one; and an object that carries a submission date        *)
(* carries the form whose documents were counted, which cannot get fewer.  *)
(***************************************************************************)
EXTENDS ServiceRequests, TLAPS

LastForm(r) == snapshots[r][Len(snapshots[r])].form

(* A request has a form from its creation on, and no submission date while  *)
(* it is a draft.                                                           *)
RowInv ==
    \A r \in Requests :
        /\ Exists(r) => snapshots[r] # <<>>
        /\ status[r] \in {"absent", "draft"} => ~submittedAt[r]

CallInv ==
    \A s \in Sessions :
        /\ pc[s] # "idle" => on[s] \in Requests /\ Exists(on[s])
        /\ pc[s] \in Saving => copy[s].form \in SavedForm
        /\ pc[s] \in {"update", "version", "save", "transition"} => from[s] \in Status
        /\ pc[s] \in {"version", "save", "transition"} => lock[on[s]] = s
        /\ pc[s] = "save" => version[s] = Len(snapshots[on[s]]) + 1
        /\ pc[s] = "transition" => copy[s].status # "draft"
        /\ pc[s] \in {"store", "link"} => document[s] \in DocumentCodes(Service[on[s]])
        /\ copy[s].status = "draft" => ~copy[s].submitted

(* The documents of a submission are complete, on its way and in the row,   *)
(* unless its form is the one the calls for notices write.                  *)
CompleteInv ==
    /\ \A s \in Sessions :
          pc[s] \in Saving /\ copy[s].submitted /\ copy[s].form # TargetsForm =>
              MissingRequiredDocuments(Service[on[s]], IsCompany[on[s]],
                                       copy[s].form, documents[on[s]]) = {}
    /\ \A r \in Requests :
          submittedAt[r] /\ LastForm(r) # TargetsForm =>
              MissingRequiredDocuments(Service[r], IsCompany[r],
                                       LastForm(r), documents[r]) = {}

BaseInv ==
    /\ TypeOK
    /\ SnapshotsNumbered
    /\ RowInv
    /\ CallInv

-----------------------------------------------------------------------------
(* In a table numbered 1, 2, 3, ... the highest version is the last row.    *)
LEMMA LastIsHighest ==
    ASSUME NEW q \in Seq(SnapshotRow), q # <<>>,
           \A i \in 1..Len(q) : q[i].version = i
    PROVE  (CHOOSE i \in 1..Len(q) :
               \A j \in 1..Len(q) : q[j].version <= q[i].version) = Len(q)
<1>1. Len(q) \in Nat \ {0}
  OBVIOUS
<1>2. \A i \in 1..Len(q) :
         (\A j \in 1..Len(q) : q[j].version <= q[i].version) <=> i = Len(q)
  BY <1>1
<1>3. Len(q) \in 1..Len(q)
  BY <1>1
<1>4. QED BY <1>2, <1>3

(* A number above all of them, and at most one above their count, is next.  *)
LEMMA NextNumber ==
    ASSUME NEW q \in Seq(SnapshotRow), q # <<>>,
           \A i \in 1..Len(q) : q[i].version = i,
           NEW v \in 1..Len(q) + 1,
           \A u \in {q[i].version : i \in 1..Len(q)} : u < v
    PROVE  v = Len(q) + 1
<1>1. Len(q) \in Nat \ {0}
  OBVIOUS
<1>2. q[Len(q)].version = Len(q) /\ Len(q) \in 1..Len(q)
  BY <1>1
<1>3. Len(q) < v
  BY <1>2
<1>4. QED BY <1>1, <1>3

(* A table that has got a row is not empty.                                 *)
LEMMA AppendIsNotEmpty ==
    ASSUME NEW S, NEW q \in Seq(S), NEW e \in S
    PROVE  Append(q, e) # <<>>
<1>1. Len(Append(q, e)) = Len(q) + 1 /\ Len(q) \in Nat
  OBVIOUS
<1>2. Len(Append(q, e)) # 0
  BY <1>1
<1>3. Len(<<>>) = 0
  OBVIOUS
<1>4. QED BY <1>2, <1>3, Zenon

(* findById returns the form of the last snapshot.                          *)
LEMMA LatestIsLast ==
    ASSUME BaseInv, NEW r \in Requests, Exists(r)
    PROVE  /\ LatestForm(r) = LastForm(r)
           /\ LatestForm(r) \in SavedForm
<1>1. /\ snapshots[r] \in Seq(SnapshotRow)
      /\ snapshots[r] # <<>>
      /\ \A i \in 1..Len(snapshots[r]) : snapshots[r][i].version = i
  BY DEF BaseInv, TypeOK, RowInv, SnapshotsNumbered
<1>2. (CHOOSE i \in 1..Len(snapshots[r]) :
         \A j \in 1..Len(snapshots[r]) :
             snapshots[r][j].version <= snapshots[r][i].version) = Len(snapshots[r])
  BY <1>1, LastIsHighest
<1>3. LatestForm(r) = LastForm(r)
  BY <1>2 DEF LatestForm, LastForm
<1>4. snapshots[r][Len(snapshots[r])] \in SnapshotRow
  BY <1>1
<1>5. QED BY <1>3, <1>4 DEF LastForm, SnapshotRow

(* More documents never make one missing.                                   *)
LEMMA MissingShrinks ==
    ASSUME NEW service, NEW isCompany, NEW form, NEW before, NEW after,
           before \subseteq after,
           MissingRequiredDocuments(service, isCompany, form, before) = {}
    PROVE  MissingRequiredDocuments(service, isCompany, form, after) = {}
  BY DEF MissingRequiredDocuments

(* No transition leads back to a draft.                                     *)
LEMMA NeverBackToDraft == \A from0 : "draft" \notin Allowed(from0)
  BY DEF Allowed

-----------------------------------------------------------------------------
LEMMA InitBase == Init => BaseInv /\ CompleteInv
  BY RequestAssumption
     DEF Init, BaseInv, CompleteInv, TypeOK, SnapshotsNumbered, RowInv, CallInv,
         Exists, Saving, NoCopy, NoForm, NoRequest, Pc, Status

(* A call that ends without writing releases at most its own row.           *)
LEMMA EndBase ==
    ASSUME BaseInv, NEW s \in Sessions, End(s), UNCHANGED <<rowVars, documents>>,
           Unlock(s) \/ UNCHANGED lock
    PROVE  BaseInv'
<1> USE RequestAssumption
    DEF BaseInv, TypeOK, SnapshotsNumbered, RowInv, CallInv, Exists, Saving, Pc,
        rowVars
<1>1. TypeOK'
  <2>1. NoCopy \in [status: Status, form: SavedForm \cup {NoForm}, submitted: BOOLEAN]
    BY DEF NoCopy, Status
  <2>2. lock' \in [Requests -> Sessions \cup {Nobody}]
    BY DEF Unlock
  <2>3. QED BY <2>1, <2>2 DEF End
<1>2. SnapshotsNumbered' /\ RowInv'
  OBVIOUS
<1>3. CallInv'
  <2> SUFFICES ASSUME NEW t \in Sessions PROVE CallInv!(t)'
    OBVIOUS
  <2>1. CASE t = s
    BY <2>1 DEF End, NoCopy
  <2>2. CASE t # s
    <3>1. pc[t] \in {"version", "save", "transition"} => lock'[on[t]] = t
      BY <2>2 DEF Unlock
    <3>2. QED BY <2>2, <3>1 DEF End
  <2>3. QED BY <2>1, <2>2
<1>4. QED BY <1>1, <1>2, <1>3

(* Steps that begin a call or take it on without touching the tables.       *)
LEMMA PrepareBase ==
    ASSUME BaseInv, NEW s \in Sessions,
           \/ \E r \in Requests, form \in Forms : EditFind(s, r, form)
           \/ \E r \in Requests :
                 SubmitFind(s, r) \/ DraftEditFind(s, r) \/ DraftSubmitFind(s, r)
           \/ \E r \in Requests, to \in Status : TransitionFind(s, r, to)
           \/ \E r \in Requests : \E d \in DocumentCodes(Service[r]) : UploadFind(s, r, d)
           \/ SubmitCheck(s) \/ SavePrevious(s) \/ SaveUpdate(s)
           \/ UploadStore(s) \/ Crash(s)
    PROVE  BaseInv'
<1> USE RequestAssumption
    DEF BaseInv, TypeOK, SnapshotsNumbered, RowInv, CallInv, Exists, Saving, Pc,
        Goto, rowVars
<1>1. CASE \E r \in Requests, form \in Forms : EditFind(s, r, form)
  <2>1. PICK r \in Requests, form \in Forms : EditFind(s, r, form)
    BY <1>1
  <2>2. form \in SavedForm
    BY DEF SavedForm
  <2>3. QED BY <2>1, <2>2 DEF EditFind, CanBegin
<1>2. CASE \E r \in Requests : SubmitFind(s, r)
  <2>1. PICK r \in Requests : SubmitFind(s, r)
    BY <1>2
  <2>2. LatestForm(r) \in SavedForm
    BY <2>1, LatestIsLast DEF SubmitFind, CanBegin
  <2>3. QED BY <2>1, <2>2 DEF SubmitFind, CanBegin
<1>2a. CASE \E r \in Requests : DraftEditFind(s, r) \/ DraftSubmitFind(s, r)
  <2>1. PICK r \in Requests : DraftEditFind(s, r) \/ DraftSubmitFind(s, r)
    BY <1>2a
  <2>2. TargetsForm \in SavedForm /\ "submitted" \in Status
    BY DEF SavedForm, Status
  <2>3. CASE DraftEditFind(s, r)
    BY <2>2, <2>3 DEF DraftEditFind, CanBegin
  <2>4. CASE DraftSubmitFind(s, r)
    BY <2>2, <2>4 DEF DraftSubmitFind, CanBegin
  <2>5. QED BY <2>1, <2>3, <2>4
<1>3. CASE \E r \in Requests, to \in Status : TransitionFind(s, r, to)
  <2>1. PICK r \in Requests, to \in Status : TransitionFind(s, r, to)
    BY <1>3
  <2>2. to # "draft"
    BY <2>1, NeverBackToDraft DEF TransitionFind
  <2>3. PICK c \in [status: {to}, form: {NoForm}, submitted: {FALSE}] :
            copy' = [copy EXCEPT ![s] = c]
    <3>1. [NoCopy EXCEPT !.status = to] \in [status: {to}, form: {NoForm}, submitted: {FALSE}]
      BY DEF NoCopy
    <3>2. QED BY <2>1, <3>1 DEF TransitionFind
  <2>4. TypeOK'
    <3>1. copy' \in [Sessions -> [status: Status, form: SavedForm \cup {NoForm},
                                 submitted: BOOLEAN]]
      BY <2>3, ZenonT(20)
    <3>2. from' \in [Sessions -> Status \cup {"absent", "none"}]
      BY <2>1 DEF TransitionFind
    <3>3. QED BY <2>1, <3>1, <3>2 DEF TransitionFind, CanBegin
  <2>5. SnapshotsNumbered' /\ RowInv'
    BY <2>1 DEF TransitionFind, CanBegin
  <2>6. CallInv'
    BY <2>1, <2>2, <2>3 DEF TransitionFind, CanBegin
  <2>7. QED BY <2>4, <2>5, <2>6
<1>4. CASE \E r \in Requests : \E d \in DocumentCodes(Service[r]) : UploadFind(s, r, d)
  <2>1. PICK r \in Requests : \E d \in DocumentCodes(Service[r]) : UploadFind(s, r, d)
    BY <1>4
  <2>2. PICK d \in DocumentCodes(Service[r]) : UploadFind(s, r, d)
    BY <2>1
  <2>3. TypeOK'
    <3>1. d \in AnyDocument
      BY DEF AnyDocument
    <3>2. document' \in [Sessions -> AnyDocument \cup {"none"}]
      BY <2>2, <3>1 DEF UploadFind
    <3>3. pc' \in [Sessions -> Pc] /\ on' \in [Sessions -> Requests \cup {NoRequest}]
      BY <2>2 DEF UploadFind, CanBegin
    <3>4. QED BY <2>2, <3>2, <3>3 DEF UploadFind
  <2>4. SnapshotsNumbered' /\ RowInv'
    BY <2>2 DEF UploadFind, CanBegin
  <2>5. CallInv'
    <3>1. on' = [on EXCEPT ![s] = r] /\ document' = [document EXCEPT ![s] = d]
      BY <2>2 DEF UploadFind
    <3>2. pc' = [pc EXCEPT ![s] = "store"] /\ pc[s] = "idle" /\ status[r] # "absent"
      BY <2>2 DEF UploadFind, CanBegin
    <3>3. UNCHANGED <<status, submittedAt, snapshots, history, lock, copy, from, version>>
      BY <2>2 DEF UploadFind
    <3> SUFFICES ASSUME NEW t \in Sessions PROVE CallInv!(t)'
      OBVIOUS
    <3>4. CASE t = s
      <4>1. pc'[t] = "store" /\ on'[t] = r /\ document'[t] = d
        BY <3>1, <3>2, <3>4
      <4>2. copy'[t] = copy[t] /\ status'[r] # "absent"
        BY <3>2, <3>3
      <4>3. QED BY <4>1, <4>2
    <3>5. CASE t # s
      BY <3>1, <3>2, <3>3, <3>5
    <3>6. QED BY <3>4, <3>5
  <2>6. QED BY <2>3, <2>4, <2>5
<1>5. CASE SubmitCheck(s)
  <2>1. CASE Missing(on[s], copy[s].form) = {}
    <3>1. PICK c \in [status: {"submitted"}, form: {copy[s].form}, submitted: {TRUE}] :
              copy' = [copy EXCEPT ![s] = c]
      BY <1>5, <2>1 DEF SubmitCheck
    <3>2. "submitted" \in Status /\ copy[s].form \in SavedForm
      BY <1>5 DEF SubmitCheck, Status
    <3>3. TypeOK'
      <4>1. copy' \in [Sessions -> [status: Status, form: SavedForm \cup {NoForm},
                                   submitted: BOOLEAN]]
        BY <3>1, <3>2, ZenonT(20)
      <4>2. pc' \in [Sessions -> Pc]
        BY <1>5, <2>1, ZenonT(20) DEF SubmitCheck
      <4>3. UNCHANGED <<rowVars, documents, lock, on, from, version, document>>
        BY <1>5, <2>1 DEF SubmitCheck
      <4>4. QED BY <4>1, <4>2, <4>3
    <3>4. SnapshotsNumbered' /\ RowInv'
      BY <1>5, <2>1 DEF SubmitCheck
    <3>5. CallInv'
      BY <1>5, <2>1, <3>1, <3>2 DEF SubmitCheck
    <3>6. QED BY <3>3, <3>4, <3>5
  <2>2. CASE Missing(on[s], copy[s].form) # {}
    BY <1>5, <2>2, EndBase DEF SubmitCheck, Unlock
  <2>3. QED BY <2>1, <2>2
<1>6. CASE SavePrevious(s)
  BY <1>6 DEF SavePrevious
<1>7. CASE SaveUpdate(s)
  BY <1>7 DEF SaveUpdate
<1>8. CASE UploadStore(s)
  <2>1. CASE End(s)
    BY <1>8, <2>1, EndBase DEF UploadStore
  <2>2. CASE ~End(s)
    <3>1. pc' = [pc EXCEPT ![s] = "link"] /\ UNCHANGED <<on, copy, from, version, document>>
      BY <1>8, <2>2 DEF UploadStore
    <3>2. pc[s] = "store" /\ UNCHANGED <<rowVars, documents, lock>>
      BY <1>8 DEF UploadStore
    <3>3. TypeOK'
      BY <3>1, <3>2
    <3>4. QED BY <3>1, <3>2, <3>3
  <2>3. QED BY <2>1, <2>2
<1>9. CASE Crash(s)
  BY <1>9, EndBase DEF Crash
<1>10. QED
  BY <1>1, <1>2, <1>3, <1>4, <1>5, <1>6, <1>7, <1>8, <1>9, <1>2a

(* create: the first snapshot is number 1.                                  *)
LEMMA CreateBase ==
    ASSUME BaseInv, NEW r \in Requests, NEW form \in Forms, Create(r, form)
    PROVE  BaseInv'
<1> USE RequestAssumption
    DEF BaseInv, TypeOK, SnapshotsNumbered, RowInv, CallInv, Exists, Saving,
        Create, callVars
<1>1. TypeOK'
  <2>1. <<[version |-> 1, form |-> form]>> \in Seq(SnapshotRow)
    BY DEF SnapshotRow, SavedForm
  <2>2. <<[from |-> "absent", to |-> "draft"]>> \in Seq(HistoryRow)
    BY DEF HistoryRow, Status
  <2>3. "draft" \in Status
    BY DEF Status
  <2>4. QED BY <2>1, <2>2, <2>3
<1>2. SnapshotsNumbered' /\ RowInv'
  OBVIOUS
<1>3. CallInv'
  <2>1. \A s \in Sessions : pc[s] # "idle" => on[s] \in Requests /\ on[s] # r
    OBVIOUS
  <2>2. QED BY <2>1
<1>4. QED BY <1>1, <1>2, <1>3

(* max(snapshot_version) + 1 is the number of the row that is inserted next,*)
(* for the caller holds the row of the request.                             *)
LEMMA SaveVersionBase ==
    ASSUME BaseInv, NEW s \in Sessions, SaveVersion(s)
    PROVE  BaseInv' /\ version'[s] = Len(snapshots[on[s]]) + 1
<1> USE RequestAssumption
    DEF BaseInv, TypeOK, SnapshotsNumbered, RowInv, CallInv, Exists, Saving, Pc,
        Goto, rowVars
<1> DEFINE rows == snapshots[on[s]]
<1>1. on[s] \in Requests /\ rows \in Seq(SnapshotRow) /\ rows # <<>>
  BY DEF SaveVersion
<1>2. \A i \in 1..Len(rows) : rows[i].version = i
  BY <1>1
<1>3. PICK v \in 1..Len(rows) + 1 :
          /\ \A u \in {rows[i].version : i \in 1..Len(rows)} : u < v
          /\ version' = [version EXCEPT ![s] = v]
  BY DEF SaveVersion
<1>4. v = Len(rows) + 1
  BY <1>1, <1>2, <1>3, NextNumber
<1>5. Len(rows) \in Nat \ {0}
  BY <1>1
<1> HIDE DEF rows
<1>7. version' = [version EXCEPT ![s] = Len(rows) + 1]
  BY <1>3, <1>4
<1>8. TypeOK'
  BY <1>5, <1>7 DEF SaveVersion
<1>9. SnapshotsNumbered' /\ RowInv'
  BY DEF SaveVersion
<1>10. CallInv'
  BY <1>5, <1>7 DEF SaveVersion, rows
<1>11. QED BY <1>7, <1>8, <1>9, <1>10 DEF rows

(* save: the snapshot gets the number read under the row lock; no other     *)
(* call holds a number for this request.                                    *)
LEMMA SaveCommitBase ==
    ASSUME BaseInv, NEW s \in Sessions, SaveCommit(s)
    PROVE  BaseInv'
<1> USE RequestAssumption
    DEF BaseInv, TypeOK, SnapshotsNumbered, RowInv, CallInv, Exists, Saving, Pc
<1> DEFINE row == [version |-> version[s], form |-> copy[s].form]
<1>1. /\ on[s] \in Requests /\ Exists(on[s])
      /\ copy[s].form \in SavedForm
      /\ copy[s].status \in Status /\ copy[s].submitted \in BOOLEAN
      /\ from[s] \in Status
      /\ lock[on[s]] = s
      /\ version[s] = Len(snapshots[on[s]]) + 1
  BY DEF SaveCommit
<1>2. snapshots[on[s]] \in Seq(SnapshotRow) /\ history[on[s]] \in Seq(HistoryRow)
  BY <1>1
<1>3. Len(snapshots[on[s]]) \in Nat
  BY <1>2
<1>4. row \in SnapshotRow
  BY <1>1, <1>3 DEF SnapshotRow
<1>5. snapshots' = [snapshots EXCEPT ![on[s]] = Append(@, row)]
  BY DEF SaveCommit
<1>6. row.version = Len(snapshots[on[s]]) + 1
  BY <1>1
<1> HIDE DEF row
<1>7. TypeOK'
  <2>1. Append(snapshots[on[s]], row) \in Seq(SnapshotRow)
    BY <1>2, <1>4
  <2>2. snapshots' \in [Requests -> Seq(SnapshotRow)]
    BY <2>1, <1>5
  <2>3. Append(history[on[s]], [from |-> from[s], to |-> copy[s].status]) \in Seq(HistoryRow)
    BY <1>1, <1>2 DEF HistoryRow
  <2>4. history' \in [Requests -> Seq(HistoryRow)]
    BY <1>2, <2>3 DEF SaveCommit
  <2>5. status' \in [Requests -> Status \cup {"absent"}] /\ submittedAt' \in [Requests -> BOOLEAN]
    BY <1>1 DEF SaveCommit
  <2>6. NoCopy \in [status: Status, form: SavedForm \cup {NoForm}, submitted: BOOLEAN]
    BY DEF NoCopy, Status
  <2>7. lock' \in [Requests -> Sessions \cup {Nobody}]
    BY DEF SaveCommit, Unlock
  <2>8. QED BY <2>2, <2>4, <2>5, <2>6, <2>7 DEF SaveCommit, End
<1>8. SnapshotsNumbered'
  <2> SUFFICES ASSUME NEW r \in Requests, NEW i \in 1..Len(snapshots'[r])
               PROVE  snapshots'[r][i].version = i
    OBVIOUS
  <2>1. CASE r # on[s]
    BY <2>1, <1>5
  <2>2. CASE r = on[s]
    <3>1. snapshots'[r] = Append(snapshots[r], row)
      BY <2>2, <1>5
    <3>2. CASE i \in 1..Len(snapshots[r])
      BY <2>2, <1>2, <3>1, <3>2
    <3>3. CASE i = Len(snapshots[r]) + 1
      BY <2>2, <1>2, <1>6, <3>1, <3>3
    <3>4. QED BY <2>2, <1>2, <3>1, <3>2, <3>3
  <2>3. QED BY <2>1, <2>2
<1>9. RowInv'
  <2>1. Append(snapshots[on[s]], row) # <<>>
    BY <1>2, <1>4, AppendIsNotEmpty
  <2>2. copy[s].status # "absent"
    BY <1>1 DEF Status
  <2>3. copy[s].status = "draft" => ~copy[s].submitted
    OBVIOUS
  <2>4. /\ status' = [status EXCEPT ![on[s]] = copy[s].status]
        /\ submittedAt' = [submittedAt EXCEPT ![on[s]] = copy[s].submitted]
    BY DEF SaveCommit
  <2>5. QED BY <1>1, <1>5, <2>1, <2>2, <2>3, <2>4
<1>10. CallInv'
  <2> SUFFICES ASSUME NEW t \in Sessions PROVE CallInv!(t)'
    OBVIOUS
  <2>1. CASE t = s
    BY <2>1 DEF SaveCommit, End, NoCopy
  <2>2. CASE t # s
    <3>1. status'[on[s]] # "absent" /\ status' = [status EXCEPT ![on[s]] = copy[s].status]
      BY <1>1 DEF SaveCommit, Status
    <3>2. pc[t] \in {"version", "save", "transition"} => lock'[on[t]] = t /\ on[t] # on[s]
      BY <1>1, <2>2 DEF SaveCommit, Unlock
    <3>3. pc[t] = "save" => snapshots'[on[t]] = snapshots[on[t]]
      BY <1>5, <3>2
    <3>4. /\ pc'[t] = pc[t] /\ on'[t] = on[t] /\ copy'[t] = copy[t]
          /\ from'[t] = from[t] /\ version'[t] = version[t] /\ document'[t] = document[t]
      BY <2>2 DEF SaveCommit, End
    <3>5. QED BY <1>1, <3>1, <3>2, <3>3, <3>4
  <2>3. QED BY <2>1, <2>2
<1>11. QED BY <1>7, <1>8, <1>9, <1>10

(* updateRequestStatus writes the row it has locked.                        *)
LEMMA TransitionCommitBase ==
    ASSUME BaseInv, NEW s \in Sessions, TransitionCommit(s)
    PROVE  BaseInv'
<1> USE RequestAssumption
    DEF BaseInv, TypeOK, SnapshotsNumbered, RowInv, CallInv, Exists, Saving, Pc
<1>1. /\ on[s] \in Requests /\ Exists(on[s])
      /\ copy[s].status \in Status /\ copy[s].status \notin {"absent", "draft"}
      /\ from[s] \in Status
      /\ lock[on[s]] = s
  BY DEF TransitionCommit, Status
<1>2. TypeOK'
  <2>1. Append(history[on[s]], [from |-> from[s], to |-> copy[s].status]) \in Seq(HistoryRow)
    <3>1. history[on[s]] \in Seq(HistoryRow)
      BY <1>1
    <3>2. [from |-> from[s], to |-> copy[s].status] \in HistoryRow
      BY <1>1 DEF HistoryRow
    <3>3. QED BY <3>1, <3>2
  <2>2. history' \in [Requests -> Seq(HistoryRow)]
    BY <2>1 DEF TransitionCommit
  <2>3. status' \in [Requests -> Status \cup {"absent"}]
    BY <1>1 DEF TransitionCommit
  <2>4. NoCopy \in [status: Status, form: SavedForm \cup {NoForm}, submitted: BOOLEAN]
    BY DEF NoCopy, Status
  <2>5. lock' \in [Requests -> Sessions \cup {Nobody}]
    BY DEF TransitionCommit, Unlock
  <2>6. QED BY <2>2, <2>3, <2>4, <2>5 DEF TransitionCommit, End
<1>3. SnapshotsNumbered' /\ RowInv'
  BY <1>1 DEF TransitionCommit
<1>4. CallInv'
  <2> SUFFICES ASSUME NEW t \in Sessions PROVE CallInv!(t)'
    OBVIOUS
  <2>1. CASE t = s
    BY <2>1 DEF TransitionCommit, End, NoCopy
  <2>2. CASE t # s
    <3>1. status'[on[s]] # "absent" /\ status' = [status EXCEPT ![on[s]] = copy[s].status]
      BY <1>1 DEF TransitionCommit
    <3>2. pc[t] \in {"version", "save", "transition"} => lock'[on[t]] = t
      BY <1>1, <2>2 DEF TransitionCommit, Unlock
    <3>3. /\ pc'[t] = pc[t] /\ on'[t] = on[t] /\ copy'[t] = copy[t]
          /\ from'[t] = from[t] /\ version'[t] = version[t] /\ document'[t] = document[t]
          /\ snapshots' = snapshots
      BY <2>2 DEF TransitionCommit, End
    <3>4. QED BY <1>1, <3>1, <3>2, <3>3
  <2>3. QED BY <2>1, <2>2
<1>5. QED BY <1>2, <1>3, <1>4

(* A document is linked to the request whose service asks for it.           *)
LEMMA UploadLinkBase ==
    ASSUME BaseInv, NEW s \in Sessions, UploadLink(s)
    PROVE  BaseInv'
<1> USE RequestAssumption
    DEF BaseInv, TypeOK, SnapshotsNumbered, RowInv, CallInv, Exists, Saving, Pc, rowVars
<1>1. on[s] \in Requests /\ document[s] \in DocumentCodes(Service[on[s]])
  BY DEF UploadLink
<1>2. document[s] \in AnyDocument
  BY <1>1 DEF AnyDocument
<1>3. NoCopy \in [status: Status, form: SavedForm \cup {NoForm}, submitted: BOOLEAN]
  BY DEF NoCopy, Status
<1>4. TypeOK'
  BY <1>1, <1>2, <1>3 DEF UploadLink, End
<1>5. SnapshotsNumbered' /\ RowInv'
  BY DEF UploadLink
<1>6. CallInv'
  <2> SUFFICES ASSUME NEW t \in Sessions PROVE CallInv!(t)'
    OBVIOUS
  <2>1. CASE t = s
    BY <2>1 DEF UploadLink, End, NoCopy
  <2>2. CASE t # s
    BY <2>2 DEF UploadLink, End
  <2>3. QED BY <2>1, <2>2
<1>7. QED BY <1>4, <1>5, <1>6

-----------------------------------------------------------------------------
(* A submission date comes with the counted form, and documents are only    *)
(* added.                                                                   *)
LEMMA CompleteStep ==
    ASSUME BaseInv, CompleteInv, [Next]_vars
    PROVE  CompleteInv'
<1> USE RequestAssumption DEF CompleteInv, Saving
<1> DEFINE Complete(r, form, attached) ==
               MissingRequiredDocuments(Service[r], IsCompany[r], form, attached) = {}
<1>1. ASSUME NEW r \in Requests, NEW form \in Forms, Create(r, form)
      PROVE  CompleteInv'
  <2>1. ~submittedAt[r]
    BY <1>1 DEF BaseInv, RowInv, Create, Exists
  <2>2. \A q \in Requests : q # r => LastForm(q)' = LastForm(q)
    BY <1>1 DEF Create, LastForm, BaseInv, TypeOK
  <2>3. QED BY <1>1, <2>1, <2>2 DEF Create, callVars
<1>2. ASSUME NEW s \in Sessions, NEW r \in Requests, NEW form \in Forms, EditFind(s, r, form)
      PROVE  CompleteInv'
  <2>1. ~submittedAt[r]
    BY <1>2 DEF BaseInv, RowInv, EditFind
  <2>2. QED BY <1>2, <2>1 DEF EditFind, Goto, rowVars, LastForm, BaseInv, TypeOK, CanBegin
<1>3. ASSUME NEW s \in Sessions, NEW r \in Requests, SubmitFind(s, r)
      PROVE  CompleteInv'
  <2>1. ~submittedAt[r]
    BY <1>3 DEF BaseInv, RowInv, SubmitFind
  <2>2. QED BY <1>3, <2>1 DEF SubmitFind, Goto, rowVars, LastForm, BaseInv, TypeOK, CanBegin
<1>3a. ASSUME NEW s \in Sessions, NEW r \in Requests, DraftEditFind(s, r) \/ DraftSubmitFind(s, r)
      PROVE  CompleteInv'
  <2>1. /\ pc' = [pc EXCEPT ![s] = "previous"]
        /\ copy'[s].form = TargetsForm
        /\ \A t \in Sessions : t # s => copy'[t] = copy[t] /\ on'[t] = on[t]
        /\ UNCHANGED <<submittedAt, snapshots, documents>>
    BY <1>3a DEF DraftEditFind, DraftSubmitFind, Goto, rowVars, BaseInv, TypeOK
  <2>2. QED BY <2>1 DEF LastForm, BaseInv, TypeOK
<1>4. ASSUME NEW s \in Sessions, NEW r \in Requests, NEW to \in Status, TransitionFind(s, r, to)
      PROVE  CompleteInv'
  BY <1>4 DEF TransitionFind, Goto, rowVars, LastForm, BaseInv, TypeOK, CanBegin
<1>5. ASSUME NEW s \in Sessions, NEW r \in Requests, NEW d \in DocumentCodes(Service[r]),
             UploadFind(s, r, d)
      PROVE  CompleteInv'
  BY <1>5 DEF UploadFind, Goto, rowVars, LastForm, BaseInv, TypeOK, CanBegin
<1>6. ASSUME NEW s \in Sessions, SubmitCheck(s)
      PROVE  CompleteInv'
  <2>1. \A r \in Requests : LastForm(r)' = LastForm(r)
    BY <1>6 DEF SubmitCheck, rowVars, LastForm
  <2>2. CASE Missing(on[s], copy[s].form) = {}
    <3>1. copy'[s].form = copy[s].form /\ on'[s] = on[s]
      BY <1>6, <2>2 DEF SubmitCheck, BaseInv, TypeOK
    <3>2. \A t \in Sessions : t # s => copy'[t] = copy[t] /\ on'[t] = on[t] /\ pc'[t] = pc[t]
      BY <1>6, <2>2 DEF SubmitCheck, Goto, BaseInv, TypeOK
    <3>3. UNCHANGED <<submittedAt, documents>>
      BY <1>6 DEF SubmitCheck, rowVars
    <3>4. QED BY <2>1, <2>2, <3>1, <3>2, <3>3 DEF Missing
  <2>3. CASE Missing(on[s], copy[s].form) # {}
    <3>1. \A t \in Sessions : pc'[t] \in Saving => pc[t] \in Saving /\ t # s
      BY <1>6, <2>3 DEF SubmitCheck, End, BaseInv, TypeOK
    <3>2. \A t \in Sessions : t # s => copy'[t] = copy[t] /\ on'[t] = on[t]
      BY <1>6, <2>3 DEF SubmitCheck, End, BaseInv, TypeOK
    <3>3. UNCHANGED <<submittedAt, documents>>
      BY <1>6 DEF SubmitCheck, rowVars
    <3>4. QED BY <2>1, <3>1, <3>2, <3>3
  <2>4. QED BY <2>2, <2>3
<1>7. ASSUME NEW s \in Sessions, SavePrevious(s) \/ SaveUpdate(s) \/ SaveVersion(s)
      PROVE  CompleteInv'
  <2>1. pc[s] \in Saving /\ UNCHANGED <<rowVars, documents, on, copy>>
    BY <1>7 DEF SavePrevious, SaveUpdate, SaveVersion
  <2>2. \A t \in Sessions : pc'[t] \in Saving => pc[t] \in Saving
    BY <1>7, <2>1 DEF SavePrevious, SaveUpdate, SaveVersion, Goto, BaseInv, TypeOK
  <2>3. QED BY <2>1, <2>2 DEF rowVars, LastForm
<1>8. ASSUME NEW s \in Sessions, SaveCommit(s)
      PROVE  CompleteInv'
  <2>1. /\ on[s] \in Requests
        /\ snapshots[on[s]] \in Seq(SnapshotRow)
        /\ version[s] = Len(snapshots[on[s]]) + 1 /\ copy[s].form \in SavedForm
    BY <1>8 DEF SaveCommit, BaseInv, TypeOK, CallInv
  <2>2. Len(snapshots[on[s]]) \in Nat
    BY <2>1
  <2>3. [version |-> version[s], form |-> copy[s].form] \in SnapshotRow
    BY <2>1, <2>2 DEF SnapshotRow
  <2>4. snapshots'[on[s]] = Append(snapshots[on[s]], [version |-> version[s], form |-> copy[s].form])
    BY <1>8, <2>1 DEF SaveCommit, BaseInv, TypeOK
  <2>5. snapshots'[on[s]][Len(snapshots'[on[s]])].form = copy[s].form
    BY <2>1, <2>3, <2>4
  <2>6. \A q \in Requests : q # on[s] => LastForm(q)' = LastForm(q)
    BY <1>8 DEF SaveCommit, LastForm, BaseInv, TypeOK
  <2>7. ASSUME NEW r \in Requests, submittedAt'[r], LastForm(r)' # TargetsForm
        PROVE  Complete(r, LastForm(r), documents[r])'
    <3>1. CASE r = on[s]
      BY <1>8, <2>5, <2>7, <3>1 DEF SaveCommit, LastForm, BaseInv, TypeOK
    <3>2. CASE r # on[s]
      BY <1>8, <2>6, <2>7, <3>2 DEF SaveCommit, BaseInv, TypeOK
    <3>3. QED BY <3>1, <3>2
  <2>8. ASSUME NEW t \in Sessions, pc'[t] \in Saving, copy'[t].submitted,
               copy'[t].form # TargetsForm
        PROVE  Complete(on[t], copy[t].form, documents[on[t]])'
    BY <1>8, <2>8 DEF SaveCommit, End, BaseInv, TypeOK
  <2>9. QED BY <2>7, <2>8
<1>9. ASSUME NEW s \in Sessions, TransitionCommit(s)
      PROVE  CompleteInv'
  BY <1>9, ZenonT(20) DEF TransitionCommit, End, LastForm, BaseInv, TypeOK
<1>10. ASSUME NEW s \in Sessions, UploadStore(s)
      PROVE  CompleteInv'
  <2>1. UNCHANGED <<submittedAt, snapshots, documents>>
    BY <1>10 DEF UploadStore, rowVars
  <2>2. \A t \in Sessions : pc'[t] \in Saving => pc[t] \in Saving /\ t # s
    BY <1>10 DEF UploadStore, End, Goto, BaseInv, TypeOK
  <2>3. \A t \in Sessions : t # s => copy'[t] = copy[t] /\ on'[t] = on[t]
    BY <1>10 DEF UploadStore, End, Goto, BaseInv, TypeOK
  <2>4. QED BY <2>1, <2>2, <2>3 DEF LastForm
<1>11. ASSUME NEW s \in Sessions, UploadLink(s)
      PROVE  CompleteInv'
  <2>1. \A r \in Requests : documents[r] \subseteq documents'[r]
    BY <1>11 DEF UploadLink, BaseInv, TypeOK
  <2>2. ASSUME NEW r \in Requests, submittedAt'[r], LastForm(r)' # TargetsForm
        PROVE  Complete(r, LastForm(r), documents[r])'
    <3>1. LastForm(r)' = LastForm(r) /\ submittedAt[r]
      BY <1>11, <2>2 DEF UploadLink, rowVars, LastForm
    <3>2. MissingRequiredDocuments(Service[r], IsCompany[r], LastForm(r), documents[r]) = {}
      BY <2>2, <3>1
    <3>3. documents[r] \subseteq documents'[r]
      BY <2>1
    <3>4. QED BY <3>1, <3>2, <3>3, MissingShrinks
  <2>3. ASSUME NEW t \in Sessions, pc'[t] \in Saving, copy'[t].submitted,
               copy'[t].form # TargetsForm
        PROVE  Complete(on[t], copy[t].form, documents[on[t]])'
    <3>1. pc[t] \in Saving /\ copy'[t] = copy[t] /\ on'[t] = on[t] /\ on[t] \in Requests
      BY <1>11, <2>3 DEF UploadLink, End, BaseInv, TypeOK, CallInv
    <3>2. MissingRequiredDocuments(Service[on[t]], IsCompany[on[t]], copy[t].form,
                                   documents[on[t]]) = {}
      BY <2>3, <3>1
    <3>3. documents[on[t]] \subseteq documents'[on[t]]
      BY <2>1, <3>1
    <3>4. QED BY <3>1, <3>2, <3>3, MissingShrinks
  <2>4. QED BY <2>2, <2>3
<1>12. ASSUME NEW s \in Sessions, Crash(s)
      PROVE  CompleteInv'
  BY <1>12 DEF Crash, End, rowVars, LastForm, BaseInv, TypeOK
<1>13. CASE UNCHANGED vars
  BY <1>13 DEF vars, rowVars, callVars, LastForm
<1>14. QED
  BY <1>1, <1>2, <1>3, <1>4, <1>5, <1>6, <1>7, <1>8, <1>9, <1>10, <1>11, <1>12, <1>13,
     <1>3a DEF Next, Continue

(* Every step keeps the base invariant.                                     *)
LEMMA BaseStep == BaseInv /\ [Next]_vars => BaseInv'
<1> SUFFICES ASSUME BaseInv, [Next]_vars PROVE BaseInv'
  OBVIOUS
<1>1. CASE UNCHANGED vars
  BY <1>1 DEF vars, rowVars, callVars, BaseInv, TypeOK, SnapshotsNumbered, RowInv,
              CallInv, Exists
<1>2. CASE \E r \in Requests, form \in Forms : Create(r, form)
  BY <1>2, CreateBase
<1>3. CASE \E s \in Sessions :
              \/ \E r \in Requests, form \in Forms : EditFind(s, r, form)
              \/ \E r \in Requests :
                    SubmitFind(s, r) \/ DraftEditFind(s, r) \/ DraftSubmitFind(s, r)
              \/ \E r \in Requests, to \in Status : TransitionFind(s, r, to)
              \/ \E r \in Requests : \E d \in DocumentCodes(Service[r]) : UploadFind(s, r, d)
              \/ Continue(s)
              \/ Crash(s)
  BY <1>3, PrepareBase, SaveVersionBase, SaveCommitBase, TransitionCommitBase,
     UploadLinkBase DEF Continue
<1>4. QED BY <1>1, <1>2, <1>3 DEF Next

THEOREM Invariance == Spec => [](BaseInv /\ CompleteInv)
<1>1. BaseInv /\ CompleteInv /\ [Next]_vars => BaseInv' /\ CompleteInv'
  BY BaseStep, CompleteStep
<1>2. QED BY InitBase, <1>1, PTL DEF Spec

(* The tables of requests and the calls at work on them are well typed.     *)
THEOREM TypeCorrect == Spec => []TypeOK
<1>1. BaseInv => TypeOK
  BY DEF BaseInv
<1>2. QED BY Invariance, <1>1, PTL

(* However many saves of a request run side by side, its snapshots are      *)
(* numbered 1, 2, 3, ... : the row lock that the UPDATE takes is enough.    *)
THEOREM SnapshotsAreNumbered == Spec => []SnapshotsNumbered
<1>1. BaseInv => SnapshotsNumbered
  BY DEF BaseInv
<1>2. QED BY Invariance, <1>1, PTL

(* A request with a submission date and a form of a service misses no       *)
(* mandatory document of that form, for any services and forms, whatever    *)
(* edits and submissions overlap, those of the calls for notices included.  *)
THEOREM SubmittedMeansComplete == Spec => []SubmittedIsComplete
<1>1. BaseInv /\ CompleteInv => SubmittedIsComplete
  <2> SUFFICES ASSUME BaseInv, CompleteInv, NEW r \in Requests, submittedAt[r],
                      LatestForm(r) # TargetsForm
               PROVE  Missing(r, LatestForm(r)) = {}
    BY DEF SubmittedIsComplete
  <2>1. Exists(r)
    BY DEF BaseInv, RowInv, Exists
  <2>2. LatestForm(r) = LastForm(r)
    BY <2>1, LatestIsLast
  <2>3. QED BY <2>2 DEF CompleteInv, Missing
<1>2. QED BY Invariance, <1>1, PTL

(* A form of FR-101 that misses nothing has its identity document, whichever *)
(* of the two it names.                                                      *)
LEMMA NothingMissedIsIdentified ==
    ASSUME NEW company, NEW form \in Form, form.service = "FR-101", NEW provided,
           MissingRequiredDocuments("FR-101", company, form, provided) = {}
    PROVE  \/ {"national_id_front", "national_id_back"} \subseteq provided
           \/ "passport" \in provided
<1>1. form.identity \in {"national_id", "passport"}
  BY DEF Form, AsksIdentity, ServiceCode
<1>2. ASSUME NEW d \in IdentityDocuments, IsDocumentMandatory(d, company, form)
      PROVE  d.code \in provided
  <2>1. d \in ServiceDocuments("FR-101")
    BY DEF ServiceDocuments
  <2>2. QED BY <1>2, <2>1 DEF MissingRequiredDocuments
<1>3. CASE form.identity = "national_id"
  <2>1. ASSUME NEW n \in {"national_id_front", "national_id_back"} PROVE n \in provided
    <3> DEFINE d == [code |-> n, requirement |-> "national_id_only"]
    <3>1. d \in IdentityDocuments /\ d.code = n
      BY DEF IdentityDocuments
    <3>2. IsDocumentMandatory(d, company, form)
      BY <1>3 DEF IsDocumentMandatory
    <3>3. QED BY <1>2, <3>1, <3>2
  <2>2. QED BY <2>1
<1>4. CASE form.identity = "passport"
  <2> DEFINE d == [code |-> "passport", requirement |-> "passport_only"]
  <2>1. d \in IdentityDocuments /\ d.code = "passport"
    BY DEF IdentityDocuments
  <2>2. IsDocumentMandatory(d, company, form)
    BY <1>4 DEF IsDocumentMandatory
  <2>3. QED BY <1>2, <2>1, <2>2
<1>5. QED BY <1>1, <1>3, <1>4

(* Nobody has a submitted request to open a tax file without an identity    *)
(* document, whatever edits exchanged the card for the passport meanwhile.  *)
THEOREM SubmittedIsIdentified == Spec => []IdentityIsProven
<1>1. BaseInv /\ SubmittedIsComplete => IdentityIsProven
  <2> SUFFICES ASSUME BaseInv, SubmittedIsComplete, NEW r \in Requests, submittedAt[r],
                      Service[r] = "FR-101", LatestForm(r).service = "FR-101"
               PROVE  \/ {"national_id_front", "national_id_back"} \subseteq documents[r]
                      \/ "passport" \in documents[r]
    BY DEF IdentityIsProven
  <2>1. Exists(r)
    BY DEF BaseInv, RowInv, Exists
  <2>2. LatestForm(r) \in Form /\ LatestForm(r) # TargetsForm
    BY <2>1, LatestIsLast, RequestAssumption DEF SavedForm, TargetsForm
  <2>3. MissingRequiredDocuments("FR-101", IsCompany[r], LatestForm(r), documents[r]) = {}
    BY <2>2 DEF SubmittedIsComplete, Missing
  <2>4. QED BY <2>2, <2>3, NothingMissedIsIdentified
<1>2. QED BY Invariance, SubmittedMeansComplete, <1>1, PTL

-----------------------------------------------------------------------------
(* While saves are alone, whoever is about to write has decided on the      *)
(* state the row still has: a taxpayer's call on a draft, the staff on a    *)
(* state it has locked.                                                     *)
LifeInv ==
    /\ \A s \in Sessions :
          /\ pc[s] \in Saving =>
                /\ status[on[s]] = "draft"
                /\ copy[s].status \in {"draft", "submitted"}
          /\ pc[s] \in {"update", "version", "save"} => from[s] = "draft"
          /\ pc[s] = "transition" =>
                /\ from[s] = status[on[s]]
                /\ copy[s].status \in Allowed(status[on[s]])
    /\ \A r \in Requests : status[r] = "absent" => history[r] = <<>>

LifeStepped == LifeInv' /\ [Lifecycle!Next]_<<status, history>>

LEMMA SameAllowed == \A state : Lifecycle!Allowed(state) = Allowed(state)
  BY DEF Allowed, Lifecycle!Allowed

LEMMA CreateLife ==
    ASSUME BaseInv, LifeInv, NEW r \in Requests, NEW form \in Forms, Create(r, form)
    PROVE  LifeStepped
<1> USE DEF LifeInv
<1>1. \A s \in Sessions : pc[s] # "idle" => on[s] # r
  BY DEF Create, BaseInv, CallInv
<1>2. LifeInv'
  <2>1. status' = [status EXCEPT ![r] = "draft"] /\ status \in [Requests -> Status \cup {"absent"}]
    BY DEF Create, BaseInv, TypeOK
  <2>2. history' = [history EXCEPT ![r] = <<[from |-> "absent", to |-> "draft"]>>]
        /\ UNCHANGED callVars
    BY DEF Create
  <2>3. \A s \in Sessions : pc[s] # "idle" => status'[on[s]] = status[on[s]]
    BY <1>1, <2>1 DEF BaseInv, CallInv
  <2>4. \A q \in Requests : status'[q] = "absent" => history'[q] = <<>>
    BY <2>1, <2>2 DEF BaseInv, TypeOK
  <2>5. QED BY <2>2, <2>3, <2>4 DEF callVars, Saving
<1>3. status[r] = "absent" /\ history[r] = <<>>
  BY DEF Create, Exists
<1>4. Append(history[r], [from |-> "absent", to |-> "draft"])
         = <<[from |-> "absent", to |-> "draft"]>>
  BY <1>3
<1>5. history' = [history EXCEPT ![r] =
                     Append(history[r], [from |-> status[r], to |-> "draft"])]
  BY <1>3, <1>4 DEF Create
<1>6. Lifecycle!Open(r)
  BY <1>3, <1>5 DEF Create, Lifecycle!Open, Lifecycle!Move
<1>7. QED BY <1>2, <1>6 DEF LifeStepped, Lifecycle!Next

(* A step of one call that leaves the rows alone. *)
LEMMA AsideLife ==
    ASSUME BaseInv, LifeInv, NEW s \in Sessions, UNCHANGED <<status, history>>,
           \A t \in Sessions \ {s} :
              pc'[t] = pc[t] /\ on'[t] = on[t] /\ copy'[t] = copy[t] /\ from'[t] = from[t],
           /\ pc'[s] \in Saving =>
                 /\ status[on'[s]] = "draft"
                 /\ copy'[s].status \in {"draft", "submitted"}
           /\ pc'[s] \in {"update", "version", "save"} => from'[s] = "draft"
           /\ pc'[s] = "transition" =>
                 /\ from'[s] = status[on'[s]]
                 /\ copy'[s].status \in Allowed(status[on'[s]])
    PROVE  LifeStepped
  BY DEF LifeInv, LifeStepped

LEMMA BeginLife ==
    ASSUME BaseInv, LifeInv, NEW s \in Sessions,
           \/ \E r \in Requests, form \in Forms : EditFind(s, r, form)
           \/ \E r \in Requests :
                 SubmitFind(s, r) \/ DraftEditFind(s, r) \/ DraftSubmitFind(s, r)
           \/ \E r \in Requests, to \in Status : TransitionFind(s, r, to)
           \/ \E r \in Requests : \E d \in DocumentCodes(Service[r]) : UploadFind(s, r, d)
    PROVE  LifeStepped
<1> USE DEF BaseInv, TypeOK, Goto, rowVars
<1>1. CASE \E r \in Requests, form \in Forms : EditFind(s, r, form)
  <2>1. PICK r \in Requests, form \in Forms : EditFind(s, r, form)
    BY <1>1
  <2>2. pc'[s] = "previous" /\ on'[s] = r /\ copy'[s].status = "draft" /\ status[r] = "draft"
    BY <2>1 DEF EditFind
  <2>3. QED BY <2>1, <2>2, AsideLife DEF EditFind
<1>2. CASE \E r \in Requests : SubmitFind(s, r)
  <2>1. PICK r \in Requests : SubmitFind(s, r)
    BY <1>2
  <2>2. pc'[s] = "check" /\ on'[s] = r /\ copy'[s].status = "draft" /\ status[r] = "draft"
    BY <2>1 DEF SubmitFind
  <2>3. QED BY <2>1, <2>2, AsideLife DEF SubmitFind
<1>2a. CASE \E r \in Requests : DraftEditFind(s, r) \/ DraftSubmitFind(s, r)
  <2>1. PICK r \in Requests : DraftEditFind(s, r) \/ DraftSubmitFind(s, r)
    BY <1>2a
  <2>2. /\ pc'[s] = "previous" /\ on'[s] = r /\ status[r] = "draft"
        /\ copy'[s].status \in {"draft", "submitted"}
    BY <2>1 DEF DraftEditFind, DraftSubmitFind
  <2>3. QED BY <2>1, <2>2, AsideLife DEF DraftEditFind, DraftSubmitFind
<1>3. CASE \E r \in Requests, to \in Status : TransitionFind(s, r, to)
  <2>1. PICK r \in Requests, to \in Status : TransitionFind(s, r, to)
    BY <1>3
  <2>2. /\ pc'[s] = "transition" /\ on'[s] = r /\ from'[s] = status[r]
        /\ copy'[s].status = to /\ to \in Allowed(status[r])
    BY <2>1 DEF TransitionFind, NoCopy
  <2>3. QED BY <2>1, <2>2, AsideLife DEF TransitionFind, Saving
<1>4. CASE \E r \in Requests : \E d \in DocumentCodes(Service[r]) : UploadFind(s, r, d)
  <2>1. pc' = [pc EXCEPT ![s] = "store"] /\ (\E r \in Requests : on' = [on EXCEPT ![s] = r])
        /\ UNCHANGED <<status, history, copy, from>>
    BY <1>4 DEF UploadFind
  <2>2. QED BY <2>1, AsideLife DEF Saving
<1>5. QED BY <1>1, <1>2, <1>3, <1>4, <1>2a

LEMMA ContinueLife ==
    ASSUME BaseInv, LifeInv, NEW s \in Sessions,
           \/ SubmitCheck(s) \/ SavePrevious(s) \/ SaveUpdate(s) \/ SaveVersion(s)
           \/ UploadStore(s) \/ UploadLink(s) \/ Crash(s)
    PROVE  LifeStepped
<1> USE DEF BaseInv, TypeOK, Goto, rowVars
<1>1. CASE End(s) /\ UNCHANGED <<status, history>>
  <2>1. /\ pc'[s] = "idle"
        /\ \A t \in Sessions \ {s} :
              pc'[t] = pc[t] /\ on'[t] = on[t] /\ copy'[t] = copy[t] /\ from'[t] = from[t]
    BY <1>1 DEF End
  <2>2. QED BY <1>1, <2>1, AsideLife DEF Saving
<1>2. CASE SubmitCheck(s) /\ ~End(s)
  <2>1. /\ pc[s] = "check"
        /\ copy' = [copy EXCEPT ![s] = [status |-> "submitted", form |-> copy[s].form,
                                        submitted |-> TRUE]]
        /\ pc' = [pc EXCEPT ![s] = "previous"]
        /\ UNCHANGED <<status, history, on, from>>
    BY <1>2 DEF SubmitCheck
  <2>2. copy'[s].status = "submitted" /\ status[on[s]] = "draft"
    BY <2>1 DEF LifeInv, Saving
  <2>3. QED BY <2>1, <2>2, AsideLife
<1>3. CASE SavePrevious(s)
  BY <1>3, AsideLife DEF SavePrevious, LifeInv, Saving
<1>4. CASE SaveUpdate(s)
  BY <1>4, AsideLife DEF SaveUpdate, LifeInv, Saving
<1>5. CASE SaveVersion(s)
  <2>1. pc[s] = "version" /\ pc' = [pc EXCEPT ![s] = "save"]
        /\ UNCHANGED <<status, history, on, copy, from>>
    BY <1>5 DEF SaveVersion
  <2>2. QED BY <2>1, AsideLife DEF LifeInv, Saving
<1>6. CASE UploadStore(s) /\ ~End(s)
  BY <1>6, AsideLife DEF UploadStore, Saving
<1>7. QED BY <1>1, <1>2, <1>3, <1>4, <1>5, <1>6 DEF SubmitCheck, UploadStore, UploadLink, Crash

(* The staff's move: it holds the row, and no save has read it before.      *)
LEMMA TransitionLife ==
    ASSUME BaseInv, LifeInv, SavesAlone, NEW s \in Sessions, TransitionCommit(s)
    PROVE  LifeStepped
<1> USE DEF LifeInv
<1>1. /\ on[s] \in Requests /\ lock[on[s]] = s /\ pc[s] = "transition"
      /\ from[s] = status[on[s]]
      /\ copy[s].status \in Allowed(status[on[s]])
  BY DEF TransitionCommit, BaseInv, CallInv
<1>2. ASSUME NEW t \in Sessions \ {s}, pc[t] \in Saving \cup {"transition"}
      PROVE  on[t] # on[s] /\ on[t] \in Requests
  BY <1>1, <1>2 DEF BaseInv, CallInv, SavesAlone, Saving
<1>3. /\ \A t \in Sessions \ {s} :
            pc'[t] = pc[t] /\ on'[t] = on[t] /\ copy'[t] = copy[t] /\ from'[t] = from[t]
      /\ pc'[s] = "idle"
      /\ \A r \in Requests \ {on[s]} : status'[r] = status[r] /\ history'[r] = history[r]
      /\ status'[on[s]] = copy[s].status /\ copy[s].status # "absent"
  <2>1. copy[s].status \in Status /\ "absent" \notin Status
    BY DEF BaseInv, TypeOK, Status
  <2>2. /\ End(s)
        /\ status' = [status EXCEPT ![on[s]] = copy[s].status]
        /\ history' = [history EXCEPT ![on[s]] =
                          Append(@, [from |-> from[s], to |-> copy[s].status])]
    BY DEF TransitionCommit
  <2>3. QED BY <1>1, <2>1, <2>2 DEF End, BaseInv, TypeOK
<1>4. LifeInv'
  <2>1. ASSUME NEW t \in Sessions, pc'[t] \in Saving \cup {"transition"}
        PROVE  /\ pc'[t] = pc[t] /\ on'[t] = on[t] /\ copy'[t] = copy[t] /\ from'[t] = from[t]
               /\ status'[on[t]] = status[on[t]]
    BY <1>2, <1>3, <2>1 DEF Saving
  <2>2. \A r \in Requests : status'[r] = "absent" => history'[r] = <<>>
    BY <1>3
  <2>3. QED BY <2>1, <2>2 DEF Saving
<1>5. Lifecycle!Move(on[s], copy[s].status)
  BY <1>1 DEF TransitionCommit, Lifecycle!Move
<1>6. QED BY <1>1, <1>4, <1>5, SameAllowed DEF LifeStepped, Lifecycle!Next, Lifecycle!Transition

(* The save of a draft: it stays one, or is submitted.                      *)
LEMMA CommitLife ==
    ASSUME BaseInv, LifeInv, SavesAlone, NEW s \in Sessions, SaveCommit(s)
    PROVE  LifeStepped
<1> USE DEF LifeInv
<1>1. /\ on[s] \in Requests /\ pc[s] = "save"
      /\ status[on[s]] = "draft" /\ from[s] = "draft"
      /\ copy[s].status \in {"draft", "submitted"}
  BY DEF SaveCommit, BaseInv, CallInv, Saving
<1>2. ASSUME NEW t \in Sessions \ {s}, pc[t] \in Saving \cup {"transition"}
      PROVE  on[t] # on[s] /\ on[t] \in Requests
  BY <1>1, <1>2 DEF BaseInv, CallInv, SavesAlone, Saving
<1>3. /\ \A t \in Sessions \ {s} :
            pc'[t] = pc[t] /\ on'[t] = on[t] /\ copy'[t] = copy[t] /\ from'[t] = from[t]
      /\ pc'[s] = "idle"
      /\ \A r \in Requests \ {on[s]} : status'[r] = status[r] /\ history'[r] = history[r]
      /\ status'[on[s]] = copy[s].status
  BY <1>1 DEF SaveCommit, End, BaseInv, TypeOK
<1>4. LifeInv'
  <2>1. ASSUME NEW t \in Sessions, pc'[t] \in Saving \cup {"transition"}
        PROVE  /\ pc'[t] = pc[t] /\ on'[t] = on[t] /\ copy'[t] = copy[t] /\ from'[t] = from[t]
               /\ status'[on[t]] = status[on[t]]
    BY <1>2, <1>3, <2>1 DEF Saving
  <2>2. \A r \in Requests : status'[r] = "absent" => history'[r] = <<>>
    BY <1>1, <1>3
  <2>3. QED BY <2>1, <2>2 DEF Saving
<1>5. CASE copy[s].status = "draft"
  <2>1. UNCHANGED <<status, history>>
    BY <1>1, <1>5 DEF SaveCommit, BaseInv, TypeOK
  <2>2. QED BY <1>4, <2>1 DEF LifeStepped
<1>6. CASE copy[s].status = "submitted"
  <2>1. Lifecycle!Move(on[s], "submitted")
    BY <1>1, <1>6 DEF SaveCommit, Lifecycle!Move
  <2>2. "submitted" \in Lifecycle!Allowed(status[on[s]])
    BY <1>1, SameAllowed DEF Allowed
  <2>3. QED BY <1>1, <1>4, <2>1, <2>2 DEF LifeStepped, Lifecycle!Next, Lifecycle!Transition
<1>7. QED BY <1>1, <1>5, <1>6

LEMMA LifeStep == BaseInv /\ LifeInv /\ SavesAlone /\ [Next]_vars => LifeStepped
<1> SUFFICES ASSUME BaseInv, LifeInv, SavesAlone, [Next]_vars PROVE LifeStepped
  OBVIOUS
<1>1. CASE UNCHANGED vars
  BY <1>1 DEF vars, rowVars, callVars, LifeInv, LifeStepped
<1>2. QED BY <1>1, CreateLife, BeginLife, ContinueLife, TransitionLife, CommitLife DEF Next, Continue

(* Stale reads of overlapping saves are the only way in which a request     *)
(* leaves its lifecycle, or moves without a history row: every execution    *)
(* in which saves are alone implements RequestLifecycle.                    *)
THEOREM StaleReadsAreTheOnlyCause == Spec => OnlyStaleReadsBreak
<1>1. Init => LifeInv /\ Lifecycle!Init
  BY DEF Init, LifeInv, Saving, Lifecycle!Init
<1>2. BaseInv /\ LifeInv /\ SavesAlone /\ [Next]_vars
         => LifeInv' /\ [Lifecycle!Next]_<<status, history>>
  BY LifeStep DEF LifeStepped
<1>3. BaseInv /\ CompleteInv => BaseInv
  OBVIOUS
<1>4. QED
  BY Invariance, <1>1, <1>2, <1>3, PTL
     DEF Spec, OnlyStaleReadsBreak, LifecycleRespected, Lifecycle!Spec

-----------------------------------------------------------------------------
StaffCalls == {"transition", "upload"}

NobodySaves == \A s \in Sessions : pc[s] \notin Saving

LEMMA StaffSavesNothing ==
    ASSUME Calls \subseteq StaffCalls
    PROVE  BaseInv /\ NobodySaves /\ [Next]_vars => NobodySaves'
<1> SUFFICES ASSUME BaseInv, NobodySaves, [Next]_vars PROVE NobodySaves'
  OBVIOUS
<1> USE DEF NobodySaves, Saving, StaffCalls, Goto, End, BaseInv, TypeOK
<1>1. ASSUME NEW s \in Sessions, NEW r \in Requests
      PROVE  /\ ~SubmitFind(s, r) /\ ~DraftEditFind(s, r) /\ ~DraftSubmitFind(s, r)
             /\ \A form \in Forms : ~EditFind(s, r, form)
             /\ \A to \in Status : TransitionFind(s, r, to) => NobodySaves'
             /\ \A d \in DocumentCodes(Service[r]) : UploadFind(s, r, d) => NobodySaves'
  BY DEF SubmitFind, EditFind, DraftEditFind, DraftSubmitFind, CanBegin, TransitionFind,
         UploadFind
<1>2. ASSUME NEW s \in Sessions, Continue(s) \/ Crash(s)
      PROVE  NobodySaves'
  <2>1. TransitionCommit(s) \/ UploadStore(s) \/ UploadLink(s) \/ Crash(s)
    BY <1>2 DEF Continue, SubmitCheck, SavePrevious, SaveUpdate, SaveVersion, SaveCommit
  <2>2. pc' = [pc EXCEPT ![s] = "idle"] \/ pc' = [pc EXCEPT ![s] = "link"]
    BY <2>1 DEF TransitionCommit, UploadStore, UploadLink, Crash
  <2>3. QED BY <2>2
<1>3. QED BY <1>1, <1>2 DEF Next, Create, vars, callVars

(* The row lock of updateRequestStatus is enough for the staff: requests    *)
(* that only the staff moves follow the lifecycle, and every move has its   *)
(* history row.                                                             *)
THEOREM StaffKeepsLifecycle ==
    ASSUME Calls \subseteq StaffCalls
    PROVE  Spec => LifecycleRespected
<1>1. Init => NobodySaves
  BY DEF Init, NobodySaves, Saving
<1>2. BaseInv /\ NobodySaves /\ [Next]_vars => NobodySaves'
  BY StaffSavesNothing
<1>3. NobodySaves => SavesAlone
  BY DEF NobodySaves, SavesAlone
<1>4. BaseInv /\ CompleteInv => BaseInv
  OBVIOUS
<1>5. QED
  BY Invariance, StaleReadsAreTheOnlyCause, <1>1, <1>2, <1>3, <1>4, PTL
     DEF Spec, OnlyStaleReadsBreak
=============================================================================

--------------------------- MODULE FilingsProofs ---------------------------
(***************************************************************************)
(* What the tables of filings guarantee for any number of filings and      *)
(* calls, wherever a call stops and whichever calls overlap.               *)
(*                                                                         *)
(* FilingInv says what a call holds between its statements: the form it    *)
(* will save is of the type declared, snapshots are numbered 1, 2, 3, ...  *)
(* so that the last one is the form on record, and a call that believes    *)
(* the filing no draft has a history that says it was submitted.  The      *)
(* modules that add to the filings, the office's casework and the form on  *)
(* the phone, use the lemmas below.                                        *)
(***************************************************************************)
EXTENDS Filings, SequenceTheorems, TLAPS

At == {"idle", "saving", "writing", "scheduling", "staffing", "completing",
       "reporting", "cancelling", "deciding", "revising"}

Snapshot == [version : Nat, form : Form]
HistoryEntry == [from : Status \cup {"none"}, to : Status]
Object == [status : {"draft", "submitted"}, form : Form]
Submission == [from |-> "draft", to |-> "submitted"]

(* What exists has a snapshot, and the n-th snapshot is version n. *)
SnapshotsNumbered ==
    \A f \in Filed :
        /\ status[f] # "none" => Len(snapshots[f]) > 0
        /\ \A i \in DOMAIN snapshots[f] : snapshots[f][i].version = i

(* Only the owner moves a balagh, and only to submit it. *)
BalaghsWait == \A f \in Balaghs : status[f] \in {"none", "draft", "submitted"}

(* A call saves to a filing that exists, and a form of its type. *)
CopiesFit ==
    \A c \in Calls : at[c] \in {"saving", "writing"} =>
        /\ on[c] \in Filed /\ status[on[c]] # "none"
        /\ copy[c] \in Object /\ copy[c].form.type = declared[on[c]]

IsRecorded(f) == \E i \in DOMAIN history[f] : history[f][i] = Submission

(* Where the filing was submitted, or a call has read that it is no draft. *)
PreviousIsRecorded ==
    \A c \in Calls : at[c] = "writing" =>
        /\ previous[c] \in Status
        /\ \A f \in Filed : on[c] = f /\ previous[c] # "draft" => IsRecorded(f)

FilingInv ==
    /\ FilingTypeOK /\ at \in [Calls -> At]
    /\ SnapshotsNumbered /\ FormsFitTheirType /\ CopiesFit
    /\ PreviousIsRecorded /\ SubmissionIsRecorded

-----------------------------------------------------------------------------
(* The states of a service request. *)
LEMMA Moves ==
    /\ Allowed("none") = {} /\ Allowed("draft") = {"submitted"}
    /\ \A from \in Status \cup {"none"} :
          Allowed(from) \subseteq Status \ {"draft"}
    /\ {"draft", "submitted"} \subseteq Status /\ "none" \notin Status
<1>1. Allowed("none") = {} /\ Allowed("draft") = {"submitted"}
  BY DEF Allowed
<1>2. ASSUME NEW from \in Status PROVE Allowed(from) \subseteq Status \ {"draft"}
  BY DEF Allowed, Status
<1>3. {"draft", "submitted"} \subseteq Status /\ "none" \notin Status
  BY DEF Status
<1>4. QED BY <1>1, <1>2, <1>3

(* Appending a row leaves the others where they are. *)
LEMMA Appended ==
    ASSUME NEW S, NEW s \in Seq(S), NEW x \in S
    PROVE  /\ Append(s, x) \in Seq(S) /\ DOMAIN Append(s, x) = 1 .. Len(s) + 1
           /\ Len(Append(s, x)) = Len(s) + 1 /\ DOMAIN s = 1 .. Len(s) /\ Len(s) \in Nat
           /\ Append(s, x)[Len(s) + 1] = x
           /\ \A i \in DOMAIN s : Append(s, x)[i] = s[i]
  OBVIOUS

(* A history that is added to keeps what it says. *)
LEMMA Added ==
    ASSUME NEW S, NEW s \in Seq(S), NEW x \in S
    PROVE  /\ s \o <<>> = s
           /\ s \o <<x>> = Append(s, x)
  BY AppendIsConcat, ConcatEmptySeq

(* The forms a taxpayer may fill in are forms, and select activities.       *)
LEMMA FormsAreForms ==
    /\ \A f \in Filed : Forms(f) \subseteq Form
    /\ \A form \in Form : form.activityIds \subseteq Activities
<1>1. \A t \in TypesFiled \cup {Notice} : Targets(t) \subseteq SUBSET Activities
  <2>1. ASSUME NEW t PROVE Targets(t) \subseteq SUBSET Activities
    BY DEF Targets
  <2>2. QED BY <2>1
<1>2. \A f \in Filed : Forms(f) \subseteq Form
  BY DEF Forms, Form, FormsOf
<1>3. ASSUME NEW form \in Form PROVE form.activityIds \subseteq Activities
  <2>1. PICK t \in TypesFiled \cup {Notice} : form \in [type : {t}, activityIds : Targets(t)]
    BY DEF Form, FormsOf
  <2>2. QED BY <1>1, <2>1
<1>4. QED BY <1>2, <1>3

(* The form on record is the last one that was saved, of the type declared. *)
LEMMA StoredFormIsLast ==
    ASSUME FilingInv, NEW f \in Filed, status[f] # "none"
    PROVE  /\ Highest(f) = Len(snapshots[f])
           /\ StoredForm(f) \in Form /\ StoredForm(f).type = declared[f]
<1> DEFINE n == Len(snapshots[f])
<1>1. /\ snapshots[f] \in Seq(Snapshot) /\ n \in Nat /\ n > 0
      /\ DOMAIN snapshots[f] = 1 .. n
      /\ \A i \in 1 .. n : snapshots[f][i].version = i /\ snapshots[f][i] \in Snapshot
  <2>1. snapshots[f] \in Seq(Snapshot)
    BY DEF FilingInv, FilingTypeOK, Snapshot
  <2>2. n > 0 /\ \A i \in DOMAIN snapshots[f] : snapshots[f][i].version = i
    BY DEF FilingInv, SnapshotsNumbered
  <2>3. QED BY <2>1, <2>2
<1>2. \A i \in 1 .. n : snapshots[f][i].version <= snapshots[f][n].version
  BY <1>1
<1>3. ASSUME NEW k \in 1 .. n,
             \A i \in 1 .. n : snapshots[f][i].version <= snapshots[f][k].version
      PROVE  k = n
  <2>1. snapshots[f][n].version <= snapshots[f][k].version
    BY <1>1, <1>3
  <2>2. snapshots[f][n].version = n /\ snapshots[f][k].version = k
    BY <1>1
  <2>3. QED BY <1>1, <2>1, <2>2
<1>4. Highest(f) = n
  BY <1>1, <1>2, <1>3 DEF Highest
<1>5. snapshots[f][n].form \in Form /\ snapshots[f][n].form.type = declared[f]
  BY <1>1 DEF FilingInv, FormsFitTheirType, Snapshot
<1>6. QED BY <1>4, <1>5 DEF StoredForm

-----------------------------------------------------------------------------
(* Nothing is filed at first. *)
LEMMA FilingInitInv == FilingInit => FilingInv
<1> SUFFICES ASSUME FilingInit PROVE FilingInv
  OBVIOUS
<1> USE DEF FilingInit
<1>1. FilingTypeOK /\ at \in [Calls -> At]
  <2>1. BalaghsWait
    BY DEF BalaghsWait, Filed
  <2>2. QED BY <2>1 DEF FilingTypeOK, BalaghsWait, At
<1>2. SnapshotsNumbered /\ FormsFitTheirType /\ CopiesFit
  BY DEF SnapshotsNumbered, FormsFitTheirType, CopiesFit
<1>3. PreviousIsRecorded /\ SubmissionIsRecorded
  BY DEF PreviousIsRecorded, SubmissionIsRecorded
<1>4. QED BY <1>1, <1>2, <1>3 DEF FilingInv

(* A new filing brings one snapshot of a form of its type, and meets no     *)
(* call.                                                                    *)
LEMMA CreateInv ==
    ASSUME FilingInv, NEW f \in Filed, NEW form \in Forms(f),
           NEW type \in TypesFiled \cup {Notice}, Create(f, type, form)
    PROVE  FilingInv'
<1> USE DEF FilingInv
<1>1. form \in Form /\ form.type = type /\ form.activityIds \subseteq Activities
      /\ type \in Types \cup {Notice}
  BY FormsAreForms, FilingAssumption DEF Create, FormMatches
<1>2. /\ status[f] = "none"
      /\ status' = [status EXCEPT ![f] = "draft"]
      /\ declared' = [declared EXCEPT ![f] = type]
      /\ selected' = [selected EXCEPT ![f] = IF f \in Balaghs THEN form.activityIds ELSE {}]
      /\ UNCHANGED <<at, on, copy, previous>>
  BY DEF Create, copyVars
<1>3. PICK rows \in Seq(Snapshot) :
        /\ Len(rows) = 1 /\ DOMAIN rows = {1} /\ rows[1].version = 1 /\ rows[1].form = form
        /\ snapshots' = [snapshots EXCEPT ![f] = rows]
  <2>1. [version |-> 1, form |-> form] \in Snapshot
    BY <1>1 DEF Snapshot
  <2>2. ASSUME NEW first \in Snapshot
        PROVE  <<first>> \in Seq(Snapshot) /\ Len(<<first>>) = 1
               /\ DOMAIN <<first>> = {1} /\ <<first>>[1] = first
    OBVIOUS
  <2>3. snapshots' = [snapshots EXCEPT ![f] = <<[version |-> 1, form |-> form]>>]
    BY DEF Create
  <2>4. QED BY <2>1, <2>2, <2>3
<1>4. PICK entries \in Seq(HistoryEntry) : history' = [history EXCEPT ![f] = entries]
  <2>1. [from |-> "none", to |-> "draft"] \in HistoryEntry
    BY Moves DEF HistoryEntry
  <2>2. ASSUME NEW entry \in HistoryEntry PROVE <<entry>> \in Seq(HistoryEntry)
    OBVIOUS
  <2>3. history' = [history EXCEPT ![f] = <<[from |-> "none", to |-> "draft"]>>]
    BY DEF Create
  <2>4. QED BY <2>1, <2>2, <2>3
<1>5. FilingTypeOK'
  <2>1. status' \in [Filed -> Status \cup {"none"}] /\ BalaghsWait'
        /\ declared' \in [Filed -> Types \cup {Notice, "none"}]
    BY <1>1, <1>2, Moves DEF FilingTypeOK, BalaghsWait, Filed
  <2>2. snapshots' \in [Filed -> Seq(Snapshot)] /\ history' \in [Filed -> Seq(HistoryEntry)]
    BY <1>3, <1>4 DEF FilingTypeOK, Snapshot, HistoryEntry
  <2>3. selected' \in [Filed -> SUBSET Activities]
    BY <1>1, <1>2 DEF FilingTypeOK
  <2>4. QED BY <1>2, <2>1, <2>2, <2>3 DEF FilingTypeOK, BalaghsWait, Snapshot, HistoryEntry
<1>6. ASSUME NEW g \in Filed, g # f
      PROVE  /\ status'[g] = status[g] /\ declared'[g] = declared[g]
             /\ snapshots'[g] = snapshots[g] /\ history'[g] = history[g]
  <2>1. status'[g] = status[g] /\ declared'[g] = declared[g]
    BY <1>2, <1>6 DEF FilingTypeOK
  <2>2. snapshots'[g] = snapshots[g]
    BY <1>3, <1>6 DEF FilingTypeOK
  <2>3. history'[g] = history[g]
    BY <1>4, <1>6 DEF FilingTypeOK
  <2>4. QED BY <2>1, <2>2, <2>3
<1>7. /\ status'[f] = "draft" /\ declared'[f] = type
      /\ snapshots'[f] = rows /\ history'[f] = entries
  BY <1>2, <1>3, <1>4 DEF FilingTypeOK
<1>8. SnapshotsNumbered'
  <2>1. SUFFICES ASSUME NEW g \in Filed
                 PROVE  /\ status'[g] # "none" => Len(snapshots'[g]) > 0
                        /\ \A i \in DOMAIN snapshots'[g] : snapshots'[g][i].version = i
    BY DEF SnapshotsNumbered
  <2>2. CASE g = f
    <3>1. Len(rows) > 0 /\ \A i \in DOMAIN rows : rows[i].version = i
      BY <1>3
    <3>2. QED BY <1>7, <2>2, <3>1
  <2>3. CASE g # f
    BY <1>6, <2>3 DEF SnapshotsNumbered
  <2>4. QED BY <2>2, <2>3
<1>9. FormsFitTheirType'
  <2>1. SUFFICES ASSUME NEW g \in Filed, NEW i \in DOMAIN snapshots'[g]
                 PROVE  snapshots'[g][i].form.type = declared'[g]
    BY DEF FormsFitTheirType
  <2>2. CASE g = f
    BY <1>1, <1>3, <1>7, <2>2
  <2>3. CASE g # f
    BY <1>6, <2>3 DEF FormsFitTheirType
  <2>4. QED BY <2>2, <2>3
<1>10. CopiesFit'
  BY <1>2, <1>6 DEF CopiesFit
<1>11. PreviousIsRecorded'
  <2>1. ASSUME NEW c \in Calls, at[c] = "writing" PROVE on[c] # f
    BY <1>2, <2>1 DEF CopiesFit
  <2>2. QED BY <1>2, <1>6, <2>1 DEF PreviousIsRecorded, IsRecorded
<1>12. SubmissionIsRecorded'
  BY <1>6, <1>7 DEF SubmissionIsRecorded
<1>13. QED BY <1>2, <1>5, <1>8, <1>9, <1>10, <1>11, <1>12

(* A call takes a filing to save it: an edit a form of its type, a          *)
(* submission the form on record.                                           *)
LEMMA TakeInv ==
    ASSUME FilingInv, NEW c \in Calls, NEW f \in Filed,
           Submit(c, f) \/ \E form \in Forms(f) : Edit(c, f, form)
    PROVE  FilingInv'
<1>1. PICK object \in Object : Take(c, f, object) /\ object.form.type = declared[f]
  <2>1. CASE Submit(c, f)
    <3>1. StoredForm(f) \in Form /\ StoredForm(f).type = declared[f]
      BY <2>1, StoredFormIsLast DEF Submit
    <3>2. [status |-> "submitted", form |-> StoredForm(f)] \in Object
      BY <3>1 DEF Object
    <3>3. QED BY <2>1, <3>1, <3>2 DEF Submit
  <2>2. CASE \E form \in Forms(f) : Edit(c, f, form)
    <3>1. PICK form \in Forms(f) : Edit(c, f, form)
      BY <2>2
    <3>2. [status |-> "draft", form |-> form] \in Object
      BY FormsAreForms DEF Object
    <3>3. QED BY <3>1, <3>2 DEF Edit, FormMatches
  <2>3. QED BY <2>1, <2>2
<1> USE DEF FilingInv
<1>2. /\ at[c] = "idle" /\ status[f] = "draft"
      /\ at' = [at EXCEPT ![c] = "saving"]
      /\ on' = [on EXCEPT ![c] = f] /\ copy' = [copy EXCEPT ![c] = object]
      /\ UNCHANGED <<status, declared, snapshots, history, selected, previous>>
  BY <1>1 DEF Take, Goto, rowVars
<1>3. FilingTypeOK' /\ at' \in [Calls -> At]
  BY <1>2 DEF FilingTypeOK, Object, At
<1>4. SnapshotsNumbered' /\ FormsFitTheirType' /\ SubmissionIsRecorded'
  BY <1>2 DEF SnapshotsNumbered, FormsFitTheirType, SubmissionIsRecorded
<1>5. CopiesFit'
  BY <1>1, <1>2 DEF CopiesFit, FilingTypeOK
<1>6. PreviousIsRecorded'
  BY <1>2 DEF PreviousIsRecorded, FilingTypeOK, IsRecorded
<1>7. QED BY <1>3, <1>4, <1>5, <1>6

(* What save() takes for the previous status is recorded when it is read.   *)
LEMMA ReadPreviousInv ==
    ASSUME FilingInv, NEW c \in Calls, ReadPrevious(c)
    PROVE  FilingInv'
<1> USE DEF FilingInv
<1>1. PICK f \in Filed : on[c] = f /\ status[f] \in Status /\ status[f] # "none"
  BY DEF ReadPrevious, CopiesFit, FilingTypeOK
<1>2. /\ at[c] = "saving" /\ at' = [at EXCEPT ![c] = "writing"]
      /\ previous' = [previous EXCEPT ![c] = status[f]]
      /\ UNCHANGED <<status, declared, snapshots, history, selected, on, copy>>
  BY <1>1 DEF ReadPrevious, Goto, rowVars
<1>3. FilingTypeOK' /\ at' \in [Calls -> At]
  BY <1>1, <1>2 DEF FilingTypeOK, At
<1>4. SnapshotsNumbered' /\ FormsFitTheirType' /\ SubmissionIsRecorded'
  BY <1>2 DEF SnapshotsNumbered, FormsFitTheirType, SubmissionIsRecorded
<1>5. CopiesFit'
  BY <1>2 DEF CopiesFit
<1>6. status[f] # "draft" => IsRecorded(f)
  BY <1>1 DEF SubmissionIsRecorded, IsRecorded, Submission
<1>7. PreviousIsRecorded'
  BY <1>1, <1>2, <1>6 DEF PreviousIsRecorded, FilingTypeOK, IsRecorded
<1>8. QED BY <1>3, <1>4, <1>5, <1>7

(* The transaction of save() numbers its snapshot after the last one, and   *)
(* adds to the history what the object changes.                             *)
LEMMA SaveInv ==
    ASSUME FilingInv, NEW c \in Calls, Save(c)
    PROVE  FilingInv'
<1> USE DEF FilingInv
<1>1. PICK f \in Filed : on[c] = f /\ status[f] # "none"
  BY DEF Save, CopiesFit
<1>2. /\ at[c] = "writing" /\ copy[c] \in Object
      /\ copy[c].status \in {"draft", "submitted"}
      /\ copy[c].form \in Form /\ copy[c].form.type = declared[f]
      /\ previous[c] \in Status
      /\ previous[c] # "draft" => IsRecorded(f)
  BY <1>1 DEF Save, CopiesFit, PreviousIsRecorded, Object
<1>3. PICK row \in Snapshot :
        /\ row.version = Len(snapshots[f]) + 1 /\ row.form = copy[c].form
        /\ snapshots' = [snapshots EXCEPT ![f] = Append(snapshots[f], row)]
  <2>1. snapshots[f] \in Seq(Snapshot) /\ Len(snapshots[f]) \in Nat /\ Len(snapshots[f]) > 0
        /\ DOMAIN snapshots[f] = 1 .. Len(snapshots[f])
    <3>1. snapshots[f] \in Seq(Snapshot)
      BY DEF FilingTypeOK, Snapshot
    <3>2. Len(snapshots[f]) > 0
      BY <1>1 DEF SnapshotsNumbered
    <3>3. QED BY <3>1, <3>2
  <2>2. snapshots[f][Highest(f)].version = Len(snapshots[f])
    BY <1>1, <2>1, StoredFormIsLast DEF SnapshotsNumbered
  <2>3. [version |-> Len(snapshots[f]) + 1, form |-> copy[c].form] \in Snapshot
    BY <1>2, <2>1 DEF Snapshot
  <2>4. snapshots' = [snapshots EXCEPT ![f] = Append(snapshots[f],
            [version |-> Len(snapshots[f]) + 1, form |-> copy[c].form])]
    BY <1>1, <2>2 DEF Save
  <2>5. QED BY <2>3, <2>4
<1>4. \/ previous[c] = copy[c].status /\ history' = history
      \/ \E entry \in HistoryEntry :
            /\ entry.from = previous[c] /\ entry.to = copy[c].status /\ previous[c] # copy[c].status
            /\ entry = [from |-> previous[c], to |-> copy[c].status]
            /\ history' = [history EXCEPT ![f] = Append(history[f], entry)]
  <2>1. history[f] \in Seq(HistoryEntry) /\ history \in [Filed -> Seq(HistoryEntry)]
    BY DEF FilingTypeOK, HistoryEntry
  <2>2. history' = [history EXCEPT ![f] = history[f] \o HistoryRow(c)]
    BY <1>1 DEF Save
  <2>3. CASE previous[c] = copy[c].status
    <3>1. history[f] \o HistoryRow(c) = history[f]
      BY <2>1, <2>3, Added DEF HistoryRow
    <3>2. QED BY <2>1, <2>2, <2>3, <3>1
  <2>4. CASE previous[c] # copy[c].status
    <3> DEFINE entry == [from |-> previous[c], to |-> copy[c].status]
    <3>1. entry \in HistoryEntry /\ entry.from = previous[c] /\ entry.to = copy[c].status
      BY <1>2, Moves DEF HistoryEntry
    <3>2. HistoryRow(c) = <<entry>>
      BY <2>4 DEF HistoryRow
    <3> HIDE DEF entry
    <3>3. history[f] \o HistoryRow(c) = Append(history[f], entry)
      BY <2>1, <3>1, <3>2, Added
    <3>4. QED BY <2>2, <2>4, <3>1, <3>3 DEF entry
  <2>5. QED BY <2>3, <2>4
<1>5. /\ status' = [status EXCEPT ![f] = copy[c].status]
      /\ at' = [at EXCEPT ![c] = "idle"] /\ on' = [on EXCEPT ![c] = NoFiling]
      /\ copy' = [copy EXCEPT ![c] = NoCopy] /\ previous' = [previous EXCEPT ![c] = "none"]
      /\ UNCHANGED <<declared, selected>>
  BY <1>1 DEF Save, Rest, Goto
<1>6. /\ \A g \in Filed : g # f => status'[g] = status[g] /\ snapshots'[g] = snapshots[g]
      /\ status'[f] = copy[c].status /\ snapshots'[f] = Append(snapshots[f], row)
  BY <1>3, <1>5 DEF FilingTypeOK
<1>7. /\ Append(snapshots[f], row) \in Seq(Snapshot)
      /\ DOMAIN Append(snapshots[f], row) = 1 .. Len(snapshots[f]) + 1
      /\ Len(Append(snapshots[f], row)) = Len(snapshots[f]) + 1
      /\ Append(snapshots[f], row)[Len(snapshots[f]) + 1] = row
      /\ DOMAIN snapshots[f] = 1 .. Len(snapshots[f]) /\ Len(snapshots[f]) \in Nat
      /\ \A i \in DOMAIN snapshots[f] : Append(snapshots[f], row)[i] = snapshots[f][i]
  <2>1. snapshots[f] \in Seq(Snapshot)
    BY DEF FilingTypeOK, Snapshot
  <2>2. QED BY <2>1, Appended
<1>8. \A g \in Filed : history'[g] \in Seq(HistoryEntry) /\ (IsRecorded(g) => IsRecorded(g)')
  <2>1. SUFFICES ASSUME NEW g \in Filed
                 PROVE  /\ history'[g] \in Seq(HistoryEntry)
                        /\ \A i \in DOMAIN history[g] :
                              i \in DOMAIN history'[g] /\ history'[g][i] = history[g][i]
    BY DEF IsRecorded
  <2>2. history[g] \in Seq(HistoryEntry) /\ history \in [Filed -> Seq(HistoryEntry)]
    BY DEF FilingTypeOK, HistoryEntry
  <2>3. CASE history' = history \/ g # f
    BY <1>4, <2>2, <2>3
  <2>4. CASE history' # history /\ g = f
    <3>1. PICK entry \in HistoryEntry : history' = [history EXCEPT ![f] = Append(history[f], entry)]
      BY <1>4, <2>4
    <3>2. history'[g] = Append(history[g], entry)
      BY <2>2, <2>4, <3>1
    <3>3. QED BY <2>2, <3>2, Appended
  <2>5. QED BY <2>3, <2>4
<1>9. copy[c].status = "submitted" => IsRecorded(f)'
  <2>1. CASE previous[c] # "draft"
    BY <1>2, <1>8, <2>1
  <2>2. CASE previous[c] = "draft" /\ copy[c].status = "submitted"
    <3>1. history[f] \in Seq(HistoryEntry) /\ history \in [Filed -> Seq(HistoryEntry)]
      BY DEF FilingTypeOK, HistoryEntry
    <3>2. PICK entry \in HistoryEntry :
            entry = Submission /\ history' = [history EXCEPT ![f] = Append(history[f], entry)]
      BY <1>4, <2>2 DEF Submission
    <3>3. history'[f] = Append(history[f], entry)
      BY <3>1, <3>2
    <3>4. Len(history[f]) + 1 \in DOMAIN history'[f] /\ history'[f][Len(history[f]) + 1] = entry
      BY <3>1, <3>3, Appended
    <3>5. QED BY <3>2, <3>4 DEF IsRecorded
  <2>3. QED BY <1>2, <2>1, <2>2
<1>10. FilingTypeOK' /\ at' \in [Calls -> At]
  <2>1. status' \in [Filed -> Status \cup {"none"}] /\ at' \in [Calls -> At] /\ BalaghsWait'
    BY <1>2, <1>5, Moves DEF FilingTypeOK, BalaghsWait, Filed, At
  <2>2. snapshots' \in [Filed -> Seq(Snapshot)]
    BY <1>3, <1>7 DEF FilingTypeOK, Snapshot
  <2>3. history' \in [Filed -> Seq(HistoryEntry)]
    BY <1>4, <1>8 DEF FilingTypeOK, HistoryEntry
  <2>4. /\ on' \in [Calls -> Filed \cup {NoFiling}]
        /\ previous' \in [Calls -> Status \cup {"none"}]
    BY <1>5 DEF FilingTypeOK
  <2>5. copy' \in [Calls -> Object \cup {NoCopy}]
    BY <1>5 DEF FilingTypeOK, Object
  <2>6. QED BY <1>5, <2>1, <2>2, <2>3, <2>4, <2>5
           DEF FilingTypeOK, BalaghsWait, Snapshot, HistoryEntry, Object
<1>11. SnapshotsNumbered'
  <2>1. SUFFICES ASSUME NEW g \in Filed
                 PROVE  /\ status'[g] # "none" => Len(snapshots'[g]) > 0
                        /\ \A i \in DOMAIN snapshots'[g] : snapshots'[g][i].version = i
    BY DEF SnapshotsNumbered
  <2>2. CASE g # f
    BY <1>6, <2>2 DEF SnapshotsNumbered
  <2>3. CASE g = f
    <3>1. ASSUME NEW i \in 1 .. Len(snapshots[f]) + 1
          PROVE  Append(snapshots[f], row)[i].version = i
      <4>1. CASE i = Len(snapshots[f]) + 1
        BY <1>3, <1>7, <4>1
      <4>2. CASE i \in DOMAIN snapshots[f]
        BY <1>7, <4>2 DEF SnapshotsNumbered
      <4>3. QED BY <1>7, <4>1, <4>2
    <3>2. snapshots'[g] = Append(snapshots[f], row)
      BY <1>6, <2>3
    <3>3. Len(Append(snapshots[f], row)) > 0
      BY <1>7
    <3>4. QED BY <1>7, <3>1, <3>2, <3>3
  <2>4. QED BY <2>2, <2>3
<1>12. FormsFitTheirType'
  <2>1. SUFFICES ASSUME NEW g \in Filed, NEW i \in DOMAIN snapshots'[g]
                 PROVE  snapshots'[g][i].form.type = declared[g]
    BY <1>5 DEF FormsFitTheirType
  <2>2. CASE g # f
    BY <1>6, <2>2 DEF FormsFitTheirType
  <2>3. CASE g = f
    <3>1. i \in 1 .. Len(snapshots[f]) + 1
      BY <1>6, <1>7, <2>3
    <3>2. CASE i = Len(snapshots[f]) + 1
      BY <1>2, <1>3, <1>6, <1>7, <2>3, <3>2
    <3>3. CASE i \in DOMAIN snapshots[f]
      BY <1>6, <1>7, <2>3, <3>3 DEF FormsFitTheirType
    <3>4. QED BY <1>7, <3>1, <3>2, <3>3
  <2>4. QED BY <2>2, <2>3
<1>13. CopiesFit'
  <2>1. \A g \in Filed : status[g] # "none" => status'[g] # "none"
    BY <1>2, <1>6
  <2>2. \A d \in Calls : at'[d] \in {"saving", "writing"} =>
          d # c /\ at'[d] = at[d] /\ on'[d] = on[d] /\ copy'[d] = copy[d]
    BY <1>5 DEF FilingTypeOK
  <2>3. QED BY <1>5, <2>1, <2>2 DEF CopiesFit
<1>14. PreviousIsRecorded'
  <2>1. \A d \in Calls : at'[d] = "writing" =>
          at'[d] = at[d] /\ on'[d] = on[d] /\ previous'[d] = previous[d]
    BY <1>5 DEF FilingTypeOK
  <2>2. QED BY <1>8, <2>1 DEF PreviousIsRecorded
<1>15. SubmissionIsRecorded'
  <2>1. \A g \in Filed : status'[g] \notin {"none", "draft"} => IsRecorded(g)'
    <3>1. ASSUME NEW g \in Filed, status'[g] \notin {"none", "draft"} PROVE IsRecorded(g)'
      <4>1. CASE g = f
        BY <1>2, <1>6, <1>9, <3>1, <4>1
      <4>2. CASE g # f
        <5>1. IsRecorded(g)
          BY <1>6, <3>1, <4>2 DEF SubmissionIsRecorded, IsRecorded, Submission
        <5>2. QED BY <1>8, <5>1
      <4>3. QED BY <4>1, <4>2
    <3>2. QED BY <3>1
  <2>2. QED BY <2>1 DEF SubmissionIsRecorded, IsRecorded, Submission
<1>16. QED BY <1>10, <1>11, <1>12, <1>13, <1>14, <1>15

(* A call that stops leaves the rows as they are. *)
LEMMA SaveFailsInv ==
    ASSUME FilingInv, NEW c \in Calls, SaveFails(c)
    PROVE  FilingInv'
<1> USE DEF FilingInv
<1>1. /\ at' = [at EXCEPT ![c] = "idle"] /\ on' = [on EXCEPT ![c] = NoFiling]
      /\ copy' = [copy EXCEPT ![c] = NoCopy] /\ previous' = [previous EXCEPT ![c] = "none"]
      /\ UNCHANGED <<status, declared, snapshots, history, selected>>
  BY DEF SaveFails, Rest, Goto, rowVars
<1>2. FilingTypeOK' /\ at' \in [Calls -> At]
  <2>1. copy' \in [Calls -> Object \cup {NoCopy}]
    BY <1>1 DEF FilingTypeOK, Object
  <2>2. QED BY <1>1, <2>1 DEF FilingTypeOK, At, Object
<1>3. SnapshotsNumbered' /\ FormsFitTheirType' /\ SubmissionIsRecorded'
  BY <1>1 DEF SnapshotsNumbered, FormsFitTheirType, SubmissionIsRecorded
<1>4. \A d \in Calls : at'[d] \in {"saving", "writing"} =>
        /\ at'[d] = at[d] /\ on'[d] = on[d]
        /\ copy'[d] = copy[d] /\ previous'[d] = previous[d]
  BY <1>1 DEF FilingTypeOK
<1>5. CopiesFit'
  BY <1>1, <1>4 DEF CopiesFit
<1>6. PreviousIsRecorded'
  BY <1>1, <1>4 DEF PreviousIsRecorded, IsRecorded
<1>7. QED BY <1>2, <1>3, <1>5, <1>6

(* The staff moves a notice along the table of transitions, and writes down *)
(* each move.                                                               *)
LEMMA StaffMoveInv ==
    ASSUME FilingInv, NEW f \in AddressNotices, NEW to \in Status, StaffMove(f, to)
    PROVE  FilingInv'
<1> USE DEF FilingInv
<1> DEFINE entry == [from |-> status[f], to |-> to]
<1>1. /\ f \in Filed /\ status[f] \in Status /\ to # "draft"
      /\ status[f] = "draft" => to = "submitted"
      /\ status' = [status EXCEPT ![f] = to]
      /\ history' = [history EXCEPT ![f] = Append(history[f], entry)]
      /\ UNCHANGED <<declared, snapshots, selected, at, on, copy, previous>>
  BY Moves DEF StaffMove, copyVars, Filed, FilingTypeOK
<1>2. entry \in HistoryEntry /\ (status[f] = "draft" => entry = Submission)
  BY <1>1 DEF HistoryEntry, Submission
<1> HIDE DEF entry
<1>3. history[f] \in Seq(HistoryEntry) /\ history \in [Filed -> Seq(HistoryEntry)]
  BY <1>1 DEF FilingTypeOK, HistoryEntry
<1>4. /\ Append(history[f], entry) \in Seq(HistoryEntry)
      /\ Len(history[f]) + 1 \in DOMAIN Append(history[f], entry)
      /\ Append(history[f], entry)[Len(history[f]) + 1] = entry
      /\ \A i \in DOMAIN history[f] :
            i \in DOMAIN Append(history[f], entry) /\ Append(history[f], entry)[i] = history[f][i]
  BY <1>2, <1>3, Appended
<1>5. \A g \in Filed : IsRecorded(g) => IsRecorded(g)'
  <2>1. ASSUME NEW g \in Filed, NEW i \in DOMAIN history[g]
        PROVE  i \in DOMAIN history'[g] /\ history'[g][i] = history[g][i]
    <3>1. CASE g = f
      BY <1>1, <1>3, <1>4, <2>1, <3>1
    <3>2. CASE g # f
      BY <1>1, <1>3, <2>1, <3>2
    <3>3. QED BY <3>1, <3>2
  <2>2. QED BY <2>1 DEF IsRecorded
<1>6. IsRecorded(f)'
  <2>1. CASE status[f] = "draft"
    <3>1. history'[f] = Append(history[f], entry)
      BY <1>1, <1>3
    <3>2. QED BY <1>2, <1>4, <2>1, <3>1 DEF IsRecorded
  <2>2. CASE status[f] # "draft"
    <3>1. IsRecorded(f)
      BY <1>1, <2>2, Moves DEF SubmissionIsRecorded, IsRecorded, Submission
    <3>2. QED BY <1>1, <1>5, <3>1
  <2>3. QED BY <2>1, <2>2
<1>7. \A g \in Filed : g # f => status'[g] = status[g]
  BY <1>1 DEF FilingTypeOK
<1>8. FilingTypeOK' /\ at' \in [Calls -> At]
  <2>1. status' \in [Filed -> Status \cup {"none"}]
    BY <1>1 DEF FilingTypeOK
  <2>2. BalaghsWait'
    BY <1>7, FilingAssumption DEF FilingTypeOK, BalaghsWait, Filed
  <2>3. history' \in [Filed -> Seq(HistoryEntry)]
    BY <1>1, <1>3, <1>4
  <2>4. QED BY <1>1, <2>1, <2>2, <2>3 DEF FilingTypeOK, BalaghsWait, HistoryEntry
<1>9. SnapshotsNumbered' /\ FormsFitTheirType'
  <2>1. status[f] # "none"
    BY <1>1, Moves
  <2>2. \A g \in Filed : status'[g] # "none" => status[g] # "none"
    BY <1>7, <2>1
  <2>3. QED BY <1>1, <2>2 DEF SnapshotsNumbered, FormsFitTheirType
<1>10. CopiesFit'
  <2>1. to # "none"
    BY Moves
  <2>2. \A g \in Filed : status[g] # "none" => status'[g] # "none"
    BY <1>1, <1>7, <2>1 DEF FilingTypeOK
  <2>3. QED BY <1>1, <2>2 DEF CopiesFit
<1>11. PreviousIsRecorded'
  BY <1>1, <1>5 DEF PreviousIsRecorded
<1>12. SubmissionIsRecorded'
  <2>1. ASSUME NEW g \in Filed, status'[g] \notin {"none", "draft"} PROVE IsRecorded(g)'
    <3>1. CASE g = f
      BY <1>6, <3>1
    <3>2. CASE g # f
      <4>1. IsRecorded(g)
        BY <1>7, <2>1, <3>2 DEF SubmissionIsRecorded, IsRecorded, Submission
      <4>2. QED BY <1>5, <4>1
    <3>3. QED BY <3>1, <3>2
  <2>2. QED BY <2>1 DEF SubmissionIsRecorded, IsRecorded, Submission
<1>13. QED BY <1>8, <1>9, <1>10, <1>11, <1>12

(* The statements of the office leave the filings alone, and do not make a  *)
(* call one that saves.                                                     *)
LEMMA FilingFrame ==
    ASSUME FilingInv, UNCHANGED <<rowVars, copyVars>>, at' \in [Calls -> At],
           \A c \in Calls : at'[c] \in {"saving", "writing"} => at'[c] = at[c]
    PROVE  FilingInv'
<1> USE DEF FilingInv, rowVars, copyVars
<1>1. FilingTypeOK'
  BY DEF FilingTypeOK
<1>2. SnapshotsNumbered' /\ FormsFitTheirType' /\ SubmissionIsRecorded'
  BY DEF SnapshotsNumbered, FormsFitTheirType, SubmissionIsRecorded
<1>3. CopiesFit' /\ PreviousIsRecorded'
  BY DEF CopiesFit, PreviousIsRecorded, IsRecorded
<1>4. QED BY <1>1, <1>2, <1>3

(* Whatever the taxpayers' calls and the staff do, the filings keep         *)
(* FilingInv.                                                               *)
LEMMA FilingNextInv ==
    ASSUME FilingInv, FilingNext
    PROVE  FilingInv'
  BY CreateInv, TakeInv, ReadPreviousInv, SaveInv, SaveFailsInv, StaffMoveInv DEF FilingNext
=============================================================================

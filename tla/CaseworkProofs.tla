--------------------------- MODULE CaseworkProofs ---------------------------
(***************************************************************************)
(* What the tables of filings, visits and decisions guarantee for any      *)
(* number of filings, visits, calls and members of staff, wherever a call  *)
(* stops and whichever calls overlap.                                      *)
(*                                                                         *)
(* Two invariants are kept side by side, because a call either works on a  *)
(* filing or on the office's own tables.  FilingInv says what a call holds *)
(* between its statements: the form it will save is of the type declared,  *)
(* snapshots are numbered 1, 2, 3, ... so that the last one is the form on *)
(* record, and a call that believes the filing no draft has a history that *)
(* says it was submitted.  DutyInv says what the statements a call has committed    *)
(* leave behind for its next one.                                          *)
(***************************************************************************)
EXTENDS Casework, FilingsProofs

Duty == [visit : Visits \cup {NoVisit}, crew : SUBSET Staff, report : Reports \cup {NoReport},
         request : AddressNotices \cup {NoFiling}, outcome : Outcomes \cup {"none"}, number : Nat]

(* The variables of the office hold what TypeOK says. *)
OfficeTypeOK ==
    /\ visit \in [Visits -> {"none", "scheduled", "completed", "cancelled"}]
    /\ parent \in [Visits -> Filed \cup {NoFiling}]
    /\ scheduled \subseteq Visits
    /\ team \in [Visits -> SUBSET Staff]
    /\ actual \in [Visits -> Reports \cup {NoReport}]
    /\ result \in [Visits -> Reports \cup {NoReport}]
    /\ decision \in [AddressNotices -> Outcomes \cup {"none"}]
    /\ revisions \in [AddressNotices -> Seq(1 .. MaxRevisions + 1)]
    /\ told \in [AddressNotices -> SUBSET Outcomes]

(* What a call about a visit carries, and has committed. *)
VisitsInOrder ==
    \A c \in Calls :
        /\ at[c] \in {"scheduling", "staffing", "completing", "reporting", "cancelling"} =>
              duty[c].visit \in Visits
        /\ at[c] = "staffing" => duty[c].visit \in scheduled
        /\ at[c] \in {"completing", "reporting"} => duty[c].report \in Reports
        /\ \A v \in Visits : at[c] = "reporting" /\ duty[c].visit = v =>
              actual[v] # NoReport /\ visit[v] \in {"completed", "cancelled"}

(* What a call about a decision carries. *)
DecisionsInOrder ==
    \A c \in Calls :
        /\ at[c] \in {"deciding", "revising"} => duty[c].request \in AddressNotices
        /\ at[c] = "deciding" => duty[c].outcome \in Outcomes
        /\ at[c] = "revising" => duty[c].number \in 1 .. MaxRevisions + 1

RevisionsAreFew == \A f \in AddressNotices : Len(revisions[f]) <= MaxRevisions

DutyInv ==
    /\ OfficeTypeOK /\ duty \in [Calls -> Duty]
    /\ VisitsInOrder /\ DecisionsInOrder /\ RevisionsAreFew
    /\ EvidenceIsInOrder /\ DecisionStands

-----------------------------------------------------------------------------
LEMMA DutyInitInv == Init => DutyInv
<1> SUFFICES ASSUME Init PROVE DutyInv
  OBVIOUS
<1> USE CaseworkAssumption DEF Init, FilingInit
<1>1. OfficeTypeOK
  BY DEF OfficeTypeOK
<1>2. duty \in [Calls -> Duty]
  BY DEF Duty, NoDuty
<1>3. VisitsInOrder /\ DecisionsInOrder
  BY DEF VisitsInOrder, DecisionsInOrder
<1>4. RevisionsAreFew /\ EvidenceIsInOrder /\ DecisionStands
  BY DEF RevisionsAreFew, EvidenceIsInOrder, DecisionStands
<1>5. QED BY <1>1, <1>2, <1>3, <1>4 DEF DutyInv

(* The taxpayers' calls leave the office's tables alone, and do not make a  *)
(* call one of the office's.                                                *)
LEMMA DutyFrame ==
    ASSUME DutyInv, UNCHANGED <<visitVars, decisionVars, duty>>,
           \A c \in Calls : at'[c] \notin {"idle", "saving", "writing"} => at'[c] = at[c]
    PROVE  DutyInv'
<1> USE DEF DutyInv, visitVars, decisionVars
<1>1. OfficeTypeOK'
  BY DEF OfficeTypeOK
<1>2. VisitsInOrder' /\ DecisionsInOrder'
  BY DEF VisitsInOrder, DecisionsInOrder
<1>3. RevisionsAreFew' /\ EvidenceIsInOrder' /\ DecisionStands'
  BY DEF RevisionsAreFew, EvidenceIsInOrder, DecisionStands
<1>4. QED BY <1>1, <1>2, <1>3

(* Only what a call is about is touched when it begins, goes on or ends. *)
LEMMA TaxpayerCallsStay ==
    ASSUME FilingInv, FilingNext
    PROVE  \A c \in Calls : at'[c] \notin {"idle", "saving", "writing"} => at'[c] = at[c]
<1> USE DEF FilingInv
<1>1. CASE \E f \in Filed : \E form \in Forms(f) : \E type \in TypesFiled \cup {Notice} :
             Create(f, type, form)
  BY <1>1 DEF Create
<1>2. CASE \E c \in Calls, f \in Filed :
             Submit(c, f) \/ \E form \in Forms(f) : Edit(c, f, form)
  BY <1>2 DEF Submit, Edit, Take, Goto
<1>3. CASE \E c \in Calls : ReadPrevious(c) \/ Save(c) \/ SaveFails(c)
  BY <1>3 DEF ReadPrevious, Save, SaveFails, Rest, Goto
<1>4. CASE \E f \in AddressNotices, to \in Status : StaffMove(f, to)
  BY <1>4 DEF StaffMove
<1>5. QED BY <1>1, <1>2, <1>3, <1>4 DEF FilingNext

(* A call of the office begins with what it carries, goes on, or ends. *)
LEMMA Begun ==
    ASSUME FilingInv, DutyInv, NEW c \in Calls, NEW where \in At, NEW what \in Duty,
           where \notin {"saving", "writing"}, Begin(c, where, what)
    PROVE  /\ at[c] = "idle" /\ at' = [at EXCEPT ![c] = where]
           /\ at' \in [Calls -> At] /\ duty' \in [Calls -> Duty]
           /\ at'[c] = where /\ duty'[c] = what
           /\ \A d \in Calls : d # c => at'[d] = at[d] /\ duty'[d] = duty[d]
  BY DEF Begin, Goto, FilingInv, DutyInv

LEMMA Finished ==
    ASSUME FilingInv, DutyInv, NEW c \in Calls, Finish(c)
    PROVE  /\ at' \in [Calls -> At] /\ duty' \in [Calls -> Duty]
           /\ at'[c] = "idle"
           /\ \A d \in Calls : d # c => at'[d] = at[d] /\ duty'[d] = duty[d]
<1>1. NoDuty \in Duty
  BY DEF NoDuty, Duty
<1>2. QED BY <1>1 DEF Finish, Goto, FilingInv, DutyInv, At

(* scheduleVisit, statement by statement. *)
LEMMA SchedulingInv ==
    ASSUME FilingInv, DutyInv, NEW c \in Calls,
           \/ \E v \in Visits, f \in Filed, crew \in SUBSET Staff : CreateVisit(c, v, f, crew)
           \/ CreateSchedule(c)
           \/ \E s \in Staff : AddTeamMember(c, s)
    PROVE  DutyInv' /\ at' \in [Calls -> At]
           /\ \A d \in Calls : at'[d] \in {"saving", "writing"} => at'[d] = at[d]
<1> USE DEF decisionVars
<1>1. /\ OfficeTypeOK /\ duty \in [Calls -> Duty]
      /\ VisitsInOrder /\ DecisionsInOrder /\ RevisionsAreFew
      /\ EvidenceIsInOrder /\ DecisionStands
  BY DEF DutyInv
<1>2. CASE \E v \in Visits, f \in Filed, crew \in SUBSET Staff : CreateVisit(c, v, f, crew)
  <2>1. PICK v \in Visits, f \in Filed, crew \in SUBSET Staff : CreateVisit(c, v, f, crew)
    BY <1>2
  <2>2. PICK what \in Duty : what.visit = v /\ Begin(c, "scheduling", what)
    <3>1. [NoDuty EXCEPT !.visit = v, !.crew = crew] \in Duty
          /\ [NoDuty EXCEPT !.visit = v, !.crew = crew].visit = v
      BY DEF Duty, NoDuty
    <3>2. QED BY <2>1, <3>1 DEF CreateVisit
  <2>3. "scheduling" \in At /\ "scheduling" \notin {"saving", "writing"}
    BY DEF At
  <2>4. /\ at' \in [Calls -> At] /\ duty' \in [Calls -> Duty]
        /\ at'[c] = "scheduling" /\ duty'[c] = what
        /\ \A d \in Calls : d # c => at'[d] = at[d] /\ duty'[d] = duty[d]
    BY <2>2, <2>3, Begun
  <2>5. /\ visit[v] = "none"
        /\ visit' = [visit EXCEPT ![v] = "scheduled"] /\ parent' = [parent EXCEPT ![v] = f]
        /\ UNCHANGED <<scheduled, team, actual, result, decision, revisions, told>>
    BY <2>1 DEF CreateVisit
  <2>6. OfficeTypeOK'
    BY <1>1, <2>5 DEF OfficeTypeOK
  <2>7. VisitsInOrder' /\ DecisionsInOrder'
    BY <1>1, <2>2, <2>4, <2>5 DEF VisitsInOrder, DecisionsInOrder
  <2>8. RevisionsAreFew' /\ EvidenceIsInOrder' /\ DecisionStands'
    BY <1>1, <2>5 DEF RevisionsAreFew, EvidenceIsInOrder, DecisionStands, OfficeTypeOK
  <2>9. QED BY <2>4, <2>6, <2>7, <2>8 DEF DutyInv
<1>3. CASE CreateSchedule(c)
  <2>1. /\ at[c] = "scheduling" /\ duty[c].visit \in Visits
        /\ scheduled' = scheduled \cup {duty[c].visit}
        /\ UNCHANGED <<visit, parent, team, actual, result, decision, revisions, told>>
    BY <1>1, <1>3 DEF CreateSchedule, VisitsInOrder
  <2>2. /\ at' \in [Calls -> At] /\ duty' \in [Calls -> Duty]
        /\ at'[c] = "idle" \/ (at'[c] = "staffing" /\ duty'[c] = duty[c])
        /\ \A d \in Calls : d # c => at'[d] = at[d] /\ duty'[d] = duty[d]
    <3>1. CASE Finish(c)
      BY <3>1, Finished
    <3>2. CASE Goto(c, "staffing") /\ UNCHANGED duty
      BY <1>1, <3>2 DEF Goto, FilingInv, At
    <3>3. QED BY <1>3, <3>1, <3>2 DEF CreateSchedule
  <2>3. OfficeTypeOK'
    BY <1>1, <2>1 DEF OfficeTypeOK
  <2>4. VisitsInOrder' /\ DecisionsInOrder'
    BY <1>1, <2>1, <2>2 DEF VisitsInOrder, DecisionsInOrder
  <2>5. RevisionsAreFew' /\ EvidenceIsInOrder' /\ DecisionStands'
    BY <1>1, <2>1 DEF RevisionsAreFew, EvidenceIsInOrder, DecisionStands, OfficeTypeOK
  <2>6. QED BY <2>2, <2>3, <2>4, <2>5 DEF DutyInv
<1>4. CASE \E s \in Staff : AddTeamMember(c, s)
  <2>1. PICK s \in Staff : AddTeamMember(c, s)
    BY <1>4
  <2>2. PICK v \in Visits : duty[c].visit = v /\ v \in scheduled /\ at[c] = "staffing"
    BY <1>1, <2>1 DEF AddTeamMember, VisitsInOrder
  <2>3. /\ team' = [team EXCEPT ![v] = @ \cup {s}]
        /\ UNCHANGED <<visit, parent, scheduled, actual, result, decision, revisions, told>>
    BY <2>1, <2>2 DEF AddTeamMember
  <2>4. /\ at' \in [Calls -> At] /\ duty' \in [Calls -> Duty]
        /\ at'[c] = "idle" \/ (at'[c] = "staffing" /\ duty'[c].visit = v)
        /\ \A d \in Calls : d # c => at'[d] = at[d] /\ duty'[d] = duty[d]
    <3>1. CASE Finish(c)
      BY <3>1, Finished
    <3>2. CASE duty' = [duty EXCEPT ![c].crew = @ \ {s}] /\ UNCHANGED at
      <4>1. PICK what \in Duty : what.visit = v /\ duty' = [duty EXCEPT ![c] = what]
        <5>1. duty[c] \in Duty
          BY <1>1
        <5>2. [duty[c] EXCEPT !.crew = @ \ {s}] \in Duty
              /\ [duty[c] EXCEPT !.crew = @ \ {s}].visit = v
          BY <2>2, <5>1 DEF Duty
        <5>3. duty' = [duty EXCEPT ![c] = [duty[c] EXCEPT !.crew = @ \ {s}]]
          BY <1>1, <3>2
        <5>4. QED BY <5>2, <5>3
      <4>2. QED BY <1>1, <2>2, <3>2, <4>1 DEF FilingInv
    <3>3. QED BY <2>1, <3>1, <3>2 DEF AddTeamMember
  <2>5. OfficeTypeOK'
    BY <1>1, <2>3 DEF OfficeTypeOK
  <2>6. VisitsInOrder' /\ DecisionsInOrder'
    BY <1>1, <2>2, <2>3, <2>4 DEF VisitsInOrder, DecisionsInOrder
  <2>7. RevisionsAreFew' /\ EvidenceIsInOrder' /\ DecisionStands'
    BY <1>1, <2>2, <2>3 DEF RevisionsAreFew, EvidenceIsInOrder, DecisionStands, OfficeTypeOK
  <2>8. QED BY <2>4, <2>5, <2>6, <2>7 DEF DutyInv
<1>5. QED BY <1>2, <1>3, <1>4

(* recordVisitResult and the cancellation of a visit. *)
LEMMA ReportingInv ==
    ASSUME FilingInv, DutyInv, NEW c \in Calls,
           \/ \E v \in Visits : \/ FindVisitToCancel(c, v)
                                \/ \E report \in Reports : FindVisit(c, v, report)
           \/ CompleteVisit(c) \/ RecordResult(c) \/ CancelVisit(c)
    PROVE  DutyInv' /\ at' \in [Calls -> At]
           /\ \A d \in Calls : at'[d] \in {"saving", "writing"} => at'[d] = at[d]
<1> USE DEF decisionVars, visitVars
<1>1. /\ OfficeTypeOK /\ duty \in [Calls -> Duty]
      /\ VisitsInOrder /\ DecisionsInOrder /\ RevisionsAreFew
      /\ EvidenceIsInOrder /\ DecisionStands
  BY DEF DutyInv
<1>2. CASE \E v \in Visits : \/ FindVisitToCancel(c, v)
                             \/ \E report \in Reports : FindVisit(c, v, report)
  <2>1. PICK where \in {"cancelling", "completing"}, what \in Duty :
          /\ what.visit \in Visits /\ (where = "completing" => what.report \in Reports)
          /\ Begin(c, where, what) /\ UNCHANGED <<visitVars, decisionVars>>
    <3>1. ASSUME NEW v \in Visits, FindVisitToCancel(c, v)
          PROVE  \E what \in Duty : /\ what.visit \in Visits /\ Begin(c, "cancelling", what)
                                    /\ UNCHANGED <<visitVars, decisionVars>>
      <4>1. [NoDuty EXCEPT !.visit = v] \in Duty /\ [NoDuty EXCEPT !.visit = v].visit = v
        BY DEF Duty, NoDuty
      <4>2. QED BY <3>1, <4>1 DEF FindVisitToCancel
    <3>2. ASSUME NEW v \in Visits, NEW report \in Reports, FindVisit(c, v, report)
          PROVE  \E what \in Duty : /\ what.visit \in Visits /\ what.report \in Reports
                                    /\ Begin(c, "completing", what)
                                    /\ UNCHANGED <<visitVars, decisionVars>>
      <4>1. /\ [NoDuty EXCEPT !.visit = v, !.report = report] \in Duty
            /\ [NoDuty EXCEPT !.visit = v, !.report = report].visit = v
            /\ [NoDuty EXCEPT !.visit = v, !.report = report].report = report
        BY DEF Duty, NoDuty
      <4>2. QED BY <3>2, <4>1 DEF FindVisit
    <3>3. QED BY <1>2, <3>1, <3>2
  <2>2. where \in At /\ where \notin {"saving", "writing"}
    BY DEF At
  <2>3. /\ at' \in [Calls -> At] /\ duty' \in [Calls -> Duty]
        /\ at'[c] = where /\ duty'[c] = what
        /\ \A d \in Calls : d # c => at'[d] = at[d] /\ duty'[d] = duty[d]
    BY <2>1, <2>2, Begun
  <2>4. OfficeTypeOK'
    BY <1>1, <2>1 DEF OfficeTypeOK
  <2>5. VisitsInOrder' /\ DecisionsInOrder'
    BY <1>1, <2>1, <2>3 DEF VisitsInOrder, DecisionsInOrder
  <2>6. RevisionsAreFew' /\ EvidenceIsInOrder' /\ DecisionStands'
    BY <1>1, <2>1 DEF RevisionsAreFew, EvidenceIsInOrder, DecisionStands
  <2>7. QED BY <2>2, <2>3, <2>4, <2>5, <2>6 DEF DutyInv
<1>3. CASE CompleteVisit(c)
  <2>1. PICK v \in Visits, report \in Reports :
          at[c] = "completing" /\ duty[c].visit = v /\ duty[c].report = report
    BY <1>1, <1>3 DEF CompleteVisit, VisitsInOrder
  <2>2. /\ visit' = [visit EXCEPT ![v] = "completed"] /\ actual' = [actual EXCEPT ![v] = report]
        /\ UNCHANGED <<parent, scheduled, team, result, decision, revisions, told, duty>>
    BY <1>3, <2>1 DEF CompleteVisit
  <2>3. /\ at' \in [Calls -> At] /\ at'[c] = "reporting"
        /\ \A d \in Calls : d # c => at'[d] = at[d]
    BY <1>3 DEF CompleteVisit, Goto, FilingInv, At
  <2>4. OfficeTypeOK'
    BY <1>1, <2>2 DEF OfficeTypeOK
  <2>5. \A w \in Visits :
          /\ actual[w] # NoReport => actual'[w] # NoReport
          /\ visit[w] \in {"completed", "cancelled"} => visit'[w] \in {"completed", "cancelled"}
          /\ w = v => actual'[w] # NoReport /\ visit'[w] \in {"completed", "cancelled"}
    BY <1>1, <2>2, CaseworkAssumption DEF OfficeTypeOK
  <2>6. VisitsInOrder' /\ DecisionsInOrder'
    BY <1>1, <2>1, <2>2, <2>3, <2>5 DEF VisitsInOrder, DecisionsInOrder
  <2>7. RevisionsAreFew' /\ EvidenceIsInOrder' /\ DecisionStands'
    BY <1>1, <2>2, <2>5 DEF RevisionsAreFew, EvidenceIsInOrder, DecisionStands
  <2>8. QED BY <1>1, <2>2, <2>3, <2>4, <2>6, <2>7 DEF DutyInv
<1>4. CASE RecordResult(c)
  <2>1. PICK v \in Visits, report \in Reports :
          /\ at[c] = "reporting" /\ duty[c].visit = v /\ duty[c].report = report
          /\ actual[v] # NoReport /\ visit[v] \in {"completed", "cancelled"}
    BY <1>1, <1>4 DEF RecordResult, VisitsInOrder
  <2>2. /\ \E r \in Reports \cup {NoReport} : result' = [result EXCEPT ![v] = r]
        /\ UNCHANGED <<visit, parent, scheduled, team, actual, decision, revisions, told>>
    BY <1>1, <1>4, <2>1 DEF RecordResult, OfficeTypeOK
  <2>3. /\ at' \in [Calls -> At] /\ duty' \in [Calls -> Duty] /\ at'[c] = "idle"
        /\ \A d \in Calls : d # c => at'[d] = at[d] /\ duty'[d] = duty[d]
    BY <1>4, Finished DEF RecordResult
  <2>4. OfficeTypeOK'
    BY <1>1, <2>2 DEF OfficeTypeOK
  <2>5. VisitsInOrder' /\ DecisionsInOrder'
    BY <1>1, <2>2, <2>3 DEF VisitsInOrder, DecisionsInOrder
  <2>6. EvidenceIsInOrder'
    BY <1>1, <2>1, <2>2 DEF EvidenceIsInOrder, OfficeTypeOK
  <2>7. RevisionsAreFew' /\ DecisionStands'
    BY <1>1, <2>2 DEF RevisionsAreFew, DecisionStands
  <2>8. QED BY <2>3, <2>4, <2>5, <2>6, <2>7 DEF DutyInv
<1>5. CASE CancelVisit(c)
  <2>1. PICK v \in Visits : at[c] = "cancelling" /\ duty[c].visit = v
    BY <1>1, <1>5 DEF CancelVisit, VisitsInOrder
  <2>2. /\ visit' = [visit EXCEPT ![v] = "cancelled"]
        /\ UNCHANGED <<parent, scheduled, team, actual, result, decision, revisions, told>>
    BY <1>5, <2>1 DEF CancelVisit
  <2>3. /\ at' \in [Calls -> At] /\ duty' \in [Calls -> Duty] /\ at'[c] = "idle"
        /\ \A d \in Calls : d # c => at'[d] = at[d] /\ duty'[d] = duty[d]
    BY <1>5, Finished DEF CancelVisit
  <2>4. OfficeTypeOK'
    BY <1>1, <2>2 DEF OfficeTypeOK
  <2>5. \A w \in Visits :
          visit[w] \in {"completed", "cancelled"} => visit'[w] \in {"completed", "cancelled"}
    BY <1>1, <2>2 DEF OfficeTypeOK
  <2>6. VisitsInOrder' /\ DecisionsInOrder'
    BY <1>1, <2>2, <2>3, <2>5 DEF VisitsInOrder, DecisionsInOrder
  <2>7. RevisionsAreFew' /\ EvidenceIsInOrder' /\ DecisionStands'
    BY <1>1, <2>2, <2>5 DEF RevisionsAreFew, EvidenceIsInOrder, DecisionStands
  <2>8. QED BY <2>3, <2>4, <2>6, <2>7 DEF DutyInv
<1>6. QED BY <1>2, <1>3, <1>4, <1>5

(* recordDecision and reviseDecision. *)
LEMMA DecidingInv ==
    ASSUME FilingInv, DutyInv, NEW c \in Calls, Deciding(c)
    PROVE  DutyInv' /\ at' \in [Calls -> At]
           /\ \A d \in Calls : at'[d] \in {"saving", "writing"} => at'[d] = at[d]
<1> USE CaseworkAssumption DEF decisionVars, visitVars
<1>1. /\ OfficeTypeOK /\ duty \in [Calls -> Duty]
      /\ VisitsInOrder /\ DecisionsInOrder /\ RevisionsAreFew
      /\ EvidenceIsInOrder /\ DecisionStands
  BY DEF DutyInv
<1>2. CASE \E f \in AddressNotices :
             ListRevisions(c, f) \/ \E outcome \in Outcomes : FindNoDecision(c, f, outcome)
  <2>1. PICK where \in {"deciding", "revising"}, what \in Duty :
          /\ what.request \in AddressNotices
          /\ where = "deciding" => what.outcome \in Outcomes
          /\ where = "revising" => what.number \in 1 .. MaxRevisions + 1
          /\ Begin(c, where, what) /\ UNCHANGED <<visitVars, decisionVars>>
    <3>1. ASSUME NEW f \in AddressNotices, ListRevisions(c, f)
          PROVE  \E what \in Duty :
                   /\ what.request \in AddressNotices /\ what.number \in 1 .. MaxRevisions + 1
                   /\ Begin(c, "revising", what) /\ UNCHANGED <<visitVars, decisionVars>>
      <4> DEFINE n == Len(revisions[f]) + 1
      <4>1. n \in 1 .. MaxRevisions + 1 /\ n \in Nat
        <5>1. revisions[f] \in Seq(1 .. MaxRevisions + 1) /\ Len(revisions[f]) <= MaxRevisions
          BY <1>1 DEF OfficeTypeOK, RevisionsAreFew
        <5>2. QED BY <5>1
      <4>2. /\ [NoDuty EXCEPT !.request = f, !.number = n] \in Duty
            /\ [NoDuty EXCEPT !.request = f, !.number = n].request = f
            /\ [NoDuty EXCEPT !.request = f, !.number = n].number = n
        BY <4>1 DEF Duty, NoDuty
      <4>3. QED BY <3>1, <4>1, <4>2 DEF ListRevisions
    <3>2. ASSUME NEW f \in AddressNotices, NEW outcome \in Outcomes, FindNoDecision(c, f, outcome)
          PROVE  \E what \in Duty :
                   /\ what.request \in AddressNotices /\ what.outcome \in Outcomes
                   /\ Begin(c, "deciding", what) /\ UNCHANGED <<visitVars, decisionVars>>
      <4>1. /\ [NoDuty EXCEPT !.request = f, !.outcome = outcome] \in Duty
            /\ [NoDuty EXCEPT !.request = f, !.outcome = outcome].request = f
            /\ [NoDuty EXCEPT !.request = f, !.outcome = outcome].outcome = outcome
        BY DEF Duty, NoDuty
      <4>2. QED BY <3>2, <4>1 DEF FindNoDecision
    <3>3. QED BY <1>2, <3>1, <3>2
  <2>2. where \in At /\ where \notin {"saving", "writing"}
    BY DEF At
  <2>3. /\ at' \in [Calls -> At] /\ duty' \in [Calls -> Duty]
        /\ at'[c] = where /\ duty'[c] = what
        /\ \A d \in Calls : d # c => at'[d] = at[d] /\ duty'[d] = duty[d]
    BY <2>1, <2>2, Begun
  <2>4. OfficeTypeOK'
    BY <1>1, <2>1 DEF OfficeTypeOK
  <2>5. VisitsInOrder' /\ DecisionsInOrder'
    BY <1>1, <2>1, <2>3 DEF VisitsInOrder, DecisionsInOrder
  <2>6. RevisionsAreFew' /\ EvidenceIsInOrder' /\ DecisionStands'
    BY <1>1, <2>1 DEF RevisionsAreFew, EvidenceIsInOrder, DecisionStands
  <2>7. QED BY <2>2, <2>3, <2>4, <2>5, <2>6 DEF DutyInv
<1>3. CASE CreateDecision(c)
  <2>1. PICK f \in AddressNotices, outcome \in Outcomes :
          at[c] = "deciding" /\ duty[c].request = f /\ duty[c].outcome = outcome
    BY <1>1, <1>3 DEF CreateDecision, DecisionsInOrder
  <2>2. UNCHANGED <<visit, parent, scheduled, team, actual, result, revisions>>
    BY <1>3 DEF CreateDecision
  <2>3. /\ at' \in [Calls -> At] /\ duty' \in [Calls -> Duty] /\ at'[c] = "idle"
        /\ \A d \in Calls : d # c => at'[d] = at[d] /\ duty'[d] = duty[d]
    BY <1>3, Finished DEF CreateDecision
  <2>4. VisitsInOrder' /\ DecisionsInOrder' /\ RevisionsAreFew' /\ EvidenceIsInOrder'
    BY <1>1, <2>2, <2>3
       DEF VisitsInOrder, DecisionsInOrder, RevisionsAreFew, EvidenceIsInOrder
  <2>5. CASE UNCHANGED <<decision, told>>
    <3>1. OfficeTypeOK' /\ DecisionStands'
      BY <1>1, <2>2, <2>5 DEF OfficeTypeOK, DecisionStands
    <3>2. QED BY <2>3, <2>4, <3>1 DEF DutyInv
  <2>6. CASE decision[f] = "none" /\ decision' = [decision EXCEPT ![f] = outcome] /\ Tell(c)
    <3>1. \/ told' = [told EXCEPT ![f] = told[f] \cup {outcome}]
          \/ told' = told
      BY <2>1, <2>6 DEF Tell
    <3>2. told[f] = {}
      BY <1>1, <2>6 DEF OfficeTypeOK, DecisionStands, Outcomes
    <3>3. OfficeTypeOK'
      <4>1. decision' \in [AddressNotices -> Outcomes \cup {"none"}]
        BY <1>1, <2>6 DEF OfficeTypeOK
      <4>2. told' \in [AddressNotices -> SUBSET Outcomes]
        BY <1>1, <3>1 DEF OfficeTypeOK
      <4>3. QED BY <1>1, <2>2, <4>1, <4>2 DEF OfficeTypeOK
    <3>4. DecisionStands'
      <4>1. SUFFICES ASSUME NEW g \in AddressNotices PROVE told'[g] \subseteq {decision'[g]}
        BY DEF DecisionStands
      <4>2. CASE g = f
        BY <1>1, <2>6, <3>1, <3>2, <4>2 DEF OfficeTypeOK
      <4>3. CASE g # f
        BY <1>1, <2>6, <3>1, <4>3 DEF OfficeTypeOK, DecisionStands
      <4>4. QED BY <4>2, <4>3
    <3>5. QED BY <2>3, <2>4, <3>3, <3>4 DEF DutyInv
  <2>7. QED BY <1>3, <2>1, <2>5, <2>6 DEF CreateDecision
<1>4. CASE CreateRevision(c)
  <2>1. PICK f \in AddressNotices, n \in 1 .. MaxRevisions + 1 :
          at[c] = "revising" /\ duty[c].request = f /\ duty[c].number = n
    BY <1>1, <1>4 DEF CreateRevision, DecisionsInOrder
  <2>2. /\ Len(revisions[f]) < MaxRevisions
        /\ revisions' = [revisions EXCEPT ![f] = Append(revisions[f], n)]
        /\ UNCHANGED <<visit, parent, scheduled, team, actual, result, decision, told>>
    BY <1>4, <2>1 DEF CreateRevision
  <2>3. /\ at' \in [Calls -> At] /\ duty' \in [Calls -> Duty] /\ at'[c] = "idle"
        /\ \A d \in Calls : d # c => at'[d] = at[d] /\ duty'[d] = duty[d]
    BY <1>4, Finished DEF CreateRevision
  <2>4. /\ Append(revisions[f], n) \in Seq(1 .. MaxRevisions + 1)
        /\ Len(Append(revisions[f], n)) = Len(revisions[f]) + 1 /\ Len(revisions[f]) \in Nat
    <3>1. revisions[f] \in Seq(1 .. MaxRevisions + 1)
      BY <1>1 DEF OfficeTypeOK
    <3>2. QED BY <3>1, Appended
  <2>5. OfficeTypeOK'
    BY <1>1, <2>2, <2>4 DEF OfficeTypeOK
  <2>6. RevisionsAreFew'
    <3>1. SUFFICES ASSUME NEW g \in AddressNotices PROVE Len(revisions'[g]) <= MaxRevisions
      BY DEF RevisionsAreFew
    <3>2. CASE g = f
      <4>1. revisions'[g] = Append(revisions[f], n)
        BY <1>1, <2>2, <3>2 DEF OfficeTypeOK
      <4>2. QED BY <2>2, <2>4, <4>1
    <3>3. CASE g # f
      BY <1>1, <2>2, <3>3 DEF OfficeTypeOK, RevisionsAreFew
    <3>4. QED BY <3>2, <3>3
  <2>7. VisitsInOrder' /\ DecisionsInOrder' /\ EvidenceIsInOrder' /\ DecisionStands'
    BY <1>1, <2>2, <2>3
       DEF VisitsInOrder, DecisionsInOrder, EvidenceIsInOrder, DecisionStands
  <2>8. QED BY <2>3, <2>5, <2>6, <2>7 DEF DutyInv
<1>5. QED BY <1>2, <1>3, <1>4 DEF Deciding

(* A call that stops leaves what it has committed. *)
LEMMA DutyFailsInv ==
    ASSUME FilingInv, DutyInv, NEW c \in Calls, DutyFails(c)
    PROVE  DutyInv' /\ at' \in [Calls -> At]
           /\ \A d \in Calls : at'[d] \in {"saving", "writing"} => at'[d] = at[d]
<1>1. /\ at' \in [Calls -> At] /\ duty' \in [Calls -> Duty] /\ at'[c] = "idle"
      /\ \A d \in Calls : d # c => at'[d] = at[d] /\ duty'[d] = duty[d]
  BY Finished DEF DutyFails
<1>2. UNCHANGED <<visitVars, decisionVars>>
  BY DEF DutyFails
<1> USE DEF visitVars, decisionVars, DutyInv
<1>3. OfficeTypeOK'
  BY <1>2 DEF OfficeTypeOK
<1>4. VisitsInOrder' /\ DecisionsInOrder'
  BY <1>1, <1>2 DEF VisitsInOrder, DecisionsInOrder
<1>5. RevisionsAreFew' /\ EvidenceIsInOrder' /\ DecisionStands'
  BY <1>2 DEF RevisionsAreFew, EvidenceIsInOrder, DecisionStands
<1>6. QED BY <1>1, <1>3, <1>4, <1>5

-----------------------------------------------------------------------------
(* The office writes to no table of the filings. *)
LEMMA OfficeLeavesFilings ==
    ASSUME NEW c \in Calls, Visiting(c) \/ Deciding(c) \/ DutyFails(c)
    PROVE  UNCHANGED <<rowVars, copyVars>>
<1>1. CASE Visiting(c)
  BY <1>1
     DEF Visiting, CreateVisit, CreateSchedule, AddTeamMember, FindVisitToCancel, FindVisit,
         CompleteVisit, RecordResult, CancelVisit
<1>2. CASE Deciding(c)
  BY <1>2 DEF Deciding, ListRevisions, FindNoDecision, CreateDecision, CreateRevision
<1>3. CASE DutyFails(c)
  BY <1>3 DEF DutyFails
<1>4. QED BY <1>1, <1>2, <1>3

LEMMA NextInv == FilingInv /\ DutyInv /\ [Next]_vars => FilingInv' /\ DutyInv'
<1> SUFFICES ASSUME FilingInv, DutyInv, [Next]_vars PROVE FilingInv' /\ DutyInv'
  OBVIOUS
<1>1. CASE FilingNext /\ UNCHANGED <<visitVars, decisionVars, duty>>
  BY <1>1, FilingNextInv, TaxpayerCallsStay, DutyFrame
<1>2. ASSUME NEW c \in Calls, Visiting(c) \/ Deciding(c) \/ DutyFails(c)
      PROVE  FilingInv' /\ DutyInv'
  <2>1. UNCHANGED <<rowVars, copyVars>>
    BY <1>2, OfficeLeavesFilings
  <2>2. DutyInv' /\ at' \in [Calls -> At]
        /\ \A d \in Calls : at'[d] \in {"saving", "writing"} => at'[d] = at[d]
    BY <1>2, SchedulingInv, ReportingInv, DecidingInv, DutyFailsInv DEF Visiting
  <2>3. QED BY <2>1, <2>2, FilingFrame
<1>3. CASE UNCHANGED vars
  <2>1. UNCHANGED <<rowVars, copyVars, at, visitVars, decisionVars, duty>>
    BY <1>3 DEF vars, filingVars
  <2>2. at' \in [Calls -> At]
    BY <2>1 DEF FilingInv
  <2>3. QED BY <2>1, <2>2, FilingFrame, DutyFrame
<1>4. QED BY <1>1, <1>2, <1>3 DEF Next

(* In every reachable state the filings keep FilingInv and the office keeps *)
(* DutyInv.                                                                 *)
THEOREM CaseworkInvariant == Spec => [](FilingInv /\ DutyInv)
<1>1. Init => FilingInv /\ DutyInv
  BY FilingInitInv, DutyInitInv DEF Init
<1>2. QED BY <1>1, NextInv, PTL DEF Spec

(* The tables, and the calls at work on them, are well typed. *)
THEOREM TypeCorrect == Spec => []TypeOK
<1>1. FilingInv /\ DutyInv => TypeOK
  BY DEF FilingInv, DutyInv, OfficeTypeOK, TypeOK, At
<1>2. QED BY <1>1, CaseworkInvariant, PTL

(* Every form on record is of the type that was declared, whichever edits   *)
(* and submissions overlap.                                                 *)
THEOREM FormsAreOfTheirType == Spec => []FormsFitTheirType
  BY CaseworkInvariant, PTL DEF FilingInv

(* A filing that is no draft has a history that says it was submitted,      *)
(* although save() reads the previous status before the row is locked, and  *)
(* the staff may move the filing meanwhile.                                 *)
THEOREM SubmissionsAreRecorded == Spec => []SubmissionIsRecorded
  BY CaseworkInvariant, PTL DEF FilingInv

(* A team has a schedule and a result has a visit that was held, although   *)
(* nothing of it is done in one transaction.                                *)
THEOREM EvidenceStands == Spec => []EvidenceIsInOrder
  BY CaseworkInvariant, PTL DEF DutyInv

(* Of two members of staff who decide at once, only the one whose decision  *)
(* is on record is told so.                                                 *)
THEOREM OneDecision == Spec => []DecisionStands
  BY CaseworkInvariant, PTL DEF DutyInv

-----------------------------------------------------------------------------
(***************************************************************************)
(* While calls about one filing, or about one visit, do not overlap, and   *)
(* the staff moves no notice a call is at work on, what a call has read is *)
(* still so when it writes: DraftsHold for the calls of the taxpayers,     *)
(* VisitsHold for those of the office.                                     *)
(***************************************************************************)
DraftsHold == \A c \in Calls : at[c] \in {"saving", "writing"} => status[on[c]] = "draft"

VisitsHold ==
    /\ \A c \in Calls, v \in Visits : duty[c].visit = v =>
          /\ at[c] \in {"completing", "cancelling"} => visit[v] = "scheduled"
          /\ at[c] = "reporting" => visit[v] = "completed" /\ actual[v] = duty[c].report
    /\ OneReport

(* Save needs filings apart, and StaffMove the staff apart from the calls.  *)
LEMMA DraftsStep ==
    ASSUME FilingInv, DraftsHold, CallsApart, StaffApart, FilingNext
    PROVE  DraftsHold' /\ SubmittedKept
<1> USE DEF FilingInv
<1>1. ASSUME NEW f \in Filed, NEW form \in Forms(f), NEW type \in TypesFiled \cup {Notice},
             Create(f, type, form)
      PROVE  DraftsHold' /\ SubmittedKept
  <2>1. /\ status[f] = "none" /\ UNCHANGED <<at, on>>
        /\ status' = [status EXCEPT ![f] = "draft"]
        /\ \E s : snapshots' = [snapshots EXCEPT ![f] = s]
        /\ \E h : history' = [history EXCEPT ![f] = h]
    BY <1>1 DEF Create, copyVars
  <2>2. \A c \in Calls : at[c] \in {"saving", "writing"} => on[c] \in Filed /\ on[c] # f
    BY <2>1 DEF CopiesFit
  <2>3. DraftsHold'
    BY <2>1, <2>2 DEF DraftsHold, FilingTypeOK
  <2>4. SubmittedKept
    BY <2>1 DEF SubmittedKept, FilingTypeOK
  <2>5. QED BY <2>3, <2>4
<1>2. ASSUME NEW c \in Calls, NEW f \in Filed,
             Submit(c, f) \/ \E form \in Forms(f) : Edit(c, f, form)
      PROVE  DraftsHold' /\ SubmittedKept
  <2>1. /\ status[f] = "draft" /\ UNCHANGED <<status, snapshots, history>>
        /\ on' = [on EXCEPT ![c] = f] /\ at' = [at EXCEPT ![c] = "saving"]
    BY <1>2 DEF Submit, Edit, Take, Goto, rowVars
  <2>2. QED BY <2>1 DEF DraftsHold, SubmittedKept, FilingTypeOK
<1>3. ASSUME NEW c \in Calls, ReadPrevious(c) \/ SaveFails(c)
      PROVE  DraftsHold' /\ SubmittedKept
  <2>1. /\ UNCHANGED <<status, snapshots, history>>
        /\ \A d \in Calls : at'[d] \in {"saving", "writing"} =>
              at[d] \in {"saving", "writing"} /\ on'[d] = on[d]
    BY <1>3 DEF ReadPrevious, SaveFails, Rest, Goto, rowVars, FilingTypeOK
  <2>2. QED BY <2>1 DEF DraftsHold, SubmittedKept
<1>4. ASSUME NEW c \in Calls, Save(c)
      PROVE  DraftsHold' /\ SubmittedKept
  <2>1. PICK f \in Filed : on[c] = f /\ status[f] = "draft" /\ at[c] = "writing"
    BY <1>4 DEF Save, CopiesFit, DraftsHold
  <2>2. /\ \E s : status' = [status EXCEPT ![f] = s]
        /\ \E s : snapshots' = [snapshots EXCEPT ![f] = s]
        /\ \E h : history' = [history EXCEPT ![f] = h]
        /\ at' = [at EXCEPT ![c] = "idle"] /\ on' = [on EXCEPT ![c] = NoFiling]
    BY <1>4, <2>1 DEF Save, Rest, Goto
  <2>3. \A g \in Filed \ {f} :
           status'[g] = status[g] /\ snapshots'[g] = snapshots[g] /\ history'[g] = history[g]
    BY <2>2 DEF FilingTypeOK
  <2>4. \A d \in Calls : at'[d] \in {"saving", "writing"} =>
           d # c /\ at[d] \in {"saving", "writing"} /\ on'[d] = on[d]
    BY <2>2 DEF FilingTypeOK
  <2>5. \A d \in Calls : at'[d] \in {"saving", "writing"} => on[d] \in Filed \ {f}
    BY <2>1, <2>4 DEF CallsApart, CopiesFit
  <2>6. DraftsHold'
    BY <2>3, <2>4, <2>5 DEF DraftsHold
  <2>7. SubmittedKept
    BY <2>1, <2>3 DEF SubmittedKept
  <2>8. QED BY <2>6, <2>7
<1>5. ASSUME NEW f \in AddressNotices, NEW to \in Status, StaffMove(f, to)
      PROVE  DraftsHold' /\ SubmittedKept
  <2>1. /\ f \in Filed /\ to \in Allowed(status[f])
        /\ status' = [status EXCEPT ![f] = to]
        /\ history' = [history EXCEPT ![f] = Append(history[f], [from |-> status[f], to |-> to])]
        /\ UNCHANGED <<snapshots, at, on>>
    BY <1>5 DEF StaffMove, copyVars, Filed
  <2>2. /\ status'[f] = to /\ history'[f] = Append(history[f], [from |-> status[f], to |-> to])
        /\ \A g \in Filed \ {f} : status'[g] = status[g] /\ history'[g] = history[g]
    BY <2>1 DEF FilingTypeOK
  <2>3. \A c \in Calls : on[c] # f
    BY <1>5 DEF StaffApart
  <2>4. DraftsHold'
    BY <2>1, <2>2, <2>3 DEF DraftsHold, CopiesFit
  <2>5. SubmittedKept
    BY <2>1, <2>2 DEF SubmittedKept
  <2>6. QED BY <2>4, <2>5
<1>6. QED BY <1>1, <1>2, <1>3, <1>4, <1>5 DEF FilingNext

(* A step of the office that leaves the visits alone, and has read of the   *)
(* one it goes on with that it is scheduled.                                *)
LEMMA VisitsStay ==
    ASSUME VisitsHold, UNCHANGED <<visit, actual, result>>,
           \A c \in Calls : at'[c] \in {"completing", "reporting", "cancelling"} =>
              \/ at'[c] = at[c] /\ duty'[c] = duty[c]
              \/ at'[c] # "reporting" /\ visit[duty'[c].visit] = "scheduled"
    PROVE  VisitsHold' /\ EndedKept
<1>1. EndedKept
  BY DEF EndedKept
<1>2. OneReport'
  BY DEF VisitsHold, OneReport
<1>3. QED BY <1>1, <1>2 DEF VisitsHold

(* A report on a visit, or its end, that meets no other one. *)
LEMMA EndingStep ==
    ASSUME FilingInv, DutyInv, VisitsHold, CallsApart, NEW c \in Calls,
           CompleteVisit(c) \/ RecordResult(c) \/ CancelVisit(c)
    PROVE  VisitsHold' /\ EndedKept
<1>1. /\ OfficeTypeOK /\ duty \in [Calls -> Duty] /\ VisitsInOrder /\ at \in [Calls -> At]
  BY DEF DutyInv, FilingInv
<1>2. PICK v \in Visits : duty[c].visit = v
  BY <1>1 DEF CompleteVisit, RecordResult, CancelVisit, VisitsInOrder
<1>3. \A d \in Calls \ {c} : at[d] \in {"completing", "reporting", "cancelling"} => duty[d].visit # v
  BY <1>2 DEF CompleteVisit, RecordResult, CancelVisit, CallsApart
<1>4. CASE CompleteVisit(c)
  <2>1. /\ visit[v] = "scheduled" /\ result[v] = NoReport
    BY <1>2, <1>4 DEF CompleteVisit, VisitsHold, OneReport
  <2>2. /\ visit' = [visit EXCEPT ![v] = "completed"]
        /\ actual' = [actual EXCEPT ![v] = duty[c].report]
        /\ at' = [at EXCEPT ![c] = "reporting"] /\ UNCHANGED <<result, duty>>
    BY <1>2, <1>4 DEF CompleteVisit, Goto
  <2>3. /\ visit'[v] = "completed" /\ actual'[v] = duty[c].report
        /\ \A w \in Visits \ {v} : visit'[w] = visit[w] /\ actual'[w] = actual[w]
        /\ at'[c] = "reporting" /\ \A d \in Calls \ {c} : at'[d] = at[d]
    BY <1>1, <2>2 DEF OfficeTypeOK
  <2>4. EndedKept
    BY <2>1, <2>3 DEF EndedKept
  <2>5. OneReport'
    BY <2>1, <2>2, <2>3 DEF VisitsHold, OneReport
  <2>6. ASSUME NEW d \in Calls, NEW w \in Visits, duty'[d].visit = w
        PROVE  /\ at'[d] \in {"completing", "cancelling"} => visit'[w] = "scheduled"
               /\ at'[d] = "reporting" => visit'[w] = "completed" /\ actual'[w] = duty'[d].report
    BY <1>2, <1>3, <2>2, <2>3, <2>6 DEF VisitsHold
  <2>7. QED BY <2>4, <2>5, <2>6 DEF VisitsHold
<1>5. CASE RecordResult(c)
  <2>1. /\ at[c] = "reporting" /\ UNCHANGED <<visit, actual>>
        /\ result' = [result EXCEPT ![v] = IF @ = NoReport THEN duty[c].report ELSE @]
        /\ visit[v] = "completed" /\ actual[v] = duty[c].report
    BY <1>2, <1>5 DEF RecordResult, VisitsHold
  <2>2. /\ at'[c] = "idle" /\ \A d \in Calls \ {c} : at'[d] = at[d] /\ duty'[d] = duty[d]
    BY <1>5, Finished DEF RecordResult
  <2>3. OneReport'
    BY <1>1, <2>1 DEF VisitsHold, OneReport, OfficeTypeOK
  <2>4. EndedKept
    BY <2>1 DEF EndedKept
  <2>5. QED BY <2>1, <2>2, <2>3, <2>4 DEF VisitsHold
<1>6. CASE CancelVisit(c)
  <2>1. /\ visit[v] = "scheduled" /\ result[v] = NoReport
    BY <1>2, <1>6 DEF CancelVisit, VisitsHold, OneReport
  <2>2. /\ visit' = [visit EXCEPT ![v] = "cancelled"] /\ UNCHANGED <<actual, result>>
    BY <1>2, <1>6 DEF CancelVisit
  <2>3. /\ at'[c] = "idle" /\ \A d \in Calls \ {c} : at'[d] = at[d] /\ duty'[d] = duty[d]
    BY <1>6, Finished DEF CancelVisit
  <2>4. \A w \in Visits \ {v} : visit'[w] = visit[w]
    BY <1>1, <2>2 DEF OfficeTypeOK
  <2>5. EndedKept
    BY <2>1, <2>2, <2>4 DEF EndedKept
  <2>6. OneReport'
    BY <2>1, <2>2, <2>4 DEF VisitsHold, OneReport
  <2>7. ASSUME NEW d \in Calls, NEW w \in Visits, duty'[d].visit = w
        PROVE  /\ at'[d] \in {"completing", "cancelling"} => visit'[w] = "scheduled"
               /\ at'[d] = "reporting" => visit'[w] = "completed" /\ actual'[w] = duty'[d].report
    BY <1>3, <2>2, <2>3, <2>4, <2>7 DEF VisitsHold
  <2>8. QED BY <2>5, <2>6, <2>7 DEF VisitsHold
<1>7. QED BY <1>4, <1>5, <1>6

LEMMA VisitsStep ==
    ASSUME FilingInv, DutyInv, VisitsHold, CallsApart, NEW c \in Calls,
           Visiting(c) \/ Deciding(c) \/ DutyFails(c)
    PROVE  VisitsHold' /\ EndedKept
<1> DEFINE Ending == {"completing", "reporting", "cancelling"}
<1>1. at \in [Calls -> At] /\ duty \in [Calls -> Duty]
  BY DEF FilingInv, DutyInv
<1>2. ASSUME NEW v \in Visits, NEW f \in Filed, NEW crew \in SUBSET Staff, CreateVisit(c, v, f, crew)
      PROVE  VisitsHold' /\ EndedKept
  <2>1. /\ visit[v] = "none" /\ visit' = [visit EXCEPT ![v] = "scheduled"]
        /\ UNCHANGED <<actual, result>> /\ at' = [at EXCEPT ![c] = "scheduling"]
        /\ \E what : duty' = [duty EXCEPT ![c] = what]
    BY <1>2 DEF CreateVisit, Begin, Goto
  <2>2. /\ \A w \in Visits \ {v} : visit'[w] = visit[w]
        /\ \A d \in Calls : at'[d] \in Ending => at'[d] = at[d] /\ duty'[d] = duty[d]
    BY <1>1, <2>1 DEF DutyInv, OfficeTypeOK
  <2>3. result[v] = NoReport
    BY <2>1 DEF VisitsHold, OneReport
  <2>4. EndedKept
    BY <2>1, <2>2 DEF EndedKept
  <2>5. OneReport'
    BY <2>1, <2>2, <2>3 DEF VisitsHold, OneReport
  <2>6. ASSUME NEW d \in Calls, NEW w \in Visits, duty'[d].visit = w, at'[d] \in Ending
        PROVE  /\ at'[d] \in {"completing", "cancelling"} => visit'[w] = "scheduled"
               /\ at'[d] = "reporting" => visit'[w] = "completed" /\ actual'[w] = duty'[d].report
    BY <2>1, <2>2, <2>6 DEF VisitsHold
  <2>7. QED BY <2>4, <2>5, <2>6 DEF VisitsHold
<1>3. ASSUME NEW v \in Visits, FindVisitToCancel(c, v) \/ \E report \in Reports : FindVisit(c, v, report)
      PROVE  VisitsHold' /\ EndedKept
  <2>1. /\ visit[v] = "scheduled" /\ UNCHANGED <<visit, actual, result>>
        /\ \E where \in {"cancelling", "completing"} : at' = [at EXCEPT ![c] = where]
        /\ \E what : what.visit = v /\ duty' = [duty EXCEPT ![c] = what]
    BY <1>3 DEF FindVisitToCancel, FindVisit, Begin, Goto, visitVars, NoDuty
  <2>2. QED BY <1>1, <2>1, VisitsStay
<1>4. CASE \/ CreateSchedule(c) \/ \E s \in Staff : AddTeamMember(c, s)
           \/ Deciding(c) \/ DutyFails(c)
  <2>1. /\ UNCHANGED <<visit, actual, result>>
        /\ at'[c] \notin Ending
        /\ \A d \in Calls \ {c} : at'[d] = at[d] /\ duty'[d] = duty[d]
    <3>1. CASE CreateSchedule(c) \/ \E s \in Staff : AddTeamMember(c, s)
      BY <1>1, <3>1 DEF CreateSchedule, AddTeamMember, Finish, Goto
    <3>2. CASE Deciding(c)
      BY <1>1, <3>2 DEF Deciding, ListRevisions, FindNoDecision, CreateDecision, CreateRevision,
                        Begin, Finish, Goto, visitVars
    <3>3. CASE DutyFails(c)
      BY <1>1, <3>3 DEF DutyFails, Finish, Goto, visitVars
    <3>4. QED BY <1>4, <3>1, <3>2, <3>3
  <2>2. QED BY <2>1, VisitsStay
<1>5. QED BY <1>2, <1>3, <1>4, EndingStep DEF Visiting

LEMMA ApartStep ==
    FilingInv /\ DutyInv /\ DraftsHold /\ VisitsHold /\ CallsApart
    /\ [StaffApart]_vars /\ [Next]_vars
    => DraftsHold' /\ VisitsHold' /\ SubmittedKept /\ EndedKept
<1> SUFFICES ASSUME FilingInv, DutyInv, DraftsHold, VisitsHold, CallsApart,
                    [StaffApart]_vars, [Next]_vars
             PROVE  DraftsHold' /\ VisitsHold' /\ SubmittedKept /\ EndedKept
  OBVIOUS
<1>1. CASE FilingNext /\ UNCHANGED <<visitVars, decisionVars, duty>>
  <2>1. \A c \in Calls : at'[c] \in {"completing", "reporting", "cancelling"} =>
           at'[c] = at[c] /\ duty'[c] = duty[c]
    BY <1>1, TaxpayerCallsStay
  <2>2. UNCHANGED <<visit, actual, result>>
    BY <1>1 DEF visitVars
  <2>3. VisitsHold' /\ EndedKept
    BY <2>1, <2>2, VisitsStay
  <2>4. CASE StaffApart
    BY <1>1, <2>3, <2>4, DraftsStep
  <2>5. CASE UNCHANGED vars
    <3>1. UNCHANGED <<status, snapshots, history, on, at>>
      BY <2>5 DEF vars, filingVars, rowVars, copyVars
    <3>2. QED BY <2>3, <3>1 DEF DraftsHold, SubmittedKept
  <2>6. QED BY <2>4, <2>5
<1>2. ASSUME NEW c \in Calls, Visiting(c) \/ Deciding(c) \/ DutyFails(c)
      PROVE  DraftsHold' /\ VisitsHold' /\ SubmittedKept /\ EndedKept
  <2>1. UNCHANGED <<rowVars, copyVars>>
    BY <1>2, OfficeLeavesFilings
  <2>2. \A d \in Calls : at'[d] \in {"saving", "writing"} => at'[d] = at[d]
    BY <1>2, SchedulingInv, ReportingInv, DecidingInv, DutyFailsInv DEF Visiting
  <2>3. DraftsHold' /\ SubmittedKept
    BY <2>1, <2>2 DEF DraftsHold, SubmittedKept, rowVars, copyVars
  <2>4. QED BY <1>2, <2>3, VisitsStep
<1>3. CASE UNCHANGED vars
  <2>1. UNCHANGED <<status, snapshots, history, on, at, visit, actual, result, duty>>
    BY <1>3 DEF vars, filingVars, rowVars, copyVars, visitVars
  <2>2. DraftsHold' /\ SubmittedKept
    BY <2>1 DEF DraftsHold, SubmittedKept
  <2>3. QED BY <2>1, <2>2, VisitsStay
<1>4. QED BY <1>1, <1>2, <1>3 DEF Next

(* Calls about one filing or one visit that overlap, with each other or     *)
(* with a move of the staff, are the only way in which a submission is      *)
(* undone, or a visit gets a second end or the result of another report     *)
(* than its times.                                                          *)
THEOREM OverlapsAreTheOnlyCause == Spec => OnlyOverlapsUndo
<1>1. Init => DraftsHold /\ VisitsHold
  BY DEF Init, FilingInit, DraftsHold, VisitsHold, OneReport
<1>2. VisitsHold => OneReport
  BY DEF VisitsHold
<1>3. QED BY <1>1, <1>2, ApartStep, CaseworkInvariant, PTL
          DEF Spec, OnlyOverlapsUndo
=============================================================================

------------------------------ MODULE Casework ------------------------------
(***************************************************************************)
(* What the office does about a filing: it visits the site, and decides.   *)
(*                                                                         *)
(* FieldVisitsService and DecisionsService use no transaction: every       *)
(* statement commits by itself, an UPDATE does not look again at the       *)
(* status that was read before it, and the process may stop between any    *)
(* two.  Unique keys allow one result of a visit and one decision on a     *)
(* request; foreign keys tie both to a filing that exists.  The calls are  *)
(* served along with those of the taxpayer (Filings).                      *)
(***************************************************************************)
EXTENDS Filings

CONSTANTS
    Visits,        \* identities of visits
    Staff,         \* members of staff who are sent on visits
    Reports,       \* what is reported of a visit: its times and its result
    NoReport,
    MaxRevisions   \* bound: revisions of one decision

ASSUME CaseworkAssumption == NoReport \notin Reports /\ MaxRevisions \in Nat

VARIABLES
    visit,       \* status_code of a visit, or "none"
    parent,      \* its service_request_id or balagh_id, of which one is set
    scheduled,   \* visits with a row in visit_schedules
    team,        \* active rows of visit_team_members
    actual,      \* the report whose actual start and end the visit has
    result,      \* the report whose row visit_results holds
    decision,    \* outcome_code of the decision on a request, or "none"
    revisions,   \* revision_number of its revisions, in the order of insertion
    told,        \* ghost: outcomes a member of staff was told are recorded
    duty         \* what a call of the staff carries

visitVars == <<visit, parent, scheduled, team, actual, result>>
decisionVars == <<decision, revisions, told>>
vars == <<filingVars, visitVars, decisionVars, duty>>

Outcomes == {"approved", "rejected"}
NoVisit == "none"
NoDuty == [visit |-> NoVisit, crew |-> {}, report |-> NoReport, request |-> NoFiling,
           outcome |-> "none", number |-> 0]

Init ==
    /\ FilingInit
    /\ visit = [v \in Visits |-> "none"]
    /\ parent = [v \in Visits |-> NoFiling]
    /\ scheduled = {}
    /\ team = [v \in Visits |-> {}]
    /\ actual = [v \in Visits |-> NoReport]
    /\ result = [v \in Visits |-> NoReport]
    /\ decision = [f \in AddressNotices |-> "none"]
    /\ revisions = [f \in AddressNotices |-> <<>>]
    /\ told = [f \in AddressNotices |-> {}]
    /\ duty = [c \in Calls |-> NoDuty]

Begin(c, where, what) ==
    /\ at[c] = "idle" /\ Goto(c, where)
    /\ duty' = [duty EXCEPT ![c] = what]

Finish(c) == Goto(c, "idle") /\ duty' = [duty EXCEPT ![c] = NoDuty]

-----------------------------------------------------------------------------
(* scheduleVisit: the visit, then its schedule, then its team. *)
CreateVisit(c, v, f, crew) ==
    /\ visit[v] = "none" /\ status[f] # "none"
    /\ Begin(c, "scheduling", [NoDuty EXCEPT !.visit = v, !.crew = crew])
    /\ visit' = [visit EXCEPT ![v] = "scheduled"]
    /\ parent' = [parent EXCEPT ![v] = f]
    /\ UNCHANGED <<rowVars, copyVars, scheduled, team, actual, result, decisionVars>>

CreateSchedule(c) ==
    /\ at[c] = "scheduling"
    /\ scheduled' = scheduled \cup {duty[c].visit}
    /\ IF duty[c].crew = {} THEN Finish(c) ELSE Goto(c, "staffing") /\ UNCHANGED duty
    /\ UNCHANGED <<rowVars, copyVars, visit, parent, team, actual, result, decisionVars>>

AddTeamMember(c, s) ==
    /\ at[c] = "staffing" /\ s \in duty[c].crew
    /\ team' = [team EXCEPT ![duty[c].visit] = @ \cup {s}]
    /\ IF duty[c].crew = {s} THEN Finish(c)
       ELSE duty' = [duty EXCEPT ![c].crew = @ \ {s}] /\ UNCHANGED at
    /\ UNCHANGED <<rowVars, copyVars, visit, parent, scheduled, actual, result, decisionVars>>

(* Mutant: the result is stored before the visit is completed. *)
BugFindVisit(c, v, report) ==
    /\ visit[v] = "scheduled"
    /\ Begin(c, "reporting", [NoDuty EXCEPT !.visit = v, !.report = report])
    /\ UNCHANGED <<rowVars, copyVars, visitVars, decisionVars>>

(* recordVisitResult: the visit that is read is scheduled. *)
FindVisit(c, v, report) ==
    /\ visit[v] = "scheduled"
    /\ Begin(c, "completing", [NoDuty EXCEPT !.visit = v, !.report = report])
    /\ UNCHANGED <<rowVars, copyVars, visitVars, decisionVars>>

CompleteVisit(c) ==
    /\ at[c] = "completing"
    /\ visit' = [visit EXCEPT ![duty[c].visit] = "completed"]
    /\ actual' = [actual EXCEPT ![duty[c].visit] = duty[c].report]
    /\ Goto(c, "reporting")
    /\ UNCHANGED <<rowVars, copyVars, parent, scheduled, team, result, decisionVars, duty>>

(* The second of two results violates the unique key. *)
RecordResult(c) ==
    /\ at[c] = "reporting"
    /\ result' = [result EXCEPT ![duty[c].visit] = IF @ = NoReport THEN duty[c].report ELSE @]
    /\ Finish(c)
    /\ UNCHANGED <<rowVars, copyVars, visit, parent, scheduled, team, actual, decisionVars>>

FindVisitToCancel(c, v) ==
    /\ visit[v] = "scheduled"
    /\ Begin(c, "cancelling", [NoDuty EXCEPT !.visit = v])
    /\ UNCHANGED <<rowVars, copyVars, visitVars, decisionVars>>

CancelVisit(c) ==
    /\ at[c] = "cancelling"
    /\ visit' = [visit EXCEPT ![duty[c].visit] = "cancelled"]
    /\ Finish(c)
    /\ UNCHANGED <<rowVars, copyVars, parent, scheduled, team, actual, result, decisionVars>>

-----------------------------------------------------------------------------
(* recordDecision finds no decision; the state of the request is not read. *)
FindNoDecision(c, f, outcome) ==
    /\ status[f] # "none" /\ decision[f] = "none"
    /\ Begin(c, "deciding", [NoDuty EXCEPT !.request = f, !.outcome = outcome])
    /\ UNCHANGED <<rowVars, copyVars, visitVars, decisionVars>>

Tell(c) ==
    \/ told' = [told EXCEPT ![duty[c].request] = @ \cup {duty[c].outcome}]
    \/ UNCHANGED told

(* Mutant: no unique key; the decision found is the last one. *)
BugCreateDecision(c) ==
    /\ at[c] = "deciding"
    /\ decision' = [decision EXCEPT ![duty[c].request] = duty[c].outcome]
    /\ Tell(c)
    /\ Finish(c)
    /\ UNCHANGED <<rowVars, copyVars, visitVars, revisions>>

(* The answer may be lost. *)
CreateDecision(c) ==
    /\ at[c] = "deciding"
    /\ \/ /\ decision[duty[c].request] = "none"
          /\ decision' = [decision EXCEPT ![duty[c].request] = duty[c].outcome]
          /\ Tell(c)
       \/ decision[duty[c].request] # "none" /\ UNCHANGED <<decision, told>>
    /\ Finish(c)
    /\ UNCHANGED <<rowVars, copyVars, visitVars, revisions>>

(* reviseDecision numbers the revision by those it has listed. *)
ListRevisions(c, f) ==
    /\ decision[f] # "none"
    /\ Begin(c, "revising", [NoDuty EXCEPT !.request = f, !.number = Len(revisions[f]) + 1])
    /\ UNCHANGED <<rowVars, copyVars, visitVars, decisionVars>>

CreateRevision(c) ==
    /\ at[c] = "revising"
    /\ Len(revisions[duty[c].request]) < MaxRevisions
    /\ revisions' = [revisions EXCEPT ![duty[c].request] = Append(@, duty[c].number)]
    /\ Finish(c)
    /\ UNCHANGED <<rowVars, copyVars, visitVars, decision, told>>

(* A statement fails, or the process ends: what was committed stays. *)
DutyFails(c) ==
    /\ at[c] \notin {"idle", "saving", "writing"}
    /\ Finish(c)
    /\ UNCHANGED <<rowVars, copyVars, visitVars, decisionVars>>

-----------------------------------------------------------------------------
Visiting(c) ==
    \/ \E v \in Visits, f \in Filed, crew \in SUBSET Staff : CreateVisit(c, v, f, crew)
    \/ CreateSchedule(c) \/ \E s \in Staff : AddTeamMember(c, s)
    \/ \E v \in Visits : FindVisitToCancel(c, v) \/ \E report \in Reports : FindVisit(c, v, report)
    \/ CompleteVisit(c) \/ RecordResult(c) \/ CancelVisit(c)

Deciding(c) ==
    \/ \E f \in AddressNotices :
           ListRevisions(c, f) \/ \E outcome \in Outcomes : FindNoDecision(c, f, outcome)
    \/ CreateDecision(c) \/ CreateRevision(c)

Next ==
    \/ FilingNext /\ UNCHANGED <<visitVars, decisionVars, duty>>
    \/ \E c \in Calls : Visiting(c) \/ Deciding(c) \/ DutyFails(c)

Spec == Init /\ [][Next]_vars

-----------------------------------------------------------------------------
TypeOK ==
    /\ FilingTypeOK
    /\ at \in [Calls -> {"idle", "saving", "writing", "scheduling", "staffing", "completing",
                         "reporting", "cancelling", "deciding", "revising"}]
    /\ visit \in [Visits -> {"none", "scheduled", "completed", "cancelled"}]
    /\ parent \in [Visits -> Filed \cup {NoFiling}]
    /\ scheduled \subseteq Visits
    /\ team \in [Visits -> SUBSET Staff]
    /\ actual \in [Visits -> Reports \cup {NoReport}]
    /\ result \in [Visits -> Reports \cup {NoReport}]
    /\ decision \in [AddressNotices -> Outcomes \cup {"none"}]
    /\ revisions \in [AddressNotices -> Seq(1 .. MaxRevisions + 1)]
    /\ told \in [AddressNotices -> SUBSET Outcomes]

(* Wherever the calls about a visit stop or overtake each other: nobody is
   sent on a visit that has no schedule, and a result is only on record for
   a visit that has been held, with its times, and has ended. *)
EvidenceIsInOrder ==
    \A v \in Visits :
        /\ team[v] # {} => v \in scheduled
        /\ result[v] # NoReport => actual[v] # NoReport /\ visit[v] \in {"completed", "cancelled"}

(* Two members of staff decide at once: the decision on record is the one
   that somebody was told is recorded, and nobody was told another. *)
DecisionStands == \A f \in AddressNotices : told[f] \subseteq {decision[f]}

(* Nothing locks what a call has read, so calls about one filing, or about  *)
(* one visit, may undo each other, and a call of the owner what the staff   *)
(* does to the notice meanwhile.  That is the only way: while such calls    *)
(* follow one another, wherever they stop, what was submitted stays as it   *)
(* was submitted but for the moves of the staff, a visit that ended stays   *)
(* as it ended, and the result of a visit is of the report whose times it   *)
(* has.                                                                     *)
CallsApart ==
    \A c, d \in Calls : c # d =>
        /\ at[c] \in {"saving", "writing"} /\ at[d] \in {"saving", "writing"} => on[c] # on[d]
        /\ at[c] \in {"completing", "reporting", "cancelling"}
           /\ at[d] \in {"completing", "reporting", "cancelling"} => duty[c].visit # duty[d].visit

(* The staff moves a notice while no call of its owner is at work on it. *)
StaffApart ==
    \A f \in AddressNotices :
        (\E to \in Status : StaffMove(f, to)) => \A c \in Calls : on[c] # f

SubmittedKept ==
    \A f \in Filed : status[f] \notin {"none", "draft"} =>
        /\ snapshots'[f] = snapshots[f]
        /\ \/ status'[f] = status[f] /\ history'[f] = history[f]
           \/ /\ f \in AddressNotices /\ status'[f] \in Allowed(status[f])
              /\ history'[f] = Append(history[f], [from |-> status[f], to |-> status'[f]])

EndedKept ==
    \A v \in Visits : visit[v] \in {"completed", "cancelled"} =>
        visit'[v] = visit[v] /\ actual'[v] = actual[v]

OneReport ==
    \A v \in Visits : result[v] # NoReport => visit[v] = "completed" /\ result[v] = actual[v]

OnlyOverlapsUndo ==
    []CallsApart /\ [][StaffApart]_vars =>
        [][SubmittedKept]_vars /\ [][EndedKept]_vars /\ []OneReport
=============================================================================

----------------------------- MODULE BalaghForm -----------------------------
(***************************************************************************)
(* The form of a balagh on the taxpayer's phone, with the office it is     *)
(* sent to (Filings).                                                      *)
(*                                                                         *)
(* The form is filled in steps.  Every step that is completed is written   *)
(* to the secure storage without waiting for the write, and read back when *)
(* the form is opened again; the storage executes what it is asked in      *)
(* order.  Sending is two calls, which create the balagh and submit it,    *)
(* and then the stored draft is cleared.  A send outlives the page it was  *)
(* made on: the taxpayer may leave it, open the form again and send again. *)
(*                                                                         *)
(* A request or an answer may be lost, the app stops waiting for an answer *)
(* at any moment (its time limit, or no connection), a request it has      *)
(* given up may still be served, and the app may be killed.                *)
(***************************************************************************)
EXTENDS Filings

CONSTANTS
    NoCall,
    LastStep,      \* number of the step at which the form is sent
    MaxPresses,    \* bound: how often the taxpayer presses Send
    MaxQueue       \* bound: writes the storage has not executed

ASSUME FormAssumption ==
    /\ NoCall \notin Calls
    /\ LastStep \in Nat \ {0}
    /\ MaxPresses \in Nat /\ MaxQueue \in Nat

VARIABLES
    disk,      \* the draft of each type in the secure storage
    queue,     \* operations the storage was asked for
    page,      \* the open form
    presses,   \* how often Send was pressed
    pc,        \* what the app waits for in a send
    sent,      \* what a send carries
    wire       \* the request of a send, or its answer

formVars == <<disk, queue, page, presses, pc, sent, wire>>
vars == <<filingVars, formVars>>

Closed == [type |-> "none", form |-> NoForm, step |-> 0, restored |-> FALSE, send |-> NoCall]
Nothing == [type |-> "none", form |-> NoForm, id |-> NoFiling]

Init ==
    /\ FilingInit
    /\ disk = [t \in TypesFiled |-> NoForm]
    /\ queue = <<>>
    /\ page = Closed
    /\ presses = 0
    /\ pc = [c \in Calls |-> "idle"]
    /\ sent = [c \in Calls |-> Nothing]
    /\ wire = [c \in Calls |-> "none"]

-----------------------------------------------------------------------------
(* The storage.  A form that is written replaces the one before it. *)
Ask(type, form, c) ==
    /\ Len(queue) < MaxQueue
    /\ queue' = Append(queue, [type |-> type, form |-> form, by |-> c])

Perform ==
    /\ queue # <<>>
    /\ disk' = [disk EXCEPT ![Head(queue).type] = Head(queue).form]
    /\ queue' = Tail(queue)
    /\ UNCHANGED <<filingVars, page, presses, pc, sent, wire>>

(* What a read finds, which comes after the writes that were asked before:
   the form of the last of them, or else the one on the disk. *)
Finds(type, form) ==
    LET asked == {i \in DOMAIN queue : queue[i].type = type} IN
    \/ asked = {} /\ form = disk[type]
    \/ \E i \in asked : (\A j \in asked : j <= i) /\ form = queue[i].form

-----------------------------------------------------------------------------
(* The page. *)
Open(type, form) ==
    /\ page = Closed /\ Finds(type, form)
    /\ page' = [type |-> type, form |-> form, step |-> 0,
                restored |-> form # NoForm, send |-> NoCall]
    /\ UNCHANGED <<filingVars, disk, queue, presses, pc, sent, wire>>

(* Fields stay open while a send is under way. *)
Fill(form) ==
    /\ page # Closed /\ page.step < LastStep
    /\ form.type = page.type /\ form # page.form
    /\ page' = [page EXCEPT !.form = form]
    /\ UNCHANGED <<filingVars, disk, queue, presses, pc, sent, wire>>

Complete == page # Closed /\ page.form # NoForm

NextStep ==
    /\ Complete /\ page.step < LastStep /\ page.send = NoCall
    /\ page' = [page EXCEPT !.step = @ + 1]
    /\ Ask(page.type, page.form, NoCall)
    /\ UNCHANGED <<filingVars, disk, presses, pc, sent, wire>>

(* Mutant: the first step has one before it. *)
BugBack ==
    /\ page # Closed
    /\ page' = [page EXCEPT !.step = @ - 1]
    /\ UNCHANGED <<filingVars, disk, queue, presses, pc, sent, wire>>

Back ==
    /\ page # Closed
    /\ page' = IF page.step = 0 THEN Closed ELSE [page EXCEPT !.step = @ - 1]
    /\ UNCHANGED <<filingVars, disk, queue, presses, pc, sent, wire>>

Discard ==
    /\ page.restored /\ page.step = 0
    /\ page' = [page EXCEPT !.restored = FALSE]
    /\ Ask(page.type, NoForm, NoCall)
    /\ UNCHANGED <<filingVars, disk, presses, pc, sent, wire>>

-----------------------------------------------------------------------------
(* A send. *)
Wait(c, where, what) == pc' = [pc EXCEPT ![c] = where] /\ wire' = [wire EXCEPT ![c] = what]

Press(c) ==
    /\ Complete /\ page.step = LastStep /\ page.send = NoCall
    /\ pc[c] = "idle" /\ wire[c] = "none" /\ at[c] = "idle"
    /\ presses < MaxPresses
    /\ presses' = presses + 1
    /\ page' = [page EXCEPT !.send = c]
    /\ sent' = [sent EXCEPT ![c] = [type |-> page.type, form |-> page.form, id |-> NoFiling]]
    /\ Wait(c, "creating", "create")
    /\ UNCHANGED <<filingVars, disk, queue>>

ServeCreate(c, f) ==
    /\ wire[c] = "create" /\ f \in Balaghs
    /\ Create(f, sent[c].type, sent[c].form)
    /\ wire' = [wire EXCEPT ![c] = "created"]
    /\ sent' = [sent EXCEPT ![c].id = f]
    /\ UNCHANGED <<disk, queue, page, presses, pc>>

(* Mutant: the draft is cleared as soon as the balagh exists. *)
BugCreated(c) ==
    /\ pc[c] = "creating" /\ wire[c] = "created"
    /\ Wait(c, "clearing", "none")
    /\ Ask(sent[c].type, NoForm, c)
    /\ UNCHANGED <<filingVars, disk, page, presses, sent>>

Created(c) ==
    /\ pc[c] = "creating" /\ wire[c] = "created"
    /\ Wait(c, "submitting", "submit")
    /\ UNCHANGED <<filingVars, disk, queue, page, presses, sent>>

ServeSubmit(c) ==
    /\ wire[c] = "submit"
    /\ Submit(c, sent[c].id)
    /\ wire' = [wire EXCEPT ![c] = "serving"]
    /\ UNCHANGED <<disk, queue, page, presses, pc, sent>>

Saved(c) ==
    /\ wire[c] = "serving"
    /\ \/ ReadPrevious(c) /\ UNCHANGED wire
       \/ Save(c) /\ wire' = [wire EXCEPT ![c] = "submitted"]
       \/ SaveFails(c) /\ wire' = [wire EXCEPT ![c] = "failed"]
    /\ UNCHANGED <<disk, queue, page, presses, pc, sent>>

Submitted(c) ==
    /\ pc[c] = "submitting" /\ wire[c] = "submitted"
    /\ Wait(c, "clearing", "none")
    /\ Ask(sent[c].type, NoForm, c)
    /\ UNCHANGED <<filingVars, disk, page, presses, sent>>

(* The write was executed.  The page, if it is still there, shows the
   reference and closes. *)
Cleared(c) ==
    /\ pc[c] = "clearing" /\ \A i \in DOMAIN queue : queue[i].by # c
    /\ Wait(c, "idle", "none")
    /\ page' = IF page.send = c THEN Closed ELSE page
    /\ sent' = [sent EXCEPT ![c] = Nothing]
    /\ UNCHANGED <<filingVars, disk, queue, presses>>

(* Mutant: the call that was not answered is repeated. *)
BugGiveUp(c) ==
    /\ pc[c] = "creating"
    /\ Wait(c, "creating", "create")
    /\ UNCHANGED <<filingVars, disk, queue, page, presses, sent>>

(* An error is answered, or there is no answer: the page says so and can
   send again. *)
GiveUp(c) ==
    /\ pc[c] \in {"creating", "submitting"}
    /\ Wait(c, "idle", IF wire[c] = "failed" THEN "none" ELSE wire[c])
    /\ page' = IF page.send = c THEN [page EXCEPT !.send = NoCall] ELSE page
    /\ UNCHANGED <<filingVars, disk, queue, presses, sent>>

Lose(c) ==
    /\ wire[c] \in {"create", "created", "submit", "submitted", "failed"}
    /\ wire' = [wire EXCEPT ![c] = "none"]
    /\ UNCHANGED <<filingVars, disk, queue, page, presses, pc, sent>>

Kill ==
    /\ page' = Closed
    /\ queue' = <<>>
    /\ pc' = [c \in Calls |-> "idle"]
    /\ UNCHANGED <<filingVars, disk, presses, sent, wire>>

-----------------------------------------------------------------------------
Next ==
    \/ \E type \in TypesFiled : \E form \in FormsOf(TypesFiled) \cup {NoForm} : Open(type, form)
    \/ \E form \in FormsOf(TypesFiled) : Fill(form)
    \/ NextStep \/ Back \/ Discard \/ Perform \/ Kill
    \/ \E c \in Calls :
        \/ Press(c) \/ Created(c) \/ Submitted(c) \/ Cleared(c) \/ GiveUp(c) \/ Lose(c)
        \/ ServeSubmit(c) \/ Saved(c) \/ \E f \in Balaghs : ServeCreate(c, f)

Spec == Init /\ [][Next]_vars

-----------------------------------------------------------------------------
TypeOK ==
    /\ FilingTypeOK
    /\ at \in [Calls -> {"idle", "saving", "writing"}]
    /\ disk \in [TypesFiled -> Form \cup {NoForm}]
    /\ queue \in Seq([type : TypesFiled, form : Form \cup {NoForm}, by : Calls \cup {NoCall}])
    /\ page \in [type : TypesFiled \cup {"none"}, form : Form \cup {NoForm}, step : 0 .. LastStep,
                 restored : BOOLEAN, send : Calls \cup {NoCall}]
    /\ presses \in 0 .. MaxPresses
    /\ pc \in [Calls -> {"idle", "creating", "submitting", "clearing"}]
    /\ sent \in [Calls -> [type : TypesFiled \cup {"none"}, form : Form \cup {NoForm},
                           id : Balaghs \cup {NoFiling}]]
    /\ wire \in [Calls -> {"none", "create", "created", "submit", "serving", "submitted", "failed"}]

(* However answers are lost or late, pages left and the app killed, the
   office has no more balaghs than the taxpayer has pressed Send. *)
OnePressOneBalagh == Cardinality({f \in Balaghs : status[f] # "none"}) <= presses

(* The stored draft is only cleared for a balagh the office has: it is
   submitted, under the type and with the form that were on the page. *)
ClearedIsFiled ==
    \A c \in Calls : pc[c] = "clearing" =>
        LET f == sent[c].id IN
        /\ f \in Balaghs /\ status[f] = "submitted"
        /\ declared[f] = sent[c].type /\ StoredForm(f) = sent[c].form

(* Every send under way has its page open. *)
SendsKeepTheirPage == \A c \in Calls : pc[c] # "idle" => page.send = c

(* A stored draft is removed only by a taxpayer who discards it, or when the
   office has a submitted balagh with that very form. *)
DraftsEndAsBalaghs ==
    \A type \in TypesFiled : disk[type] # NoForm /\ disk'[type] = NoForm =>
        \/ Head(queue).by = NoCall
        \/ \E f \in Balaghs : /\ status[f] = "submitted" /\ declared[f] = type
                             /\ StoredForm(f) = disk[type]

(* A send that outlives its page is all that loses a form the taxpayer has
   filled in and not sent: neither a draft written while a send is under way,
   nor lost or late answers, nor the end of the app does. *)
OnlySendsLeftBehindLose == []SendsKeepTheirPage => [][DraftsEndAsBalaghs]_vars
=============================================================================

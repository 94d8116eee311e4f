-------------------------- MODULE BalaghFormProofs --------------------------
(***************************************************************************)
(* What the taxpayer may rely on when a form is sent, for any number of    *)
(* forms, calls and balaghs, whatever the network loses or delays and      *)
(* whenever the app is killed.                                             *)
(*                                                                         *)
(* SendsInOrder follows a send from the app to the office and back: a send *)
(* has a balagh of its own, which holds the form on the page, the call     *)
(* that serves the send works on that balagh with that form, and an answer *)
(* that says submitted was given after it was.                             *)
(***************************************************************************)
EXTENDS BalaghForm, FilingsProofs, FiniteSetTheorems

MaybeForm == Form \cup {NoForm}
Operation == [type : TypesFiled, form : MaybeForm, by : Calls \cup {NoCall}]
Sent == [type : TypesFiled \cup {"none"}, form : MaybeForm, id : Balaghs \cup {NoFiling}]

(* The variables of the app hold what TypeOK says. *)
AppTypeOK ==
    /\ disk \in [TypesFiled -> MaybeForm]
    /\ queue \in Seq(Operation)
    /\ page \in [type : TypesFiled \cup {"none"}, form : MaybeForm, step : 0 .. LastStep,
                 restored : BOOLEAN, send : Calls \cup {NoCall}]
    /\ presses \in 0 .. MaxPresses
    /\ pc \in [Calls -> {"idle", "creating", "submitting", "clearing"}]
    /\ sent \in [Calls -> Sent]
    /\ wire \in [Calls -> {"none", "create", "created", "submit", "serving", "submitted", "failed"}]

(* A form that is open, and a send, have a type. *)
FormsHaveTypes ==
    /\ page = Closed \/ page.type \in TypesFiled
    /\ \A c \in Calls : wire[c] # "none" \/ pc[c] # "idle" => sent[c].type \in TypesFiled

LastForm(f) == snapshots[f][Len(snapshots[f])].form

(* The balagh of a send is there, and as it was sent. *)
BalaghIsAsSent(c, f) ==
    status[f] # "none" /\ declared[f] = sent[c].type /\ LastForm(f) = sent[c].form

BalaghsAreAsSent ==
    \A c \in Calls, f \in Balaghs : sent[c].id = f => BalaghIsAsSent(c, f)

(* Two sends have two balaghs. *)
BalaghsAreTheirOwn ==
    \A c, d \in Calls : c # d /\ sent[c].id # NoFiling => sent[c].id # sent[d].id

(* What the app and the network know of the balagh of a send. *)
AnswersAreTrue ==
    \A c \in Calls :
        /\ wire[c] \in {"created", "submit", "serving", "submitted"} => sent[c].id \in Balaghs
        /\ pc[c] = "clearing" => sent[c].id \in Balaghs /\ wire[c] = "none"
        /\ \A f \in Balaghs : sent[c].id = f /\ (wire[c] = "submitted" \/ pc[c] = "clearing") =>
              status[f] = "submitted"

(* The call of the API that serves a send. *)
ServedAsSent ==
    \A c \in Calls : at[c] # "idle" =>
        /\ wire[c] = "serving" /\ at[c] \in {"saving", "writing"}
        /\ on[c] = sent[c].id
        /\ copy[c].status = "submitted" /\ copy[c].form = sent[c].form

SendsInOrder ==
    FormsHaveTypes /\ BalaghsAreAsSent /\ BalaghsAreTheirOwn /\ AnswersAreTrue /\ ServedAsSent

Existing == {f \in Balaghs : status[f] # "none"}
Creating == {c \in Calls : wire[c] = "create"}

(* A balagh that exists, or is asked for, was asked for by one press. *)
PressesCount ==
    /\ IsFiniteSet(Existing) /\ IsFiniteSet(Creating)
    /\ Cardinality(Existing) + Cardinality(Creating) <= presses

FormInv == FilingInv /\ AppTypeOK /\ SendsInOrder /\ PressesCount

-----------------------------------------------------------------------------
LEMMA FormInitInv == Init => FormInv
<1> SUFFICES ASSUME Init PROVE FormInv
  OBVIOUS
<1>1. FilingInv
  BY FilingInitInv DEF Init
<1>2. AppTypeOK
  <2>1. disk \in [TypesFiled -> MaybeForm] /\ presses \in 0 .. MaxPresses
    BY FormAssumption DEF Init, MaybeForm
  <2>2. queue \in Seq(Operation)
    BY DEF Init
  <2>3. page \in [type : TypesFiled \cup {"none"}, form : MaybeForm, step : 0 .. LastStep,
                  restored : BOOLEAN, send : Calls \cup {NoCall}]
    BY FormAssumption DEF Init, Closed, MaybeForm
  <2>4. /\ pc \in [Calls -> {"idle", "creating", "submitting", "clearing"}]
        /\ sent \in [Calls -> Sent]
        /\ wire \in [Calls -> {"none", "create", "created", "submit", "serving", "submitted", "failed"}]
    BY DEF Init, Nothing, Sent, MaybeForm
  <2>5. QED BY <2>1, <2>2, <2>3, <2>4 DEF AppTypeOK
<1>3. SendsInOrder
  <2>1. FormsHaveTypes /\ AnswersAreTrue
    BY DEF Init, FormsHaveTypes, AnswersAreTrue
  <2>2. \A c \in Calls : sent[c].id = NoFiling /\ at[c] = "idle"
    BY DEF Init, FilingInit, Nothing
  <2>3. QED BY <2>1, <2>2, FilingAssumption
        DEF SendsInOrder, BalaghsAreAsSent, BalaghsAreTheirOwn, ServedAsSent
<1>4. PressesCount
  <2>1. Existing = {} /\ Creating = {} /\ presses = 0
    BY DEF Init, FilingInit, Existing, Creating, Filed
  <2>2. QED BY <2>1, FS_EmptySet DEF PressesCount
<1>5. QED BY <1>1, <1>2, <1>3, <1>4 DEF FormInv

(* A step that takes nothing from the office and asks it for nothing new.   *)
LEMMA QuietStep ==
    ASSUME FormInv, UNCHANGED <<filingVars, sent, presses>>,
           AppTypeOK', FormsHaveTypes', AnswersAreTrue',
           \A c \in Calls : wire'[c] = "create" => wire[c] = "create",
           \A c \in Calls : wire[c] = "serving" => wire'[c] = "serving"
    PROVE  FormInv'
<1> USE DEF FormInv
<1>1. FilingInv'
  <2>1. UNCHANGED <<rowVars, copyVars>> /\ at' = at
    BY DEF filingVars
  <2>2. at \in [Calls -> At]
    BY DEF FilingInv
  <2>3. QED BY <2>1, <2>2, FilingFrame
<1>2. SendsInOrder'
  <2>1. BalaghsAreAsSent' /\ BalaghsAreTheirOwn'
    BY DEF SendsInOrder, BalaghsAreAsSent, BalaghIsAsSent, LastForm, BalaghsAreTheirOwn,
           filingVars, rowVars
  <2>2. ServedAsSent'
    BY DEF SendsInOrder, ServedAsSent, filingVars, copyVars
  <2>3. QED BY <2>1, <2>2 DEF SendsInOrder
<1>3. PressesCount'
  <2>1. Existing' = Existing /\ Creating' \subseteq Creating
    BY DEF Existing, Creating, filingVars, rowVars
  <2>2. /\ IsFiniteSet(Creating') /\ Cardinality(Creating') <= Cardinality(Creating)
        /\ Cardinality(Creating') \in Nat
    BY <2>1, FS_Subset, FS_CardinalityType DEF PressesCount
  <2>3. Cardinality(Creating) \in Nat /\ Cardinality(Existing) \in Nat /\ presses \in Nat
    BY FS_CardinalityType DEF PressesCount, AppTypeOK
  <2>4. QED BY <2>1, <2>2, <2>3 DEF PressesCount
<1>4. QED BY <1>1, <1>2, <1>3

(* A write that is asked for joins the queue. *)
LEMMA AskType ==
    ASSUME AppTypeOK, NEW type \in TypesFiled, NEW form \in MaybeForm,
           NEW c \in Calls \cup {NoCall}, Ask(type, form, c)
    PROVE  queue' \in Seq(Operation)
<1>1. [type |-> type, form |-> form, by |-> c] \in Operation
  BY DEF Operation
<1>2. \A op \in Operation : Append(queue, op) \in Seq(Operation)
  BY DEF AppTypeOK
<1>3. QED BY <1>1, <1>2 DEF Ask

(* What the taxpayer does on the page, and the storage on its own, leaves   *)
(* the sends alone.                                                         *)
LEMMA PageInv ==
    ASSUME FormInv,
           \/ \E type \in TypesFiled : \E form \in FormsOf(TypesFiled) \cup {NoForm} : Open(type, form)
           \/ \E form \in FormsOf(TypesFiled) : Fill(form)
           \/ NextStep \/ Back \/ Discard \/ Perform
    PROVE  FormInv'
<1> DEFINE Pages == [type : TypesFiled \cup {"none"}, form : MaybeForm, step : 0 .. LastStep,
                     restored : BOOLEAN, send : Calls \cup {NoCall}]
<1>1. page \in Pages /\ (page = Closed \/ page.type \in TypesFiled) /\ queue \in Seq(Operation)
      /\ AppTypeOK /\ LastStep \in Nat /\ FormsOf(TypesFiled) \subseteq Form /\ Closed \in Pages
  BY FormAssumption DEF FormInv, SendsInOrder, FormsHaveTypes, AppTypeOK, FormsOf, Form, Closed, MaybeForm
<1>2. /\ UNCHANGED <<filingVars, sent, presses, pc, wire>>
      /\ disk' \in [TypesFiled -> MaybeForm] /\ queue' \in Seq(Operation)
      /\ page' \in Pages /\ (page' = Closed \/ page'.type \in TypesFiled)
  <2>1. CASE \E type \in TypesFiled : \E form \in FormsOf(TypesFiled) \cup {NoForm} : Open(type, form)
    BY <1>1, <2>1 DEF Open, MaybeForm, AppTypeOK
  <2>2. CASE \E form \in FormsOf(TypesFiled) : Fill(form)
    BY <1>1, <2>2 DEF Fill, MaybeForm, AppTypeOK
  <2>3. CASE NextStep
    <3>1. page.type \in TypesFiled /\ page.form \in MaybeForm /\ Ask(page.type, page.form, NoCall)
      BY <1>1, <2>3 DEF NextStep, Complete
    <3>2. queue' \in Seq(Operation)
      BY <1>1, <3>1, AskType
    <3>3. QED BY <1>1, <2>3, <3>1, <3>2, SMTT(20) DEF NextStep, AppTypeOK
  <2>4. CASE Back
    BY <1>1, <2>4 DEF Back, AppTypeOK
  <2>5. CASE Discard
    <3>1. page.type \in TypesFiled /\ Ask(page.type, NoForm, NoCall)
      BY <1>1, <2>5 DEF Discard, Closed
    <3>2. queue' \in Seq(Operation)
      BY <1>1, <3>1, AskType DEF MaybeForm
    <3>3. QED BY <1>1, <2>5, <3>1, <3>2 DEF Discard, AppTypeOK
  <2>6. CASE Perform
    <3>1. Head(queue) \in Operation /\ Tail(queue) \in Seq(Operation)
      BY <1>1, <2>6 DEF Perform
    <3>2. disk' \in [TypesFiled -> MaybeForm]
      BY <1>1, <2>6, <3>1 DEF Perform, Operation, AppTypeOK
    <3>3. QED BY <1>1, <2>6, <3>1, <3>2 DEF Perform
  <2>7. QED BY <2>1, <2>2, <2>3, <2>4, <2>5, <2>6
<1>3. AppTypeOK'
  BY <1>1, <1>2 DEF AppTypeOK
<1>4. FormsHaveTypes' /\ AnswersAreTrue'
  BY <1>2 DEF FormInv, SendsInOrder, FormsHaveTypes, AnswersAreTrue, filingVars, rowVars
<1>5. QED BY <1>2, <1>3, <1>4, QuietStep

(* What passes between the app and the office, and the app being killed.    *)
LEMMA TransportInv ==
    ASSUME FormInv,
           \/ \E c \in Calls : Created(c) \/ Submitted(c) \/ GiveUp(c) \/ Lose(c)
           \/ Kill
    PROVE  FormInv'
<1>1. /\ AppTypeOK /\ FormsHaveTypes /\ AnswersAreTrue
      /\ page = Closed \/ page.type \in TypesFiled
  BY DEF FormInv, SendsInOrder, FormsHaveTypes
<1>2. CASE \E c \in Calls : Created(c) \/ Submitted(c) \/ GiveUp(c) \/ Lose(c)
  <2>1. PICK c \in Calls : Created(c) \/ Submitted(c) \/ GiveUp(c) \/ Lose(c)
    BY <1>2
  <2>2. PICK where \in {"idle", "creating", "submitting", "clearing"},
             what \in {"none", "create", "created", "submit", "serving", "submitted", "failed"} :
          /\ pc' = [pc EXCEPT ![c] = where] /\ wire' = [wire EXCEPT ![c] = what]
          /\ what = "create" => wire[c] = "create"
          /\ wire[c] = "serving" => what = "serving"
          /\ what # "none" \/ where # "idle" => wire[c] # "none" \/ pc[c] # "idle"
          /\ what \in {"created", "submit", "serving", "submitted"} =>
                wire[c] \in {"created", "submit", "serving", "submitted"}
          /\ what = "submitted" => wire[c] = "submitted"
          /\ where = "clearing" => what = "none" /\ (pc[c] = "clearing" \/ wire[c] = "submitted")
          /\ pc[c] = "clearing" => what = "none"
    <3>1. CASE Created(c)
      BY <3>1 DEF Created, Wait
    <3>2. CASE Submitted(c)
      BY <3>2 DEF Submitted, Wait
    <3>3. CASE GiveUp(c)
      <4> DEFINE what == IF wire[c] = "failed" THEN "none" ELSE wire[c]
      <4>1. /\ pc[c] \in {"creating", "submitting"}
            /\ pc' = [pc EXCEPT ![c] = "idle"] /\ wire' = [wire EXCEPT ![c] = what]
        BY <3>3 DEF GiveUp, Wait
      <4>2. what \in {"none", "create", "created", "submit", "serving", "submitted", "failed"}
            /\ (what = "none" \/ what = wire[c])
        BY <1>1 DEF AppTypeOK
      <4>3. wire[c] = "serving" => what = "serving"
        OBVIOUS
      <4> HIDE DEF what
      <4>4. QED BY <4>1, <4>2, <4>3
    <3>4. CASE Lose(c)
      <4>1. /\ pc \in [Calls -> {"idle", "creating", "submitting", "clearing"}]
            /\ wire' = [wire EXCEPT ![c] = "none"] /\ pc' = pc
            /\ wire[c] \in {"create", "created", "submit", "submitted", "failed"}
        BY <1>1, <3>4 DEF Lose, AppTypeOK
      <4>2. PICK where \in {"idle", "creating", "submitting", "clearing"} :
              pc[c] = where /\ pc' = [pc EXCEPT ![c] = where]
        BY <4>1
      <4>3. where # "clearing"
        BY <1>1, <4>1, <4>2 DEF AnswersAreTrue
      <4>4. wire[c] # "none" /\ wire[c] # "serving"
        BY <4>1
      <4>5. QED BY <4>1, <4>2, <4>3, <4>4
    <3>5. QED BY <2>1, <3>1, <3>2, <3>3, <3>4
  <2>3. UNCHANGED <<filingVars, sent, presses, disk>>
    BY <2>1 DEF Created, Submitted, GiveUp, Lose
  <2>4. /\ wire \in [Calls -> {"none", "create", "created", "submit", "serving", "submitted", "failed"}]
        /\ pc \in [Calls -> {"idle", "creating", "submitting", "clearing"}]
    BY <1>1 DEF AppTypeOK
  <2>5. /\ pc'[c] = where /\ wire'[c] = what
        /\ \A d \in Calls : d # c => pc'[d] = pc[d] /\ wire'[d] = wire[d]
    BY <2>2, <2>4
  <2>6. queue' \in Seq(Operation)
    <3>1. CASE Submitted(c)
      <4>1. sent[c].type \in TypesFiled /\ Ask(sent[c].type, NoForm, c)
        BY <1>1, <3>1 DEF Submitted, FormsHaveTypes
      <4>2. QED BY <1>1, <4>1, AskType DEF MaybeForm
    <3>2. CASE ~Submitted(c)
      BY <1>1, <2>1, <3>2 DEF Created, GiveUp, Lose, AppTypeOK
    <3>3. QED BY <3>1, <3>2
  <2>7. page' \in [type : TypesFiled \cup {"none"}, form : MaybeForm, step : 0 .. LastStep,
                   restored : BOOLEAN, send : Calls \cup {NoCall}]
        /\ (page' = Closed \/ page'.type \in TypesFiled)
    <3>1. page' = page \/ (page.send = c /\ page' = [page EXCEPT !.send = NoCall])
      BY <2>1, Zenon DEF Created, Submitted, GiveUp, Lose
    <3>2. page = Closed => page.send # c
      BY <2>1, FormAssumption DEF Closed
    <3>3. QED BY <1>1, <3>1, <3>2 DEF AppTypeOK
  <2>8. AppTypeOK'
    BY <1>1, <2>2, <2>3, <2>4, <2>6, <2>7 DEF AppTypeOK
  <2>9. FormsHaveTypes'
    BY <1>1, <2>2, <2>3, <2>5, <2>7 DEF FormsHaveTypes
  <2>10. AnswersAreTrue'
    <3>1. status' = status /\ sent' = sent
      BY <2>3 DEF filingVars, rowVars
    <3>2. QED BY <1>1, <2>2, <2>5, <3>1 DEF AnswersAreTrue
  <2>11. \A d \in Calls : /\ wire'[d] = "create" => wire[d] = "create"
                          /\ wire[d] = "serving" => wire'[d] = "serving"
    BY <2>2, <2>5
  <2>12. QED BY <2>3, <2>8, <2>9, <2>10, <2>11, QuietStep
<1>3. CASE Kill
  <2>1. UNCHANGED <<filingVars, sent, presses, disk, wire>>
        /\ page' = Closed /\ queue' = <<>> /\ pc' = [c \in Calls |-> "idle"]
    BY <1>3 DEF Kill
  <2>2. AppTypeOK'
    <3>1. Closed \in [type : TypesFiled \cup {"none"}, form : MaybeForm, step : 0 .. LastStep,
                      restored : BOOLEAN, send : Calls \cup {NoCall}]
      BY FormAssumption DEF Closed, MaybeForm
    <3>2. <<>> \in Seq(Operation)
      OBVIOUS
    <3>3. QED BY <1>1, <2>1, <3>1, <3>2 DEF AppTypeOK
  <2>3. FormsHaveTypes' /\ AnswersAreTrue'
    BY <1>1, <2>1 DEF FormsHaveTypes, AnswersAreTrue, filingVars, rowVars
  <2>4. QED BY <2>1, <2>2, <2>3, QuietStep
<1>4. QED BY <1>2, <1>3

(* The write that clears the draft was executed, and the send is over.      *)
LEMMA ClearedInv ==
    ASSUME FormInv, NEW c \in Calls, Cleared(c)
    PROVE  FormInv'
<1>1. /\ AppTypeOK /\ FilingInv /\ PressesCount
      /\ FormsHaveTypes /\ BalaghsAreAsSent /\ BalaghsAreTheirOwn /\ AnswersAreTrue /\ ServedAsSent
      /\ page = Closed \/ page.type \in TypesFiled
  BY DEF FormInv, SendsInOrder, FormsHaveTypes
<1>2. /\ pc[c] = "clearing" /\ UNCHANGED <<filingVars, disk, queue, presses>>
      /\ pc' = [pc EXCEPT ![c] = "idle"] /\ wire' = [wire EXCEPT ![c] = "none"]
      /\ page' = Closed \/ page' = page
      /\ sent' = [sent EXCEPT ![c] = Nothing]
  BY DEF Cleared, Wait
<1>3. UNCHANGED <<status, declared, snapshots, history, selected, at, on, copy, previous>>
  BY <1>2 DEF filingVars, rowVars, copyVars
<1>4. wire[c] = "none" /\ at[c] = "idle"
  BY <1>1, <1>2 DEF AnswersAreTrue, ServedAsSent
<1>5. /\ pc'[c] = "idle" /\ wire'[c] = "none" /\ sent'[c].id = NoFiling
      /\ \A d \in Calls : wire'[d] = wire[d]
      /\ \A d \in Calls : d # c => pc'[d] = pc[d] /\ sent'[d] = sent[d]
  BY <1>1, <1>2, <1>4 DEF AppTypeOK, Nothing
<1>6. AppTypeOK'
  <2>1. Closed \in [type : TypesFiled \cup {"none"}, form : MaybeForm, step : 0 .. LastStep,
                    restored : BOOLEAN, send : Calls \cup {NoCall}]
    BY FormAssumption DEF Closed, MaybeForm
  <2>2. Nothing \in Sent
    BY DEF Nothing, Sent, MaybeForm
  <2>3. QED BY <1>1, <1>2, <2>1, <2>2 DEF AppTypeOK
<1>7. FilingInv'
  <2>1. at' \in [Calls -> At]
    BY <1>1, <1>3 DEF FilingInv
  <2>2. QED BY <1>1, <1>3, <2>1, FilingFrame DEF rowVars, copyVars
<1>8. FormsHaveTypes'
  BY <1>1, <1>2, <1>5 DEF FormsHaveTypes
<1>9. BalaghsAreAsSent' /\ BalaghsAreTheirOwn'
  <2>1. NoFiling \notin Balaghs
    BY FilingAssumption
  <2>2. BalaghsAreAsSent'
    BY <1>1, <1>3, <1>5, <2>1 DEF BalaghsAreAsSent, BalaghIsAsSent, LastForm
  <2>3. BalaghsAreTheirOwn'
    BY <1>1, <1>5 DEF BalaghsAreTheirOwn
  <2>4. QED BY <2>2, <2>3
<1>10. AnswersAreTrue'
  BY <1>1, <1>3, <1>5 DEF AnswersAreTrue
<1>11. ServedAsSent'
  BY <1>1, <1>3, <1>4, <1>5 DEF ServedAsSent
<1>12. PressesCount'
  <2>1. Existing' = Existing /\ Creating' = Creating
    BY <1>3, <1>5 DEF Existing, Creating
  <2>2. QED BY <1>1, <1>2, <2>1 DEF PressesCount
<1>13. QED BY <1>6, <1>7, <1>8, <1>9, <1>10, <1>11, <1>12 DEF FormInv, SendsInOrder

(* A press asks for one balagh. *)
LEMMA PressInv ==
    ASSUME FormInv, NEW c \in Calls, Press(c)
    PROVE  FormInv'
<1>1. /\ AppTypeOK /\ FilingInv /\ PressesCount
      /\ FormsHaveTypes /\ BalaghsAreAsSent /\ BalaghsAreTheirOwn /\ AnswersAreTrue /\ ServedAsSent
      /\ page = Closed \/ page.type \in TypesFiled
  BY DEF FormInv, SendsInOrder, FormsHaveTypes
<1>2. PICK type \in TypesFiled, form \in MaybeForm :
        sent' = [sent EXCEPT ![c] = [type |-> type, form |-> form, id |-> NoFiling]]
  BY <1>1 DEF Press, Complete, AppTypeOK
<1>3. /\ page # Closed /\ pc[c] = "idle" /\ wire[c] = "none" /\ at[c] = "idle"
      /\ presses < MaxPresses /\ presses' = presses + 1
      /\ page' = [page EXCEPT !.send = c]
      /\ pc' = [pc EXCEPT ![c] = "creating"] /\ wire' = [wire EXCEPT ![c] = "create"]
      /\ UNCHANGED <<status, declared, snapshots, history, selected, at, on, copy, previous,
                     disk, queue>>
  BY DEF Press, Complete, Wait, filingVars, rowVars, copyVars
<1>4. /\ pc'[c] = "creating" /\ wire'[c] = "create"
      /\ sent'[c].id = NoFiling /\ sent'[c].type \in TypesFiled
      /\ \A d \in Calls : d # c => pc'[d] = pc[d] /\ wire'[d] = wire[d] /\ sent'[d] = sent[d]
  BY <1>1, <1>2, <1>3 DEF AppTypeOK
<1>5. AppTypeOK'
  <2>1. presses' \in 0 .. MaxPresses
    BY <1>1, <1>3, FormAssumption DEF AppTypeOK
  <2>2. sent' \in [Calls -> Sent]
    BY <1>1, <1>2 DEF AppTypeOK, Sent
  <2>3. QED BY <1>1, <1>3, <2>1, <2>2 DEF AppTypeOK
<1>6. FilingInv'
  <2>1. at' \in [Calls -> At]
    BY <1>1, <1>3 DEF FilingInv
  <2>2. QED BY <1>1, <1>3, <2>1, FilingFrame DEF rowVars, copyVars
<1>7. FormsHaveTypes'
  <2>1. page'.type = page.type /\ page.type \in TypesFiled
    BY <1>1, <1>3 DEF AppTypeOK
  <2>2. QED BY <1>1, <1>4, <2>1 DEF FormsHaveTypes
<1>8. BalaghsAreAsSent' /\ BalaghsAreTheirOwn'
  <2>1. NoFiling \notin Balaghs
    BY FilingAssumption
  <2>2. BalaghsAreAsSent'
    BY <1>1, <1>3, <1>4, <2>1 DEF BalaghsAreAsSent, BalaghIsAsSent, LastForm
  <2>3. BalaghsAreTheirOwn'
    BY <1>1, <1>4 DEF BalaghsAreTheirOwn
  <2>4. QED BY <2>2, <2>3
<1>9. AnswersAreTrue'
  BY <1>1, <1>3, <1>4 DEF AnswersAreTrue
<1>10. ServedAsSent'
  BY <1>1, <1>3, <1>4 DEF ServedAsSent
<1>11. PressesCount'
  <2>1. Existing' = Existing /\ Creating' = Creating \cup {c} /\ c \notin Creating
    BY <1>3, <1>4 DEF Existing, Creating
  <2>2. IsFiniteSet(Creating') /\ Cardinality(Creating') = Cardinality(Creating) + 1
    BY <1>1, <2>1, FS_AddElement DEF PressesCount
  <2>3. Cardinality(Creating) \in Nat /\ Cardinality(Existing) \in Nat /\ presses \in Nat
    BY <1>1, FS_CardinalityType DEF PressesCount, AppTypeOK
  <2>4. QED BY <1>1, <1>3, <2>1, <2>2, <2>3 DEF PressesCount
<1>12. QED BY <1>5, <1>6, <1>7, <1>8, <1>9, <1>10, <1>11 DEF FormInv, SendsInOrder

(* The office creates the balagh a press asked for. *)
LEMMA ServeCreateInv ==
    ASSUME FormInv, NEW c \in Calls, NEW f \in Balaghs, ServeCreate(c, f)
    PROVE  FormInv'
<1>1. /\ AppTypeOK /\ FilingInv /\ PressesCount
      /\ FormsHaveTypes /\ BalaghsAreAsSent /\ BalaghsAreTheirOwn /\ AnswersAreTrue /\ ServedAsSent
  BY DEF FormInv, SendsInOrder
<1>2. PICK type \in TypesFiled, form \in MaybeForm :
        sent[c].type = type /\ sent[c].form = form /\ Create(f, type, form)
  <2>1. sent[c].type \in TypesFiled /\ sent[c].form \in MaybeForm
    BY <1>1 DEF ServeCreate, FormsHaveTypes, AppTypeOK, Sent
  <2>2. QED BY <2>1 DEF ServeCreate
<1>3. /\ wire[c] = "create" /\ status[f] = "none" /\ form.type = type
      /\ status' = [status EXCEPT ![f] = "draft"]
      /\ declared' = [declared EXCEPT ![f] = type]
      /\ snapshots' = [snapshots EXCEPT ![f] = <<[version |-> 1, form |-> form]>>]
      /\ wire' = [wire EXCEPT ![c] = "created"]
      /\ sent' = [sent EXCEPT ![c].id = f]
      /\ UNCHANGED <<at, on, copy, previous, disk, queue, page, presses, pc>>
  BY <1>2 DEF ServeCreate, Create, FormMatches, copyVars
<1>4. form \in Forms(f)
  <2>1. form \in Form
    BY <1>3, FilingAssumption DEF MaybeForm, NoForm, Types
  <2>2. \A g \in Form : g.type \in TypesFiled => g \in FormsOf(TypesFiled)
    BY DEF Form, FormsOf
  <2>3. QED BY <1>3, <2>1, <2>2 DEF Forms
<1>5. FilingInv'
  BY <1>1, <1>2, <1>4, CreateInv DEF Filed
<1>6. /\ at[c] = "idle" /\ pc[c] # "clearing"
      /\ \A d \in Calls : sent[d].id # f
  BY <1>1, <1>3 DEF AnswersAreTrue, ServedAsSent, BalaghsAreAsSent, BalaghIsAsSent
<1>7. /\ status'[f] = "draft" /\ declared'[f] = type /\ LastForm(f)' = form
      /\ \A g \in Balaghs : g # f =>
            status'[g] = status[g] /\ declared'[g] = declared[g] /\ snapshots'[g] = snapshots[g]
  <2>1. f \in Filed /\ \A g \in Balaghs : g \in Filed
    BY DEF Filed
  <2>2. snapshots'[f] = <<[version |-> 1, form |-> form]>>
    BY <1>1, <1>3, <2>1 DEF FilingInv, FilingTypeOK
  <2>3. LastForm(f)' = form
    BY <2>2 DEF LastForm
  <2>4. QED BY <1>1, <1>3, <2>1, <2>3 DEF FilingInv, FilingTypeOK
<1>8. /\ wire'[c] = "created"
      /\ sent'[c].id = f /\ sent'[c].type = type /\ sent'[c].form = form
      /\ \A d \in Calls : d # c => wire'[d] = wire[d] /\ sent'[d] = sent[d]
  BY <1>1, <1>2, <1>3 DEF AppTypeOK, Sent
<1>9. AppTypeOK'
  <2>1. sent' \in [Calls -> Sent]
    BY <1>1, <1>3 DEF AppTypeOK, Sent
  <2>2. QED BY <1>1, <1>3, <2>1 DEF AppTypeOK
<1>10. FormsHaveTypes'
  BY <1>1, <1>3, <1>8 DEF FormsHaveTypes
<1>11. BalaghsAreAsSent'
  <2>1. SUFFICES ASSUME NEW d \in Calls, NEW g \in Balaghs, sent'[d].id = g
                 PROVE  status'[g] # "none" /\ declared'[g] = sent'[d].type
                        /\ LastForm(g)' = sent'[d].form
    BY DEF BalaghsAreAsSent, BalaghIsAsSent
  <2>2. CASE d = c
    BY <1>7, <1>8, <2>1, <2>2
  <2>3. CASE d # c
    <3>1. g # f /\ sent'[d] = sent[d] /\ sent[d].id = g
      BY <1>6, <1>8, <2>1, <2>3
    <3>2. snapshots'[g] = snapshots[g] /\ status'[g] = status[g] /\ declared'[g] = declared[g]
      BY <1>7, <3>1
    <3>3. status[g] # "none" /\ declared[g] = sent[d].type /\ LastForm(g) = sent[d].form
      BY <1>1, <3>1 DEF BalaghsAreAsSent, BalaghIsAsSent
    <3>4. QED BY <3>1, <3>2, <3>3 DEF LastForm
  <2>4. QED BY <2>2, <2>3
<1>12. BalaghsAreTheirOwn'
  BY <1>1, <1>6, <1>8 DEF BalaghsAreTheirOwn
<1>13. AnswersAreTrue'
  <2>1. SUFFICES ASSUME NEW d \in Calls
                 PROVE  /\ wire'[d] \in {"created", "submit", "serving", "submitted"} =>
                              sent'[d].id \in Balaghs
                        /\ pc[d] = "clearing" => sent'[d].id \in Balaghs /\ wire'[d] = "none"
                        /\ \A g \in Balaghs :
                              sent'[d].id = g /\ (wire'[d] = "submitted" \/ pc[d] = "clearing") =>
                                 status'[g] = "submitted"
    BY <1>3 DEF AnswersAreTrue
  <2>2. CASE d = c
    BY <1>6, <1>8, <2>2
  <2>3. CASE d # c
    <3>1. sent'[d] = sent[d] /\ wire'[d] = wire[d] /\ sent[d].id # f
      BY <1>6, <1>8, <2>3
    <3>2. QED BY <1>1, <1>7, <3>1 DEF AnswersAreTrue
  <2>4. QED BY <2>2, <2>3
<1>14. ServedAsSent'
  BY <1>1, <1>3, <1>6, <1>8 DEF ServedAsSent
<1>15. PressesCount'
  <2>1. Creating' = Creating \ {c} /\ c \in Creating
    BY <1>3, <1>8 DEF Creating
  <2>2. Existing' = Existing \cup {f} /\ f \notin Existing
    BY <1>3, <1>7 DEF Existing
  <2>3. /\ IsFiniteSet(Creating') /\ Cardinality(Creating') = Cardinality(Creating) - 1
        /\ IsFiniteSet(Existing') /\ Cardinality(Existing') = Cardinality(Existing) + 1
    BY <1>1, <2>1, <2>2, FS_AddElement, FS_RemoveElement DEF PressesCount
  <2>4. Cardinality(Creating) \in Nat /\ Cardinality(Existing) \in Nat /\ presses \in Nat
    BY <1>1, FS_CardinalityType DEF PressesCount, AppTypeOK
  <2>5. QED BY <1>1, <1>3, <2>3, <2>4 DEF PressesCount
<1>16. QED BY <1>5, <1>9, <1>10, <1>11, <1>12, <1>13, <1>14, <1>15 DEF FormInv, SendsInOrder

(* The office takes the balagh of a send to submit it, with the form that   *)
(* was sent.                                                                *)
LEMMA ServeSubmitInv ==
    ASSUME FormInv, NEW c \in Calls, ServeSubmit(c)
    PROVE  FormInv'
<1>1. /\ AppTypeOK /\ FilingInv /\ PressesCount
      /\ FormsHaveTypes /\ BalaghsAreAsSent /\ BalaghsAreTheirOwn /\ AnswersAreTrue /\ ServedAsSent
  BY DEF FormInv, SendsInOrder
<1>2. PICK f \in Balaghs : sent[c].id = f /\ Submit(c, f)
  BY <1>1 DEF ServeSubmit, AnswersAreTrue
<1>3. FilingInv'
  BY <1>1, <1>2, TakeInv DEF Filed
<1>4. /\ wire[c] = "submit" /\ status[f] = "draft" /\ at[c] = "idle"
      /\ at' = [at EXCEPT ![c] = "saving"] /\ on' = [on EXCEPT ![c] = f]
      /\ copy' = [copy EXCEPT ![c] = [status |-> "submitted", form |-> StoredForm(f)]]
      /\ wire' = [wire EXCEPT ![c] = "serving"]
      /\ UNCHANGED <<status, declared, snapshots, history, selected, previous,
                     disk, queue, page, presses, pc, sent>>
  BY <1>2 DEF ServeSubmit, Submit, Take, Goto, rowVars
<1>5. StoredForm(f) = sent[c].form
  <2>1. StoredForm(f) = LastForm(f)
    BY <1>1, <1>4, StoredFormIsLast DEF StoredForm, LastForm, Filed
  <2>2. QED BY <1>1, <1>2, <2>1 DEF BalaghsAreAsSent, BalaghIsAsSent
<1>6. /\ wire'[c] = "serving" /\ at'[c] = "saving" /\ on'[c] = f
      /\ copy'[c].status = "submitted" /\ copy'[c].form = sent[c].form
      /\ pc[c] # "clearing"
      /\ \A d \in Calls : d # c => /\ wire'[d] = wire[d] /\ at'[d] = at[d]
                                   /\ on'[d] = on[d] /\ copy'[d] = copy[d]
  BY <1>1, <1>4, <1>5 DEF AppTypeOK, FilingInv, FilingTypeOK, AnswersAreTrue
<1>7. AppTypeOK'
  BY <1>1, <1>4 DEF AppTypeOK
<1>8. FormsHaveTypes'
  BY <1>1, <1>4, <1>6 DEF FormsHaveTypes
<1>9. BalaghsAreAsSent' /\ BalaghsAreTheirOwn'
  BY <1>1, <1>4 DEF BalaghsAreAsSent, BalaghIsAsSent, LastForm, BalaghsAreTheirOwn
<1>10. AnswersAreTrue'
  BY <1>1, <1>2, <1>4, <1>6 DEF AnswersAreTrue
<1>11. ServedAsSent'
  BY <1>1, <1>2, <1>4, <1>6 DEF ServedAsSent
<1>12. PressesCount'
  <2>1. Existing' = Existing /\ Creating' = Creating
    BY <1>4, <1>6 DEF Existing, Creating
  <2>2. QED BY <1>1, <1>4, <2>1 DEF PressesCount
<1>13. QED BY <1>3, <1>7, <1>8, <1>9, <1>10, <1>11, <1>12 DEF FormInv, SendsInOrder

(* The statements of save() for the balagh of a send. *)
LEMMA SavedInv ==
    ASSUME FormInv, NEW c \in Calls, Saved(c)
    PROVE  FormInv'
<1>1. /\ AppTypeOK /\ FilingInv /\ PressesCount
      /\ FormsHaveTypes /\ BalaghsAreAsSent /\ BalaghsAreTheirOwn /\ AnswersAreTrue /\ ServedAsSent
  BY DEF FormInv, SendsInOrder
<1>2. PICK f \in Balaghs : sent[c].id = f
  BY <1>1 DEF Saved, AnswersAreTrue
<1>3. /\ wire[c] = "serving" /\ pc[c] # "clearing" /\ at[c] \in {"saving", "writing"}
      /\ on[c] = f /\ copy[c].status = "submitted" /\ copy[c].form = sent[c].form
      /\ UNCHANGED <<disk, queue, page, presses, pc, sent>>
  <2>1. at[c] # "idle"
    BY DEF Saved, ReadPrevious, Save, SaveFails
  <2>2. QED BY <1>1, <1>2, <2>1 DEF Saved, AnswersAreTrue, ServedAsSent
<1>4. FilingInv'
  BY <1>1, ReadPreviousInv, SaveInv, SaveFailsInv DEF Saved
<1>5. PICK what \in {"serving", "submitted", "failed"}, where \in {"idle", "writing"} :
        /\ wire' = [wire EXCEPT ![c] = what] /\ at' = [at EXCEPT ![c] = where]
        /\ what = "serving" <=> where = "writing"
        /\ what = "serving" => UNCHANGED <<on, copy>>
        /\ \A d \in Calls : d # c => on'[d] = on[d] /\ copy'[d] = copy[d]
        /\ what # "submitted" => UNCHANGED <<status, declared, snapshots>>
        /\ what = "submitted" => Save(c)
  <2>1. CASE ReadPrevious(c) /\ UNCHANGED wire
    <3>1. wire' = [wire EXCEPT ![c] = "serving"]
      BY <1>1, <1>3, <2>1 DEF AppTypeOK
    <3>2. QED BY <2>1, <3>1 DEF ReadPrevious, Goto, rowVars
  <2>2. CASE Save(c) /\ wire' = [wire EXCEPT ![c] = "submitted"]
    BY <1>1, <2>2 DEF Save, Rest, Goto, FilingInv, FilingTypeOK
  <2>3. CASE SaveFails(c) /\ wire' = [wire EXCEPT ![c] = "failed"]
    BY <1>1, <2>3 DEF SaveFails, Rest, Goto, rowVars, FilingInv, FilingTypeOK
  <2>4. QED BY <2>1, <2>2, <2>3 DEF Saved
<1>6. /\ wire'[c] = what /\ at'[c] = where
      /\ \A d \in Calls : d # c => wire'[d] = wire[d] /\ at'[d] = at[d]
  BY <1>1, <1>5 DEF AppTypeOK, FilingInv
<1>7. \A d \in Calls : d # c => sent[d].id # f
  <2>1. f # NoFiling
    BY FilingAssumption
  <2>2. QED BY <1>1, <1>2, <2>1 DEF BalaghsAreTheirOwn
<1>8. /\ declared' = declared
      /\ \A g \in Balaghs : g # f => status'[g] = status[g] /\ snapshots'[g] = snapshots[g]
      /\ status'[f] # "none" /\ LastForm(f)' = sent[c].form
      /\ status[f] = "submitted" \/ what = "submitted" => status'[f] = "submitted"
  <2>1. status[f] # "none" /\ LastForm(f) = sent[c].form
    BY <1>1, <1>2 DEF BalaghsAreAsSent, BalaghIsAsSent
  <2>2. CASE what # "submitted"
    BY <1>5, <2>1, <2>2 DEF LastForm
  <2>3. CASE what = "submitted"
    <3>1. /\ f \in Filed /\ status' = [status EXCEPT ![f] = copy[c].status]
          /\ declared' = declared
      BY <1>3, <1>5, <2>3 DEF Save, Filed
    <3>2. PICK row \in Snapshot : row.form = sent[c].form
                               /\ snapshots' = [snapshots EXCEPT ![f] = Append(snapshots[f], row)]
      <4> DEFINE row == [version |-> snapshots[f][Highest(f)].version + 1, form |-> copy[c].form]
      <4>1. snapshots' = [snapshots EXCEPT ![f] = Append(snapshots[f], row)]
        BY <1>3, <1>5, <2>3 DEF Save
      <4>2. snapshots[f][Highest(f)].version \in Nat
        <5>1. snapshots[f] \in Seq(Snapshot) /\ Len(snapshots[f]) > 0
          BY <1>1, <2>1, <3>1 DEF FilingInv, FilingTypeOK, SnapshotsNumbered, Snapshot
        <5>2. Highest(f) = Len(snapshots[f])
          BY <1>1, <2>1, <3>1, StoredFormIsLast
        <5>3. snapshots[f][Highest(f)] \in Snapshot
          BY <5>1, <5>2
        <5>4. QED BY <5>3 DEF Snapshot
      <4>3. copy[c].form \in Form
        BY <1>1, <1>3, <1>5, <2>3 DEF FilingInv, CopiesFit, Object
      <4>4. row \in Snapshot
        BY <4>2, <4>3 DEF Snapshot
      <4>5. row.form = sent[c].form
        BY <1>3
      <4>6. QED BY <4>1, <4>4, <4>5
    <3>3. snapshots[f] \in Seq(Snapshot) /\ snapshots \in [Filed -> Seq(Snapshot)]
          /\ status \in [Filed -> Status \cup {"none"}]
      BY <1>1, <3>1 DEF FilingInv, FilingTypeOK, Snapshot
    <3>4. snapshots'[f] = Append(snapshots[f], row)
      BY <3>1, <3>2, <3>3
    <3>5. Append(snapshots[f], row)[Len(Append(snapshots[f], row))] = row
      BY <3>3, Appended
    <3>6. LastForm(f)' = sent[c].form
      BY <3>2, <3>4, <3>5 DEF LastForm
    <3>7. status'[f] = "submitted"
      BY <1>3, <3>1, <3>3
    <3>8. \A g \in Balaghs : g # f => status'[g] = status[g] /\ snapshots'[g] = snapshots[g]
      BY <3>1, <3>2, <3>3 DEF Filed
    <3>9. QED BY <3>1, <3>6, <3>7, <3>8
  <2>4. QED BY <2>2, <2>3
<1>9. AppTypeOK'
  BY <1>1, <1>3, <1>5 DEF AppTypeOK
<1>10. FormsHaveTypes'
  BY <1>1, <1>3, <1>6 DEF FormsHaveTypes
<1>11. BalaghsAreAsSent'
  <2>1. SUFFICES ASSUME NEW d \in Calls, NEW g \in Balaghs, sent[d].id = g
                 PROVE  status'[g] # "none" /\ declared'[g] = sent[d].type
                        /\ LastForm(g)' = sent[d].form
    BY <1>3 DEF BalaghsAreAsSent, BalaghIsAsSent
  <2>2. status[g] # "none" /\ declared[g] = sent[d].type /\ LastForm(g) = sent[d].form
    BY <1>1, <2>1 DEF BalaghsAreAsSent, BalaghIsAsSent
  <2>3. CASE d = c
    BY <1>2, <1>8, <2>1, <2>2, <2>3
  <2>4. CASE d # c
    <3>1. g # f
      BY <1>7, <2>1, <2>4
    <3>2. status'[g] = status[g] /\ snapshots'[g] = snapshots[g] /\ declared'[g] = declared[g]
      BY <1>8, <3>1
    <3>3. QED BY <2>2, <3>2 DEF LastForm
  <2>5. QED BY <2>3, <2>4
<1>12. BalaghsAreTheirOwn'
  BY <1>1, <1>3 DEF BalaghsAreTheirOwn
<1>13. AnswersAreTrue'
  <2>1. SUFFICES ASSUME NEW d \in Calls
                 PROVE  /\ wire'[d] \in {"created", "submit", "serving", "submitted"} =>
                              sent[d].id \in Balaghs
                        /\ pc[d] = "clearing" => sent[d].id \in Balaghs /\ wire'[d] = "none"
                        /\ \A g \in Balaghs :
                              sent[d].id = g /\ (wire'[d] = "submitted" \/ pc[d] = "clearing") =>
                                 status'[g] = "submitted"
    BY <1>3 DEF AnswersAreTrue
  <2>2. CASE d = c
    BY <1>2, <1>3, <1>6, <1>8, <2>2
  <2>3. CASE d # c
    <3>1. wire'[d] = wire[d] /\ sent[d].id # f
      BY <1>6, <1>7, <2>3
    <3>2. QED BY <1>1, <1>8, <3>1 DEF AnswersAreTrue
  <2>4. QED BY <2>2, <2>3
<1>14. ServedAsSent'
  <2>1. SUFFICES ASSUME NEW d \in Calls, at'[d] # "idle"
                 PROVE  /\ wire'[d] = "serving" /\ at'[d] \in {"saving", "writing"}
                        /\ on'[d] = sent[d].id
                        /\ copy'[d].status = "submitted" /\ copy'[d].form = sent[d].form
    BY <1>3 DEF ServedAsSent
  <2>2. CASE d = c
    BY <1>2, <1>3, <1>5, <1>6, <2>1, <2>2
  <2>3. CASE d # c
    BY <1>1, <1>5, <1>6, <2>1, <2>3 DEF ServedAsSent
  <2>4. QED BY <2>2, <2>3
<1>15. PressesCount'
  <2>1. Existing' = Existing
    BY <1>1, <1>2, <1>8 DEF Existing, BalaghsAreAsSent, BalaghIsAsSent
  <2>2. Creating' = Creating
    BY <1>3, <1>5, <1>6 DEF Creating
  <2>3. QED BY <1>1, <1>3, <2>1, <2>2 DEF PressesCount
<1>16. QED BY <1>4, <1>9, <1>10, <1>11, <1>12, <1>13, <1>14, <1>15 DEF FormInv, SendsInOrder

-----------------------------------------------------------------------------
LEMMA FormNextInv == FormInv /\ [Next]_vars => FormInv'
<1> SUFFICES ASSUME FormInv, [Next]_vars PROVE FormInv'
  OBVIOUS
<1>1. CASE UNCHANGED vars
  <2>1. UNCHANGED <<filingVars, disk, queue, page, presses, pc, sent, wire>>
    BY <1>1 DEF vars, formVars
  <2>2. AppTypeOK' /\ FormsHaveTypes' /\ AnswersAreTrue'
    BY <2>1 DEF FormInv, SendsInOrder, AppTypeOK, FormsHaveTypes, AnswersAreTrue, filingVars, rowVars
  <2>3. QED BY <2>1, <2>2, QuietStep
<1>2. CASE Next
  BY <1>2, PageInv, TransportInv, PressInv, ClearedInv, ServeCreateInv, ServeSubmitInv, SavedInv
  DEF Next
<1>3. QED BY <1>1, <1>2

(* The invariant of the form and the office it sends to. *)
THEOREM FormInvariant == Spec => []FormInv
<1>1. QED BY FormInitInv, FormNextInv, PTL DEF Spec

(* Every variable of the app and of the office keeps its type, and the      *)
(* office serves nothing but submissions.                                   *)
THEOREM FormTypes == Spec => []TypeOK
<1>1. ASSUME FormInv PROVE TypeOK
  <2>1. FilingTypeOK /\ at \in [Calls -> At] /\ AppTypeOK /\ ServedAsSent
    BY <1>1 DEF FormInv, FilingInv, SendsInOrder
  <2>2. at \in [Calls -> {"idle", "saving", "writing"}]
    BY <2>1 DEF ServedAsSent
  <2>3. QED BY <2>1, <2>2 DEF TypeOK, AppTypeOK, MaybeForm, Operation, Sent
<1>2. QED BY <1>1, FormInvariant, PTL

(* Retries, lost and late answers and restarts of the app never make more   *)
(* balaghs than presses of Send.                                            *)
THEOREM PressesMakeBalaghs == Spec => []OnePressOneBalagh
<1>1. ASSUME FormInv PROVE OnePressOneBalagh
  <2>1. /\ Cardinality(Existing) + Cardinality(Creating) <= presses
        /\ Cardinality(Existing) \in Nat /\ Cardinality(Creating) \in Nat /\ presses \in Nat
    BY <1>1, FS_CardinalityType DEF FormInv, PressesCount, AppTypeOK
  <2>2. QED BY <2>1 DEF OnePressOneBalagh, Existing
<1>2. QED BY <1>1, FormInvariant, PTL

(* The draft on the phone is cleared only when the office has submitted the *)
(* very form that was sent.                                                 *)
THEOREM DraftsOutliveFailures == Spec => []ClearedIsFiled
<1>1. ASSUME FormInv PROVE ClearedIsFiled
  <2>1. SUFFICES ASSUME NEW c \in Calls, pc[c] = "clearing"
                 PROVE  /\ sent[c].id \in Balaghs /\ status[sent[c].id] = "submitted"
                        /\ declared[sent[c].id] = sent[c].type
                        /\ StoredForm(sent[c].id) = sent[c].form
    BY DEF ClearedIsFiled
  <2>2. PICK f \in Balaghs : sent[c].id = f
    BY <1>1, <2>1 DEF FormInv, SendsInOrder, AnswersAreTrue
  <2>3. status[f] = "submitted" /\ declared[f] = sent[c].type /\ LastForm(f) = sent[c].form
    BY <1>1, <2>1, <2>2
    DEF FormInv, SendsInOrder, AnswersAreTrue, BalaghsAreAsSent, BalaghIsAsSent
  <2>4. StoredForm(f) = LastForm(f)
    BY <1>1, <2>3, StoredFormIsLast DEF FormInv, StoredForm, LastForm, Filed
  <2>5. QED BY <2>2, <2>3, <2>4
<1>2. QED BY <1>1, FormInvariant, PTL
-----------------------------------------------------------------------------
(* The stored draft while every send keeps its page.                        *)

(* What the storage holds once the first n operations are executed. *)
Shows(n, type, form) ==
    \/ (\A i \in 1 .. n : queue[i].type # type) /\ disk[type] = form
    \/ \E i \in 1 .. n : /\ queue[i].type = type /\ queue[i].form = form
                         /\ \A j \in i + 1 .. n : queue[j].type # type

(* The form that can be sent is the one stored last; a send under way finds *)
(* the form it carries stored last, or a draft that was discarded; and so   *)
(* does the operation that clears it, however many wait before it.          *)
LastStored(type, form) == Shows(Len(queue), type, form)
PageIsStored ==
    page # Closed /\ page.step = LastStep /\ (\A c \in Calls : pc[c] # "clearing") =>
        LastStored(page.type, page.form)
SendsAreStored ==
    \A c \in Calls : pc[c] \in {"creating", "submitting"} =>
        LastStored(sent[c].type, sent[c].form) \/ LastStored(sent[c].type, NoForm)
ClearingIsStored(i, c) ==
    /\ pc[c] = "clearing" /\ queue[i].type = sent[c].type
    /\ Shows(i - 1, sent[c].type, sent[c].form) \/ Shows(i - 1, sent[c].type, NoForm)
ClearsWhatWasSent ==
    \A i \in 1 .. Len(queue), c \in Calls : queue[i].by = c => ClearingIsStored(i, c)

DraftInv == PageIsStored /\ SendsAreStored /\ ClearsWhatWasSent

(* An operation that joins the queue is the last, and the others stay.      *)
LEMMA ShowsAsked ==
    ASSUME queue \in Seq(Operation), NEW n \in Nat, n = Len(queue), UNCHANGED disk,
           NEW type \in TypesFiled, NEW form \in MaybeForm, NEW c \in Calls \cup {NoCall},
           Ask(type, form, c)
    PROVE  /\ Len(queue') = n + 1
           /\ \A i \in 1 .. n : queue'[i] = queue[i]
           /\ queue'[n + 1] = [type |-> type, form |-> form, by |-> c]
           /\ \A m \in 0 .. n : \A t, g : Shows(m, t, g) => Shows(m, t, g)'
           /\ Shows(n + 1, type, form)'
           /\ \A t, g : t # type /\ Shows(n, t, g) => Shows(n + 1, t, g)'
<1> DEFINE op == [type |-> type, form |-> form, by |-> c]
<1>1. op \in Operation
  BY DEF Operation
<1>2. queue' = Append(queue, op)
  BY DEF Ask
<1> HIDE DEF op
<1>3. /\ Len(queue') = n + 1 /\ queue'[n + 1] = op
      /\ \A i \in 1 .. n : queue'[i] = queue[i]
  BY <1>1, <1>2
<1>4. op.type = type /\ op.form = form
  BY DEF op
<1>5. ASSUME NEW m \in 0 .. n, NEW t, NEW g, Shows(m, t, g) PROVE Shows(m, t, g)'
  <2>1. \A i \in 1 .. m : queue'[i] = queue[i]
    BY <1>3
  <2>2. QED BY <1>5, <2>1 DEF Shows
<1>6. Shows(n + 1, type, form)'
  BY <1>3, <1>4 DEF Shows
<1>7. ASSUME NEW t, NEW g, t # type, Shows(n, t, g) PROVE Shows(n + 1, t, g)'
  <2>1. \A i \in 1 .. n + 1 : i \in 1 .. n \/ i = n + 1
    OBVIOUS
  <2>2. \A i \in 1 .. n + 1 : queue'[i].type = t => i \in 1 .. n
    BY <1>3, <1>4, <1>7, <2>1
  <2>3. CASE (\A i \in 1 .. n : queue[i].type # t) /\ disk[t] = g
    BY <1>3, <2>2, <2>3 DEF Shows
  <2>4. ASSUME NEW i \in 1 .. n, queue[i].type = t, queue[i].form = g,
               \A j \in i + 1 .. n : queue[j].type # t
        PROVE  Shows(n + 1, t, g)'
    <3>1. i \in 1 .. n + 1 /\ queue'[i].type = t /\ queue'[i].form = g
      BY <1>3, <2>4
    <3>2. \A j \in i + 1 .. n + 1 : queue'[j].type # t
      <4>1. SUFFICES ASSUME NEW j \in i + 1 .. n + 1, queue'[j].type = t PROVE FALSE
        OBVIOUS
      <4>2. j \in 1 .. n
        BY <2>2, <4>1
      <4>3. j \in i + 1 .. n /\ queue[j].type = t
        BY <1>3, <4>1, <4>2
      <4>4. QED BY <2>4, <4>3
    <3>3. QED BY <3>1, <3>2 DEF Shows
  <2>5. QED BY <1>7, <2>3, <2>4 DEF Shows
<1>8. QED BY <1>3, <1>5, <1>6, <1>7 DEF op

(* An operation that is executed is seen on the disk.                       *)
LEMMA ShowsPerformed ==
    ASSUME AppTypeOK, Perform, NEW n \in Nat, n = Len(queue)
    PROVE  /\ n >= 1 /\ Len(queue') = n - 1
           /\ \A i \in 1 .. n - 1 : queue'[i] = queue[i + 1]
           /\ \A m \in 1 .. n, t \in TypesFiled : \A g : Shows(m, t, g) => Shows(m - 1, t, g)'
<1>1. queue \in Seq(Operation) /\ queue # <<>> /\ queue' = Tail(queue)
  BY DEF AppTypeOK, Perform
<1>2. n >= 1 /\ Len(queue') = n - 1 /\ \A i \in 1 .. n - 1 : queue'[i] = queue[i + 1]
  BY <1>1
<1>3. \A t \in TypesFiled : disk'[t] = IF t = queue[1].type THEN queue[1].form ELSE disk[t]
  BY <1>1 DEF Perform, AppTypeOK
<1>4. ASSUME NEW m \in 1 .. n, NEW t \in TypesFiled, NEW g, Shows(m, t, g)
      PROVE  Shows(m - 1, t, g)'
  <2>1. \A i \in 1 .. m - 1 : i \in 1 .. n - 1 /\ i + 1 \in 1 .. m /\ queue'[i] = queue[i + 1]
    BY <1>2
  <2>2. CASE (\A i \in 1 .. m : queue[i].type # t) /\ disk[t] = g
    <3>1. disk'[t] = g
      BY <1>2, <1>3, <2>2
    <3>2. QED BY <2>1, <2>2, <3>1 DEF Shows
  <2>3. ASSUME NEW i \in 1 .. m, queue[i].type = t, queue[i].form = g,
               \A j \in i + 1 .. m : queue[j].type # t
        PROVE  Shows(m - 1, t, g)'
    <3>1. CASE i = 1
      <4>1. disk'[t] = g
        BY <1>3, <2>3, <3>1
      <4>2. \A j \in 1 .. m - 1 : queue'[j].type # t
        BY <2>1, <2>3, <3>1
      <4>3. QED BY <4>1, <4>2 DEF Shows
    <3>2. CASE i # 1
      <4>1. i - 1 \in 1 .. m - 1
        BY <3>2
      <4>2. (i - 1) + 1 = i
        OBVIOUS
      <4>3. queue'[i - 1].type = t /\ queue'[i - 1].form = g
        BY <2>1, <2>3, <4>1, <4>2
      <4>4. \A j \in (i - 1) + 1 .. m - 1 : queue'[j].type # t
        <5>1. ASSUME NEW j \in (i - 1) + 1 .. m - 1 PROVE j \in 1 .. m - 1 /\ j + 1 \in i + 1 .. m
          OBVIOUS
        <5>2. QED BY <2>1, <2>3, <5>1
      <4>5. QED BY <4>1, <4>3, <4>4 DEF Shows
    <3>3. QED BY <3>1, <3>2
  <2>4. QED BY <1>4, <2>2, <2>3 DEF Shows
<1>5. QED BY <1>2, <1>4

(* A step that moves neither the queue nor the disk leaves what is stored.  *)
LEMMA StoredFrame ==
    ASSUME UNCHANGED <<queue, disk>>
    PROVE  /\ \A n, t, g : Shows(n, t, g)' <=> Shows(n, t, g)
           /\ \A t, g : LastStored(t, g)' <=> LastStored(t, g)
BY DEF Shows, LastStored

(* What the taxpayer does without touching the store, and what the office   *)
(* and the network do: no form becomes one that can be sent.                *)
LEMMA DraftQuiet ==
    ASSUME DraftInv, UNCHANGED <<queue, disk>>,
           page'.step = LastStep =>
               page'.type = page.type /\ page'.form = page.form /\ page # Closed /\ page.step = LastStep,
           \A c \in Calls : /\ pc[c] = "clearing" <=> pc'[c] = "clearing"
                            /\ pc'[c] \in {"creating", "submitting"} =>
                                  pc[c] \in {"creating", "submitting"}
                            /\ pc[c] # "idle" =>
                                  sent'[c].type = sent[c].type /\ sent'[c].form = sent[c].form
    PROVE  DraftInv'
<1>1. PageIsStored'
  BY StoredFrame DEF DraftInv, PageIsStored
<1>2. SendsAreStored'
  BY StoredFrame DEF DraftInv, SendsAreStored
<1>3. ClearsWhatWasSent'
  <2>1. ASSUME NEW i \in 1 .. Len(queue), NEW c \in Calls, ClearingIsStored(i, c)
        PROVE  ClearingIsStored(i, c)'
    BY <2>1, StoredFrame DEF ClearingIsStored
  <2>2. QED BY <2>1 DEF DraftInv, ClearsWhatWasSent
<1>4. QED BY <1>1, <1>2, <1>3 DEF DraftInv

(* The draft that is written when a step is completed. *)
LEMMA NextStepDraft ==
    ASSUME FormInv, DraftInv, SendsKeepTheirPage, NextStep
    PROVE  DraftInv'
<1>1. /\ queue \in Seq(Operation) /\ page.form \in MaybeForm /\ page.type \in TypesFiled
      /\ page \in [type : TypesFiled \cup {"none"}, form : MaybeForm, step : 0 .. LastStep,
                   restored : BOOLEAN, send : Calls \cup {NoCall}]
  BY DEF FormInv, AppTypeOK, SendsInOrder, FormsHaveTypes, NextStep, Complete
<1>2. \A c \in Calls : pc[c] = "idle" /\ pc'[c] = "idle"
  BY FormAssumption DEF SendsKeepTheirPage, NextStep
<1>3. PICK n \in Nat : n = Len(queue)
  BY <1>1
<1>4. /\ Len(queue') = n + 1 /\ queue'[n + 1].by = NoCall
      /\ \A i \in 1 .. n : queue'[i] = queue[i]
      /\ Shows(n + 1, page.type, page.form)'
  <2>1. PICK t \in TypesFiled, g \in MaybeForm : t = page.type /\ g = page.form
    BY <1>1
  <2>2. Ask(t, g, NoCall) /\ UNCHANGED disk
    BY <2>1 DEF NextStep
  <2>3. /\ Len(queue') = n + 1
        /\ \A i \in 1 .. n : queue'[i] = queue[i]
        /\ queue'[n + 1] = [type |-> t, form |-> g, by |-> NoCall]
        /\ Shows(n + 1, t, g)'
    BY <1>1, <1>3, <2>2, ShowsAsked
  <2>4. page'.type = t /\ page'.form = g
    BY <1>1, <2>1 DEF NextStep
  <2>5. QED BY <2>3, <2>4
<1>5. PageIsStored'
  BY <1>4 DEF PageIsStored, LastStored
<1>6. SendsAreStored'
  BY <1>2 DEF SendsAreStored
<1>7. ClearsWhatWasSent'
  <2>1. \A i \in 1 .. n, c \in Calls : queue[i].by # c
    BY <1>2, <1>3 DEF DraftInv, ClearsWhatWasSent, ClearingIsStored
  <2>2. \A i \in 1 .. n + 1 : i \in 1 .. n \/ i = n + 1
    OBVIOUS
  <2>3. \A i \in 1 .. n + 1, c \in Calls : queue'[i].by # c
    BY <1>4, <2>1, <2>2, FormAssumption
  <2>4. QED BY <1>4, <2>3 DEF ClearsWhatWasSent
<1>8. QED BY <1>5, <1>6, <1>7 DEF DraftInv

(* A draft that is discarded, also while a send is under way. *)
LEMMA DiscardDraft ==
    ASSUME FormInv, DraftInv, Discard
    PROVE  DraftInv'
<1>1. /\ queue \in Seq(Operation) /\ page.type \in TypesFiled
      /\ page \in [type : TypesFiled \cup {"none"}, form : MaybeForm, step : 0 .. LastStep,
                   restored : BOOLEAN, send : Calls \cup {NoCall}]
      /\ \A c \in Calls : pc[c] # "idle" => sent[c].type \in TypesFiled
  BY DEF FormInv, AppTypeOK, SendsInOrder, FormsHaveTypes, Discard, Closed
<1>2. PICK n \in Nat : n = Len(queue)
  BY <1>1
<1>3. PICK type \in TypesFiled : type = page.type
  BY <1>1
<1>4. /\ Len(queue') = n + 1 /\ queue'[n + 1].by = NoCall
      /\ \A i \in 1 .. n : queue'[i] = queue[i]
      /\ \A m \in 0 .. n : \A t, g : Shows(m, t, g) => Shows(m, t, g)'
      /\ Shows(n + 1, type, NoForm)'
      /\ \A t, g : t # type /\ Shows(n, t, g) => Shows(n + 1, t, g)'
  <2>1. Ask(type, NoForm, NoCall) /\ UNCHANGED disk /\ NoForm \in MaybeForm
    BY <1>3 DEF Discard, MaybeForm
  <2>2. /\ Len(queue') = n + 1
        /\ \A i \in 1 .. n : queue'[i] = queue[i]
        /\ queue'[n + 1] = [type |-> type, form |-> NoForm, by |-> NoCall]
        /\ \A m \in 0 .. n : \A t, g : Shows(m, t, g) => Shows(m, t, g)'
        /\ Shows(n + 1, type, NoForm)'
        /\ \A t, g : t # type /\ Shows(n, t, g) => Shows(n + 1, t, g)'
    BY <1>1, <1>2, <2>1, ShowsAsked
  <2>3. QED BY <2>2
<1>5. UNCHANGED <<pc, sent>> /\ page'.step # LastStep
  BY <1>1, FormAssumption DEF Discard
<1>6. PageIsStored'
  BY <1>5 DEF PageIsStored
<1>7. SendsAreStored'
  <2>1. SUFFICES ASSUME NEW c \in Calls, pc[c] \in {"creating", "submitting"}
                 PROVE  (LastStored(sent[c].type, sent[c].form) \/ LastStored(sent[c].type, NoForm))'
    BY <1>5 DEF SendsAreStored
  <2>2. PICK t, g : t = sent[c].type /\ g = sent[c].form
    OBVIOUS
  <2>3. t' = sent'[c].type /\ g' = sent'[c].form
    BY <1>5, <2>2
  <2>4. Shows(n, t, g) \/ Shows(n, t, NoForm)
    BY <1>2, <2>1, <2>2 DEF DraftInv, SendsAreStored, LastStored
  <2>5. Shows(n + 1, t, g)' \/ Shows(n + 1, t, NoForm)'
    BY <1>4, <2>4
  <2>6. QED BY <1>4, <2>3, <2>5 DEF LastStored
<1>8. ClearsWhatWasSent'
  <2>1. SUFFICES ASSUME NEW i \in 1 .. n + 1, NEW c \in Calls, queue'[i].by = c
                 PROVE  ClearingIsStored(i, c)'
    BY <1>4 DEF ClearsWhatWasSent
  <2>2. i \in 1 .. n /\ queue'[i] = queue[i]
    BY <1>4, <2>1, FormAssumption
  <2>3. ClearingIsStored(i, c)
    BY <1>2, <2>1, <2>2 DEF DraftInv, ClearsWhatWasSent
  <2>4. i - 1 \in 0 .. n
    BY <2>2
  <2>5. QED BY <1>4, <1>5, <2>2, <2>3, <2>4 DEF ClearingIsStored
<1>9. QED BY <1>6, <1>7, <1>8 DEF DraftInv

(* The storage executes an operation. *)
LEMMA PerformDraft ==
    ASSUME FormInv, DraftInv, Perform
    PROVE  DraftInv'
<1>1. /\ AppTypeOK /\ queue \in Seq(Operation)
      /\ page = Closed \/ page.type \in TypesFiled
      /\ \A c \in Calls : pc[c] # "idle" => sent[c].type \in TypesFiled
  BY DEF FormInv, AppTypeOK, SendsInOrder, FormsHaveTypes
<1>2. PICK n \in Nat : n = Len(queue)
  BY <1>1
<1>3. /\ n >= 1 /\ Len(queue') = n - 1
      /\ \A i \in 1 .. n - 1 : queue'[i] = queue[i + 1]
      /\ \A m \in 1 .. n, t \in TypesFiled : \A g : Shows(m, t, g) => Shows(m - 1, t, g)'
  BY <1>1, <1>2, ShowsPerformed
<1>4. \A t \in TypesFiled : \A g : Shows(n, t, g) => Shows(n - 1, t, g)'
  BY <1>3
<1>5. UNCHANGED <<page, pc, sent>>
  BY DEF Perform
<1>6. PageIsStored'
  <2>1. SUFFICES ASSUME page # Closed, page.step = LastStep, \A c \in Calls : pc[c] # "clearing"
                 PROVE  LastStored(page.type, page.form)'
    BY <1>5 DEF PageIsStored
  <2>2. PICK t \in TypesFiled : t = page.type
    BY <1>1, <2>1
  <2>3. PICK g : g = page.form
    OBVIOUS
  <2>4. Shows(n, t, g)
    BY <1>2, <2>1, <2>2, <2>3 DEF DraftInv, PageIsStored, LastStored
  <2>5. Shows(n - 1, t, g)' /\ t = page'.type /\ g = page'.form
    BY <1>4, <1>5, <2>2, <2>3, <2>4
  <2>6. QED BY <1>3, <2>5 DEF LastStored
<1>7. SendsAreStored'
  <2>1. SUFFICES ASSUME NEW c \in Calls, pc[c] \in {"creating", "submitting"}
                 PROVE  (LastStored(sent[c].type, sent[c].form) \/ LastStored(sent[c].type, NoForm))'
    BY <1>5 DEF SendsAreStored
  <2>2. PICK t \in TypesFiled : t = sent[c].type
    BY <1>1, <2>1
  <2>3. PICK g : g = sent[c].form
    OBVIOUS
  <2>4. Shows(n, t, g) \/ Shows(n, t, NoForm)
    BY <1>2, <2>1, <2>2, <2>3 DEF DraftInv, SendsAreStored, LastStored
  <2>5. /\ Shows(n - 1, t, g)' \/ Shows(n - 1, t, NoForm)'
        /\ t = sent'[c].type /\ g = sent'[c].form
    BY <1>4, <1>5, <2>2, <2>3, <2>4
  <2>6. QED BY <1>3, <2>5 DEF LastStored
<1>8. ClearsWhatWasSent'
  <2>1. SUFFICES ASSUME NEW i \in 1 .. n - 1, NEW c \in Calls, queue'[i].by = c
                 PROVE  ClearingIsStored(i, c)'
    BY <1>3 DEF ClearsWhatWasSent
  <2>2. i + 1 \in 1 .. n /\ queue'[i] = queue[i + 1] /\ (i + 1) - 1 = i
    BY <1>2, <1>3
  <2>3. ClearingIsStored(i + 1, c)
    BY <1>2, <2>1, <2>2 DEF DraftInv, ClearsWhatWasSent
  <2>4. PICK t \in TypesFiled : t = sent[c].type
    BY <1>1, <2>3 DEF ClearingIsStored
  <2>5. PICK g : g = sent[c].form
    OBVIOUS
  <2>6. /\ pc[c] = "clearing" /\ queue[i + 1].type = t
        /\ Shows(i, t, g) \/ Shows(i, t, NoForm)
    BY <2>2, <2>3, <2>4, <2>5 DEF ClearingIsStored
  <2>7. i \in 1 .. n
    OBVIOUS
  <2>8. /\ Shows(i - 1, t, g)' \/ Shows(i - 1, t, NoForm)'
        /\ t = sent'[c].type /\ g = sent'[c].form /\ pc'[c] = "clearing"
    BY <1>3, <1>5, <2>4, <2>5, <2>6, <2>7
  <2>9. QED BY <2>2, <2>6, <2>8 DEF ClearingIsStored
<1>9. QED BY <1>6, <1>7, <1>8 DEF DraftInv

(* A send that is answered asks for its own draft to be removed. *)
LEMMA SubmittedDraft ==
    ASSUME FormInv, DraftInv, SendsKeepTheirPage, NEW c \in Calls, Submitted(c)
    PROVE  DraftInv'
<1>1. /\ AppTypeOK /\ queue \in Seq(Operation) /\ pc[c] = "submitting"
      /\ sent[c].type \in TypesFiled
      /\ pc \in [Calls -> {"idle", "creating", "submitting", "clearing"}]
  BY DEF FormInv, AppTypeOK, SendsInOrder, FormsHaveTypes, Submitted
<1>2. PICK n \in Nat : n = Len(queue)
  BY <1>1
<1>3. /\ UNCHANGED <<page, sent, disk>> /\ pc' = [pc EXCEPT ![c] = "clearing"]
      /\ \A d \in Calls : d # c => pc[d] = "idle"
  BY <1>1 DEF Submitted, Wait, SendsKeepTheirPage
<1>4. PICK type \in TypesFiled, form \in {sent[c].form} : type = sent[c].type
  BY <1>1
<1>5. /\ Len(queue') = n + 1
      /\ \A i \in 1 .. n : queue'[i] = queue[i]
      /\ queue'[n + 1] = [type |-> type, form |-> NoForm, by |-> c]
      /\ \A m \in 0 .. n : \A t, g : Shows(m, t, g) => Shows(m, t, g)'
  <2>1. Ask(type, NoForm, c) /\ NoForm \in MaybeForm
    BY <1>4 DEF Submitted, MaybeForm
  <2>2. QED BY <1>1, <1>2, <1>3, <2>1, ShowsAsked
<1>6. pc'[c] = "clearing" /\ \A d \in Calls : d # c => pc'[d] = "idle"
  BY <1>1, <1>3
<1>7. PageIsStored' /\ SendsAreStored'
  BY <1>6 DEF PageIsStored, SendsAreStored
<1>8. ClearsWhatWasSent'
  <2>1. SUFFICES ASSUME NEW i \in 1 .. n + 1, NEW d \in Calls, queue'[i].by = d
                 PROVE  ClearingIsStored(i, d)'
    BY <1>5 DEF ClearsWhatWasSent
  <2>2. i \notin 1 .. n
    <3>1. SUFFICES ASSUME i \in 1 .. n PROVE FALSE
      OBVIOUS
    <3>2. queue[i].by = d
      BY <1>5, <2>1, <3>1
    <3>3. pc[d] = "clearing"
      BY <1>2, <3>1, <3>2 DEF DraftInv, ClearsWhatWasSent, ClearingIsStored
    <3>4. QED BY <1>1, <1>3, <3>3
  <2>3. i = n + 1 /\ i - 1 = n
    BY <2>2
  <2>4. d = c /\ queue'[i].type = type
    BY <1>5, <2>1, <2>3
  <2>5. Shows(n, type, form) \/ Shows(n, type, NoForm)
    BY <1>1, <1>2, <1>4 DEF DraftInv, SendsAreStored, LastStored
  <2>6. /\ Shows(n, type, form)' \/ Shows(n, type, NoForm)'
        /\ type = sent'[c].type /\ form = sent'[c].form
    <3>1. n \in 0 .. n
      OBVIOUS
    <3>2. QED BY <1>3, <1>4, <1>5, <2>5, <3>1
  <2>7. QED BY <1>6, <2>3, <2>4, <2>6 DEF ClearingIsStored
<1>9. QED BY <1>7, <1>8 DEF DraftInv

(* The send is over, and its page closes. *)
LEMMA ClearedDraft ==
    ASSUME FormInv, DraftInv, SendsKeepTheirPage, NEW c \in Calls, Cleared(c)
    PROVE  DraftInv'
<1>1. /\ page' = Closed /\ UNCHANGED <<queue, disk>>
      /\ \A i \in DOMAIN queue : queue[i].by # c
      /\ queue \in Seq(Operation)
      /\ \A d \in Calls : d # c => pc'[d] = pc[d] /\ sent'[d] = sent[d]
      /\ pc'[c] = "idle"
  BY DEF FormInv, AppTypeOK, Cleared, Wait, SendsKeepTheirPage
<1>2. PageIsStored'
  BY <1>1 DEF PageIsStored
<1>3. SendsAreStored'
  BY <1>1, StoredFrame DEF DraftInv, SendsAreStored
<1>4. ClearsWhatWasSent'
  <2>1. ASSUME NEW i \in 1 .. Len(queue), NEW d \in Calls, queue[i].by = d
        PROVE  ClearingIsStored(i, d)'
    <3>1. d # c
      BY <1>1, <2>1
    <3>2. ClearingIsStored(i, d)
      BY <2>1 DEF DraftInv, ClearsWhatWasSent
    <3>3. QED BY <1>1, <3>1, <3>2, StoredFrame DEF ClearingIsStored
  <2>2. QED BY <1>1, <2>1 DEF ClearsWhatWasSent
<1>5. QED BY <1>2, <1>3, <1>4 DEF DraftInv

(* What is sent is what is stored. *)
LEMMA PressDraft ==
    ASSUME FormInv, DraftInv, SendsKeepTheirPage, NEW c \in Calls, Press(c)
    PROVE  DraftInv'
<1>1. /\ page # Closed /\ page.step = LastStep /\ UNCHANGED <<queue, disk>>
      /\ \A d \in Calls : pc[d] = "idle"
      /\ page' = [page EXCEPT !.send = c]
      /\ pc' = [pc EXCEPT ![c] = "creating"]
      /\ sent' = [sent EXCEPT ![c] = [type |-> page.type, form |-> page.form, id |-> NoFiling]]
  BY FormAssumption DEF Press, Complete, Wait, SendsKeepTheirPage
<1>2. /\ page'.type = page.type /\ page'.form = page.form
      /\ sent'[c].type = page.type /\ sent'[c].form = page.form
      /\ pc'[c] = "creating" /\ \A d \in Calls : d # c => pc'[d] = "idle"
  BY <1>1 DEF FormInv, AppTypeOK
<1>3. LastStored(page.type, page.form)
  BY <1>1 DEF DraftInv, PageIsStored
<1>4. PICK t, g : t = page.type /\ g = page.form
  OBVIOUS
<1>5. LastStored(t, g)'
  BY <1>1, <1>3, <1>4, StoredFrame
<1>6. PageIsStored'
  BY <1>2, <1>4, <1>5 DEF PageIsStored
<1>7. SendsAreStored'
  BY <1>2, <1>4, <1>5 DEF SendsAreStored
<1>8. ClearsWhatWasSent'
  <2>1. \A i \in 1 .. Len(queue), d \in Calls : queue[i].by # d
    BY <1>1 DEF DraftInv, ClearsWhatWasSent, ClearingIsStored
  <2>2. QED BY <1>1, <2>1 DEF ClearsWhatWasSent
<1>9. QED BY <1>6, <1>7, <1>8 DEF DraftInv

LEMMA DraftStep ==
    ASSUME FormInv, DraftInv, SendsKeepTheirPage, [Next]_vars
    PROVE  DraftInv'
<1>1. /\ page \in [type : TypesFiled \cup {"none"}, form : MaybeForm, step : 0 .. LastStep,
                   restored : BOOLEAN, send : Calls \cup {NoCall}]
      /\ pc \in [Calls -> {"idle", "creating", "submitting", "clearing"}]
      /\ sent \in [Calls -> Sent] /\ LastStep \in Nat \ {0}
  BY FormAssumption DEF FormInv, AppTypeOK
<1>2. ASSUME NEW type \in TypesFiled, NEW form, Open(type, form) PROVE DraftInv'
  <2>1. page'.step # LastStep
    BY <1>1, <1>2 DEF Open
  <2>2. QED BY <1>2, <2>1, DraftQuiet DEF Open
<1>3. ASSUME NEW form, Fill(form) PROVE DraftInv'
  <2>1. page'.step # LastStep
    BY <1>1, <1>3 DEF Fill
  <2>2. QED BY <1>3, <2>1, DraftQuiet DEF Fill
<1>4. CASE Back
  <2>1. page'.step # LastStep
    BY <1>1, <1>4 DEF Back, Closed
  <2>2. QED BY <1>4, <2>1, DraftQuiet DEF Back
<1>5. CASE Kill
  <2>1. page' = Closed /\ queue' = <<>> /\ \A c \in Calls : pc'[c] = "idle"
    BY <1>5 DEF Kill
  <2>2. \A i \in 1 .. Len(queue') : FALSE
    BY <2>1
  <2>3. QED BY <2>1, <2>2 DEF DraftInv, PageIsStored, SendsAreStored, ClearsWhatWasSent
<1>6. ASSUME NEW c \in Calls, Created(c) PROVE DraftInv'
  <2>1. /\ UNCHANGED <<queue, disk, page, sent>>
        /\ pc[c] = "creating" /\ pc'[c] = "submitting"
        /\ \A d \in Calls : d # c => pc'[d] = pc[d]
    BY <1>1, <1>6 DEF Created, Wait
  <2>2. QED BY <1>1, <2>1, DraftQuiet DEF Closed
<1>7. ASSUME NEW c \in Calls, GiveUp(c) PROVE DraftInv'
  <2>1. /\ UNCHANGED <<queue, disk, sent>>
        /\ pc[c] \in {"creating", "submitting"} /\ pc'[c] = "idle"
        /\ \A d \in Calls : d # c => pc'[d] = pc[d]
        /\ page'.step = page.step /\ page'.type = page.type /\ page'.form = page.form
    BY <1>1, <1>7 DEF GiveUp, Wait
  <2>2. QED BY <1>1, <2>1, DraftQuiet DEF Closed
<1>8. ASSUME NEW c \in Calls,
             Lose(c) \/ ServeSubmit(c) \/ Saved(c) \/ \E f \in Balaghs : ServeCreate(c, f)
      PROVE  DraftInv'
  <2>1. /\ UNCHANGED <<queue, disk, page, pc>>
        /\ \A d \in Calls : sent'[d].type = sent[d].type /\ sent'[d].form = sent[d].form
    BY <1>1, <1>8 DEF Lose, ServeSubmit, Saved, ServeCreate, Sent
  <2>2. QED BY <1>1, <2>1, DraftQuiet DEF Closed
<1>9. CASE UNCHANGED vars
  BY <1>1, <1>9, DraftQuiet DEF Closed, vars, formVars
<1>10. QED BY <1>2, <1>3, <1>4, <1>5, <1>6, <1>7, <1>8, <1>9,
              NextStepDraft, DiscardDraft, PerformDraft, SubmittedDraft, ClearedDraft, PressDraft
       DEF Next

LEMMA RemovedIsFiled ==
    ASSUME FormInv, ClearedIsFiled, DraftInv, [Next]_vars
    PROVE  [DraftsEndAsBalaghs]_vars
<1>1. SUFFICES ASSUME NEW type \in TypesFiled, disk[type] # NoForm, disk'[type] = NoForm
               PROVE  \/ Head(queue).by = NoCall
                      \/ \E f \in Balaghs : /\ status[f] = "submitted" /\ declared[f] = type
                                           /\ StoredForm(f) = disk[type]
  BY DEF DraftsEndAsBalaghs
<1>2. Perform
  BY <1>1 DEF Next, vars, formVars, Open, Fill, NextStep, Back, Discard, Kill, Press, Created,
              Submitted, Cleared, GiveUp, Lose, ServeSubmit, Saved, ServeCreate
<1>3. queue \in Seq(Operation) /\ queue # <<>> /\ disk \in [TypesFiled -> MaybeForm]
  BY <1>2 DEF Perform, FormInv, AppTypeOK
<1>4. /\ Head(queue) = queue[1] /\ queue[1] \in Operation /\ 1 \in 1 .. Len(queue)
      /\ queue[1].type = type
  BY <1>1, <1>2, <1>3 DEF Perform
<1>5. CASE queue[1].by \in Calls
  <2>1. PICK c \in Calls : queue[1].by = c
    BY <1>5
  <2>2. /\ pc[c] = "clearing" /\ sent[c].type = type
        /\ Shows(0, type, sent[c].form) \/ Shows(0, type, NoForm)
    BY <1>4, <2>1 DEF DraftInv, ClearsWhatWasSent, ClearingIsStored
  <2>3. \A g : Shows(0, type, g) => disk[type] = g
    BY DEF Shows
  <2>4. disk[type] = sent[c].form
    BY <1>1, <2>2, <2>3
  <2>5. QED BY <2>2, <2>4 DEF ClearedIsFiled
<1>6. QED BY <1>4, <1>5 DEF Operation

(* A send that outlives its page is the only cause of a lost draft: while   *)
(* every send keeps its page, a stored draft ends discarded or submitted,   *)
(* for any number of forms, calls, lost answers and restarts of the app.    *)
THEOREM SendsLeftBehindAreTheOnlyCause == Spec => OnlySendsLeftBehindLose
<1>1. Init => DraftInv
  BY DEF Init, DraftInv, PageIsStored, SendsAreStored, ClearsWhatWasSent
<1>2. FormInv /\ DraftInv /\ SendsKeepTheirPage /\ [Next]_vars => DraftInv'
  BY DraftStep
<1>3. FormInv /\ ClearedIsFiled /\ DraftInv /\ [Next]_vars => [DraftsEndAsBalaghs]_vars
  BY RemovedIsFiled
<1>4. QED BY <1>1, <1>2, <1>3, FormInvariant, DraftsOutliveFailures, PTL
      DEF Spec, OnlySendsLeftBehindLose
=============================================================================

----------------------- MODULE TaxpayerAccountsProofs -----------------------
(***************************************************************************)
(* What the accounts of taxpayers guarantee for any number of calls, jobs, *)
(* phones and files, whichever answers of the identity provider, of the    *)
(* messaging service and of COMMIT are lost.                               *)
(*                                                                         *)
(* AccountInv says what holds the properties up.  The call that has made   *)
(* an identity is the only one that may take it away, and cannot once a    *)
(* profile refers to it; a link always has its profile; a call that sends  *)
(* a password works for a phone among the contacts of the taxpayer of its  *)
(* link, and contacts and links, once there, stay: for imported contacts   *)
(* because a job that has landed keeps its kind.                           *)
(*                                                                         *)
(* RowsInv does the same for the imports: a row of a job is stored once,   *)
(* as it was validated in the batch of its upload, and a copy only holds   *)
(* rows it has read.  TypesInv completes both to the types of the whole.   *)
(***************************************************************************)
EXTENDS TaxpayerAccounts, TLAPS

Passwords == {"none", "undisclosed", "chosen"} \cup Secrets
HasDomain(f, S) == f = [x \in S |-> f[x]]

(* The types the proof needs. *)
AccountTypes ==
    /\ pc \in [Calls -> Pc]
    /\ at \in [Calls -> Jobs \cup {Nothing}]
    /\ HasDomain(made, Calls) /\ HasDomain(account, Calls) /\ HasDomain(kind, Jobs)
    /\ status \in [Jobs -> {"absent", "pending_review", "imported", "rejected"}]
    /\ password \in [Mobiles -> Passwords]
    /\ profiles \subseteq Mobiles
    /\ delivered \in [Mobiles -> SUBSET Secrets]
    /\ fresh \subseteq Secrets /\ proofs \subseteq Mobiles
    /\ phone \in [Calls -> Mobiles \cup {Nothing}]
    /\ secret \in [Calls -> Secrets \cup {Nothing}]

(* What has landed, or is about to, belongs to a job that was uploaded. *)
JobsOfEntries ==
    /\ \A c \in Calls : pc[c] \in {"storing", "deciding", "copying"} =>
          at[c] \in Jobs /\ status[at[c]] # "absent"
    /\ \A c \in Calls : pc[c] \in {"idle", "storing", "deciding"} => made[c] = {}
    /\ \A c \in Calls : pc[c] = "copying" => \A e \in made[c] : e.job = at[c]
    /\ \A e \in landed : e.job \in Jobs /\ status[e.job] = "imported"

(* A link has its profile, and a profile its identity. *)
LinksHaveProfiles ==
    /\ \A l \in links : l = Link(l.phone, l.taxpayer, l.status) /\ l.phone \in profiles
    /\ ProfilesHaveIdentities

(* The calls that have made an identity, and have still to give it a profile
   or to take it away. *)
Holding == {"linking", "compensating", "profiling"}

Holds(c) ==
    /\ pc[c] \in Holding \cup {"creating", "proved", "registering", "sending",
                              "setting", "claiming", "completing"} => phone[c] \in Mobiles
    /\ pc[c] \in Holding => password[phone[c]] # "none"
    /\ pc[c] \in {"creating", "linking", "compensating"} =>
          account[c] = Link(phone[c], account[c].taxpayer, "imported_pending_claim")
    /\ pc[c] = "completing" => phone[c] \in profiles

HoldersDiffer ==
    \A c, d \in Calls : c # d /\ pc[c] \in Holding /\ pc[d] \in Holding => phone[c] # phone[d]

(* A link of the phone p and the taxpayer t; a phone contact n of t. *)
LinkIn(ls, p, t) == \E l \in ls : l.phone = p /\ l.taxpayer = t
PhoneIn(ks, t, n) ==
    \E k \in ks : k.taxpayer = t /\ k.type = "phone" /\ SubscriberDigits(k.value) = n

(* What a call that sends a password holds. *)
Knows(c) ==
    /\ pc[c] \in {"sending", "setting", "claiming"} =>
          /\ secret[c] \in Secrets
          /\ LinkIn(links, account[c].phone, account[c].taxpayer)
          /\ PhoneIn(Contacts, account[c].taxpayer, phone[c])
    /\ pc[c] = "setting" => secret[c] \in delivered[phone[c]]
    /\ pc[c] = "claiming" => password[account[c].phone] \in Secrets

CallsKnow == \A c \in Calls : Holds(c) /\ Knows(c)

AccountInv ==
    /\ AccountTypes /\ JobsOfEntries /\ LinksHaveProfiles /\ CallsKnow /\ HoldersDiffer
    /\ SetPasswordsWereSent /\ ClaimedCanSignIn

-----------------------------------------------------------------------------
LEMMA InitInv == Init => AccountInv
<1> SUFFICES ASSUME Init PROVE AccountInv
  OBVIOUS
<1> USE DEF Init, ImportInit
<1>1. AccountTypes
  BY DEF AccountTypes, HasDomain, Pc, Passwords
<1>2. JobsOfEntries /\ LinksHaveProfiles
  BY DEF JobsOfEntries, LinksHaveProfiles, ProfilesHaveIdentities
<1>3. CallsKnow /\ HoldersDiffer
  BY DEF CallsKnow, Holds, Knows, HoldersDiffer, Holding
<1>4. SetPasswordsWereSent /\ ClaimedCanSignIn
  BY SecretAssumption DEF SetPasswordsWereSent, ClaimedCanSignIn
<1>5. QED BY <1>1, <1>2, <1>3, <1>4 DEF AccountInv

(* Contacts stay: those that have landed keep the kind of their job. *)
LEMMA ContactsStay ==
    ASSUME AccountInv, landed \subseteq landed', joined \subseteq joined',
           \A e \in landed : kind'[e.job] = kind[e.job]
    PROVE  Contacts \subseteq Contacts'
<1>1. ASSUME NEW k \in ContactsOf(landed) PROVE k \in ContactsOf(landed)'
  <2>1. CASE \E e \in landed : /\ kind[e.job] = "taxpayers"
                               /\ k = [taxpayer |-> e.taxpayer, type |-> "phone",
                                       value |-> NormalizePhone(e.cells.phone)]
    BY <2>1 DEF ContactsOf
  <2>2. CASE \E e \in landed : /\ kind[e.job] = "taxpayers" /\ e.cells.tax # Nothing
                               /\ k = [taxpayer |-> e.taxpayer, type |-> "tax_number",
                                       value |-> e.cells.tax]
    BY <2>2 DEF ContactsOf
  <2>3. QED BY <1>1, <2>1, <2>2 DEF ContactsOf
<1>2. QED BY <1>1 DEF Contacts

(* What is kept of links, contacts and messages, for a call and for the     *)
(* passwords that were set.                                                 *)
LEMMA LinkStays ==
    ASSUME NEW ls, NEW ms, NEW p, NEW t, LinkIn(ls, p, t),
           \A l \in ls : \E m \in ms : m.phone = l.phone /\ m.taxpayer = l.taxpayer
    PROVE  LinkIn(ms, p, t)
  BY DEF LinkIn

LEMMA PhoneStays ==
    ASSUME NEW ks, NEW js, ks \subseteq js, NEW t, NEW n, PhoneIn(ks, t, n)
    PROVE  PhoneIn(js, t, n)
  BY DEF PhoneIn

LEMMA SentStays ==
    ASSUME AccountInv, Contacts \subseteq Contacts',
           \A l \in links : \E m \in links' : m.phone = l.phone /\ m.taxpayer = l.taxpayer,
           \A n \in Mobiles : delivered[n] \subseteq delivered'[n],
           \A p \in Mobiles : password'[p] \in Secrets => password'[p] = password[p]
    PROVE  SetPasswordsWereSent'
<1> SUFFICES ASSUME NEW p \in Mobiles, password'[p] \in Secrets
             PROVE  \E n \in Mobiles : \E l \in links', k \in Contacts' :
                      /\ l.phone = p
                      /\ k.taxpayer = l.taxpayer /\ k.type = "phone"
                      /\ SubscriberDigits(k.value) = n
                      /\ password'[p] \in delivered'[n]
  BY DEF SetPasswordsWereSent
<1>1. PICK n \in Mobiles, l \in links, k \in Contacts :
        /\ l.phone = p
        /\ k.taxpayer = l.taxpayer /\ k.type = "phone" /\ SubscriberDigits(k.value) = n
        /\ password'[p] \in delivered[n]
  BY DEF AccountInv, SetPasswordsWereSent
<1>2. PICK m \in links' : m.phone = l.phone /\ m.taxpayer = l.taxpayer
  OBVIOUS
<1>3. QED BY <1>1, <1>2

(* Where a call stands that holds nothing for an account. *)
Resting == {"idle", "storing", "deciding", "copying", "provisioning"}

(* A step that touches no account, and after which every call goes on with  *)
(* what it had or rests.                                                    *)
LEMMA FrameInv ==
    ASSUME AccountInv, AccountTypes', JobsOfEntries', Contacts \subseteq Contacts',
           UNCHANGED <<links, password, profiles, delivered>>,
           \A c \in Calls :
              \/ pc'[c] \in Resting
              \/ /\ pc'[c] = pc[c] /\ phone'[c] = phone[c]
                 /\ secret'[c] = secret[c] /\ account'[c] = account[c]
    PROVE  AccountInv'
<1> USE DEF AccountInv, Resting
<1>1. LinksHaveProfiles' /\ ClaimedCanSignIn'
  BY DEF LinksHaveProfiles, ProfilesHaveIdentities, ClaimedCanSignIn
<1>2. ASSUME NEW c \in Calls PROVE Holds(c)'
  BY DEF CallsKnow, Holds, Holding
<1>3. ASSUME NEW c \in Calls PROVE Knows(c)'
  BY DEF CallsKnow, Knows, LinkIn, PhoneIn
<1>6. HoldersDiffer'
  BY DEF HoldersDiffer, Holding
<1>4. SetPasswordsWereSent'
  BY SentStays
<1>5. QED BY <1>1, <1>2, <1>3, <1>4, <1>6 DEF CallsKnow

(* A step of the call c: it may make an identity, take away the one it has  *)
(* made, or set a password.  The other calls go on with what they had.      *)
LEMMA OthersStay ==
    ASSUME AccountInv, AccountTypes', JobsOfEntries', Contacts \subseteq Contacts',
           LinksHaveProfiles', SetPasswordsWereSent', ClaimedCanSignIn', NEW c \in Calls,
           \A d \in Calls \ {c} : /\ pc'[d] = pc[d] /\ phone'[d] = phone[d]
                                  /\ secret'[d] = secret[d] /\ account'[d] = account[d],
           Holds(c)', Knows(c)',
           pc'[c] \in Holding => \/ pc[c] \in Holding /\ phone'[c] = phone[c]
                                 \/ password[phone'[c]] = "none",
           profiles \subseteq profiles',
           \A p \in Mobiles : \/ password'[p] = password[p] \/ password[p] = "none"
                              \/ p \notin profiles /\ pc[c] \in Holding /\ phone[c] = p
                              \/ password'[p] \in Secrets,
           \A l \in links : \E m \in links' : m.phone = l.phone /\ m.taxpayer = l.taxpayer,
           \A n \in Mobiles : delivered[n] \subseteq delivered'[n]
    PROVE  AccountInv'
<1>1. /\ AccountTypes /\ LinksHaveProfiles /\ CallsKnow /\ HoldersDiffer
  BY DEF AccountInv
<1>2. ASSUME NEW d \in Calls, d # c PROVE Holds(d)'
  <2>1. Holds(d)
    BY <1>1 DEF CallsKnow
  <2>2. ASSUME pc[d] \in Holding PROVE password'[phone[d]] # "none"
    <3>1. phone[d] \in Mobiles /\ password[phone[d]] # "none"
      BY <2>1, <2>2 DEF Holds
    <3>2. pc[c] \in Holding => phone[c] # phone[d]
      BY <1>1, <1>2, <2>2 DEF HoldersDiffer
    <3>3. QED BY <3>1, <3>2, SecretAssumption
  <2>3. QED BY <1>2, <2>1, <2>2 DEF Holds
<1>3. ASSUME NEW d \in Calls, d # c PROVE Knows(d)'
  <2>1. Knows(d) /\ Holds(d)
    BY <1>1 DEF CallsKnow
  <2>2. ASSUME pc[d] \in {"sending", "setting", "claiming"}
        PROVE  /\ LinkIn(links, account[d].phone, account[d].taxpayer)
               /\ LinkIn(links', account[d].phone, account[d].taxpayer)
               /\ PhoneIn(Contacts', account[d].taxpayer, phone[d])
               /\ secret[d] \in Secrets /\ phone[d] \in Mobiles
    BY <2>1, <2>2, LinkStays, PhoneStays DEF Knows, Holds
  <2>3. ASSUME pc[d] = "claiming" PROVE password'[account[d].phone] \in Secrets
    <3>1. account[d].phone \in profiles /\ account[d].phone \in Mobiles
      BY <1>1, <2>2, <2>3 DEF LinkIn, LinksHaveProfiles, AccountTypes
    <3>2. password[account[d].phone] \in Secrets
      BY <2>1, <2>3 DEF Knows
    <3>3. QED BY <3>1, <3>2, SecretAssumption
  <2>4. ASSUME pc[d] = "setting" PROVE secret[d] \in delivered'[phone[d]]
    BY <2>1, <2>2, <2>4 DEF Knows
  <2>5. QED BY <1>3, <2>2, <2>3, <2>4 DEF Knows
<1>4. HoldersDiffer'
  <2>1. ASSUME NEW d \in Calls, d # c, pc'[d] \in Holding, pc'[c] \in Holding
        PROVE  phone'[d] # phone'[c]
    <3>1. pc[d] \in Holding /\ phone'[d] = phone[d] /\ password[phone[d]] # "none"
      BY <1>1, <2>1 DEF CallsKnow, Holds
    <3>2. QED BY <1>1, <2>1, <3>1 DEF HoldersDiffer
  <2>2. QED BY <1>1, <2>1 DEF HoldersDiffer
<1>5. QED BY <1>2, <1>3, <1>4 DEF AccountInv, CallsKnow

-----------------------------------------------------------------------------
(* Uploads and approvals of imports. *)
LEMMA ImportInv ==
    ASSUME AccountInv, ImportStep
    PROVE  AccountInv'
<1>1. /\ AccountTypes /\ JobsOfEntries
      /\ UNCHANGED <<links, password, profiles, delivered, joined>>
      /\ UNCHANGED <<fresh, proofs, phone, secret, account>>
  BY DEF AccountInv, ImportStep, OthersUnchanged, accountVars, messageVars, proofVars, callVars
<1> USE DEF Pc, Idle, Goto, importVars, copyVars, HasDomain
<1>2. /\ AccountTypes' /\ JobsOfEntries'
      /\ landed \subseteq landed' /\ \A e \in landed : kind'[e.job] = kind[e.job]
      /\ \A c \in Calls : pc'[c] \in Resting \/ pc'[c] = pc[c]
  <2> USE ImportAssumption DEF AccountTypes, JobsOfEntries, Resting
  <2>1. CASE \E c \in Calls, j \in Jobs : UploadImport(c, j, Contacts)
    <3>1. PICK c \in Calls, j \in Jobs : UploadImport(c, j, Contacts)
      BY <2>1
    <3>2. PICK u \in Uploads : kind' = [kind EXCEPT ![j] = u.kind]
      BY <3>1 DEF UploadImport
    <3>3. /\ status[j] = "absent" /\ status' = [status EXCEPT ![j] = "pending_review"]
          /\ at' = [at EXCEPT ![c] = j] /\ pc' = [pc EXCEPT ![c] = "storing"]
          /\ UNCHANGED <<stored, landed, made>>
      BY <3>1 DEF UploadImport, Goto
    <3>4. AccountTypes'
      BY <1>1, <3>1, <3>2, <3>3
    <3>5. /\ pc[c] = "idle"
          /\ \A d \in Calls : d # c => pc'[d] = pc[d] /\ at'[d] = at[d]
          /\ pc'[c] = "storing" /\ at'[c] = j
          /\ \A i \in Jobs : i # j => status'[i] = status[i] /\ kind'[i] = kind[i]
          /\ status'[j] # "absent"
      BY <1>1, <3>1, <3>2, <3>3 DEF UploadImport
    <3>6. JobsOfEntries'
      BY <1>1, <3>3, <3>5
    <3>7. \A e \in landed : e.job # j
      BY <1>1, <3>3
    <3>8. QED BY <1>1, <3>1, <3>3, <3>4, <3>5, <3>6, <3>7
  <2>2. CASE \E c \in Calls, j \in Jobs : ReadJob(c, j)
    <3>1. PICK c \in Calls, j \in Jobs : ReadJob(c, j)
      BY <2>2
    <3>2. QED BY <1>1, <3>1 DEF ReadJob
  <2>3. CASE \E c \in Calls : StoreRow(c)
    <3>1. PICK c \in Calls : StoreRow(c)
      BY <2>3
    <3>2. /\ pc[c] = "storing" /\ UNCHANGED <<kind, status, landed>>
          /\ Idle(c) \/ UNCHANGED <<at, made, pc>>
      BY <3>1, Zenon DEF StoreRow
    <3>3. CASE Idle(c)
      <4>1. AccountTypes'
        BY <1>1, <3>2, <3>3
      <4>2. QED BY <1>1, <3>2, <3>3, <4>1
    <3>4. CASE UNCHANGED <<at, made, pc>>
      BY <1>1, <3>2, <3>4
    <3>5. QED BY <3>2, <3>3, <3>4
  <2>4. CASE \E c \in Calls : ReadRows(c)
    <3>1. PICK c \in Calls : ReadRows(c)
      BY <2>4
    <3>2. /\ pc[c] = "deciding" /\ UNCHANGED importVars
          /\ Idle(c) \/ (Goto(c, "copying") /\ UNCHANGED <<at, made>>)
      BY <3>1, Zenon DEF ReadRows
    <3>3. CASE Idle(c)
      <4>1. AccountTypes'
        BY <1>1, <3>2, <3>3
      <4>2. QED BY <1>1, <3>2, <3>3, <4>1
    <3>4. CASE Goto(c, "copying") /\ UNCHANGED <<at, made>>
      <4>1. AccountTypes'
        BY <1>1, <3>2, <3>4
      <4>2. QED BY <1>1, <3>2, <3>4, <4>1
    <3>5. QED BY <3>2, <3>3, <3>4
  <2>5. CASE \E c \in Calls : CopyRow(c, Contacts)
    <3>1. PICK c \in Calls : CopyRow(c, Contacts)
      BY <2>5
    <3>2. PICK new : /\ \E row \in todo[c] :
                          new \in Inserted(c, row, Contacts \cup ContactsOf(made[c]))
                     /\ made' = [made EXCEPT ![c] = @ \cup new]
      BY <3>1 DEF CopyRow, FirstRows
    <3>3. \A e \in new : e.job = at[c]
      BY <3>2 DEF Inserted, TaxpayerEntries, ActivityEntries, DueEntries, Entry
    <3>4. pc[c] = "copying" /\ UNCHANGED <<kind, status, stored, landed, at, pc>>
      BY <3>1 DEF CopyRow
    <3>5. QED BY <1>1, <3>2, <3>3, <3>4
  <2>6. CASE \E c \in Calls : CommitImport(c)
    <3>1. PICK c \in Calls : CommitImport(c)
      BY <2>6
    <3>2. /\ pc[c] = "copying" /\ at[c] \in Jobs /\ UNCHANGED kind
          /\ landed' = landed \cup made[c]
          /\ status' = [status EXCEPT ![at[c]] = "imported"]
          /\ Idle(c) \/ (Goto(c, "provisioning") /\ UNCHANGED <<at, made>>)
      BY <1>1, <3>1 DEF CommitImport
    <3>3. HasDomain(made, Calls)' /\ HasDomain(at, Calls)'
      BY <1>1, <3>2
    <3>4. AccountTypes'
      BY <1>1, <3>2, <3>3
    <3>5. \A e \in landed' : e.job \in Jobs /\ status'[e.job] = "imported"
      BY <1>1, <3>2
    <3>6. \A d \in Calls : /\ pc'[d] \in Resting \/ pc'[d] = pc[d]
                           /\ pc'[d] \in {"idle", "storing", "deciding", "copying"} =>
                                pc'[d] = "idle" \/ (pc'[d] = pc[d] /\ d # c)
                           /\ d # c => at'[d] = at[d] /\ made'[d] = made[d]
                           /\ pc'[c] = "idle" => made'[c] = {}
      BY <1>1, <3>2
    <3>7. \A j \in Jobs : status'[j] = status[j] \/ status'[j] = "imported"
      BY <1>1, <3>2
    <3>8. JobsOfEntries'
      BY <1>1, <3>2, <3>5, <3>6, <3>7
    <3>9. landed \subseteq landed' /\ \A e \in landed : kind'[e.job] = kind[e.job]
      BY <3>2
    <3>10. \A d \in Calls : pc'[d] \in Resting \/ pc'[d] = pc[d]
      BY <3>6
    <3>11. QED BY <3>4, <3>8, <3>9, <3>10
  <2>7. CASE \E c \in Calls : ImportCallFails(c)
    <3>1. PICK c \in Calls : ImportCallFails(c)
      BY <2>7
    <3>2. QED BY <1>1, <3>1 DEF ImportCallFails
  <2>8. CASE \E j \in Jobs : RejectImport(j)
    <3>1. PICK j \in Jobs : RejectImport(j)
      BY <2>8
    <3>2. QED BY <1>1, <3>1 DEF RejectImport
  <2>9. QED BY <2>1, <2>2, <2>3, <2>4, <2>5, <2>6, <2>7, <2>8 DEF ImportStep
<1>3. Contacts \subseteq Contacts'
  BY <1>1, <1>2, ContactsStay
<1>4. QED BY <1>1, <1>2, <1>3, FrameInv

-----------------------------------------------------------------------------
(* Steps on accounts: what they leave of jobs and of what was copied.       *)
Copying == {"idle", "storing", "deciding", "copying"}

LEMMA JobsStay ==
    ASSUME AccountInv, UNCHANGED importVars,
           \A c \in Calls :
              \/ pc'[c] \notin Copying
              \/ pc'[c] = "idle" /\ made'[c] = {}
              \/ pc'[c] = pc[c] /\ at'[c] = at[c] /\ made'[c] = made[c]
    PROVE  JobsOfEntries'
  BY DEF AccountInv, JobsOfEntries, Copying, importVars

LEMMA JoinedStay ==
    ASSUME AccountInv, UNCHANGED importVars, joined \subseteq joined'
    PROVE  Contacts \subseteq Contacts'
  BY ContactsStay DEF importVars

(* The call c ends, or goes on to its next entry, and holds nothing more.   *)
LEMMA EndsRest ==
    ASSUME AccountInv, UNCHANGED importVars, NEW c \in Calls,
           Done(c) \/ (\E e \in made[c] \cup {Provisioned(c)} : Next1(c, e))
    PROVE  /\ pc' \in [Calls -> Pc] /\ at' \in [Calls -> Jobs \cup {Nothing}]
           /\ HasDomain(made, Calls)' /\ HasDomain(account, Calls)'
           /\ phone' \in [Calls -> Mobiles \cup {Nothing}]
           /\ secret' \in [Calls -> Secrets \cup {Nothing}]
           /\ pc'[c] \in {"idle", "provisioning"}
           /\ \A d \in Calls \ {c} : /\ pc'[d] = pc[d] /\ phone'[d] = phone[d]
                                     /\ secret'[d] = secret[d] /\ account'[d] = account[d]
           /\ JobsOfEntries'
<1> USE DEF AccountInv, AccountTypes, HasDomain, Pc
<1>1. CASE Done(c)
  <2>1. /\ pc' = [pc EXCEPT ![c] = "idle"] /\ at' = [at EXCEPT ![c] = Nothing]
        /\ made' = [made EXCEPT ![c] = {}]
        /\ phone' = [phone EXCEPT ![c] = Nothing]
        /\ secret' = [secret EXCEPT ![c] = Nothing]
        /\ account' = [account EXCEPT ![c] = Nothing]
    BY <1>1 DEF Done, Idle
  <2>2. JobsOfEntries'
    BY <2>1, JobsStay
  <2>3. QED BY <2>1, <2>2
<1>2. ASSUME NEW e \in made[c] \cup {Provisioned(c)}, Next1(c, e)
      PROVE  /\ pc' \in [Calls -> Pc] /\ at' \in [Calls -> Jobs \cup {Nothing}]
             /\ HasDomain(made, Calls)' /\ HasDomain(account, Calls)'
             /\ phone' \in [Calls -> Mobiles \cup {Nothing}]
             /\ secret' \in [Calls -> Secrets \cup {Nothing}]
             /\ pc'[c] \in {"idle", "provisioning"}
             /\ \A d \in Calls \ {c} : /\ pc'[d] = pc[d] /\ phone'[d] = phone[d]
                                       /\ secret'[d] = secret[d] /\ account'[d] = account[d]
             /\ JobsOfEntries'
  <2>1. /\ pc' = [pc EXCEPT ![c] = IF made[c] = {e} THEN "idle" ELSE "provisioning"]
        /\ at' = [at EXCEPT ![c] = IF made[c] = {e} THEN Nothing ELSE @]
        /\ made' = [made EXCEPT ![c] = @ \ {e}]
        /\ phone' = [phone EXCEPT ![c] = Nothing]
        /\ account' = [account EXCEPT ![c] = Nothing]
        /\ secret' = secret
    BY <1>2 DEF Next1
  <2>2. pc'[c] = "idle" => made'[c] = {}
    BY <2>1
  <2>3. JobsOfEntries'
    BY <2>1, <2>2, JobsStay DEF Copying
  <2>4. QED BY <2>1, <2>3
<1>3. QED BY <1>1, <1>2

(* A call that ends leaves accounts as they are. *)
LEMMA EndInv ==
    ASSUME AccountInv, NEW c \in Calls, UNCHANGED <<importVars, accountVars, delivered>>,
           fresh' \subseteq fresh, proofs' \subseteq Mobiles,
           Done(c) \/ (\E e \in made[c] \cup {Provisioned(c)} : Next1(c, e))
    PROVE  AccountInv'
<1>1. AccountTypes'
  BY EndsRest DEF AccountInv, AccountTypes, HasDomain, importVars, accountVars
<1>2. Contacts \subseteq Contacts'
  BY JoinedStay DEF accountVars
<1>3. QED BY <1>1, <1>2, EndsRest, FrameInv DEF accountVars, Resting

(* The call c goes on, and keeps what it holds. *)
LEMMA GoesOn ==
    ASSUME AccountInv, UNCHANGED <<importVars, copyVars>>, NEW c \in Calls,
           NEW l \in Pc \ Copying, Goto(c, l),
           phone' \in [Calls -> Mobiles \cup {Nothing}],
           secret' \in [Calls -> Secrets \cup {Nothing}], HasDomain(account, Calls)',
           password' \in [Mobiles -> Passwords], profiles' \subseteq Mobiles,
           delivered' \in [Mobiles -> SUBSET Secrets],
           fresh' \subseteq Secrets, proofs' \subseteq Mobiles
    PROVE  AccountTypes' /\ JobsOfEntries' /\ pc'[c] = l /\ \A d \in Calls \ {c} : pc'[d] = pc[d]
<1>1. pc \in [Calls -> Pc]
  BY DEF AccountInv, AccountTypes
<1>2. pc' \in [Calls -> Pc] /\ pc'[c] = l /\ \A d \in Calls \ {c} : pc'[d] = pc[d]
  BY <1>1 DEF Goto
<1>3. AccountTypes'
  BY <1>2 DEF AccountInv, AccountTypes, HasDomain, importVars, copyVars
<1>4. JobsOfEntries'
  BY <1>2, JobsStay DEF copyVars
<1>5. QED BY <1>2, <1>3, <1>4

(* The call c ends, with changes to accounts. *)
LEMMA EndsWith ==
    ASSUME AccountInv, UNCHANGED importVars, NEW c \in Calls,
           Done(c) \/ (\E e \in made[c] \cup {Provisioned(c)} : Next1(c, e)),
           password' \in [Mobiles -> Passwords], profiles' \subseteq Mobiles,
           delivered' \in [Mobiles -> SUBSET Secrets],
           fresh' \subseteq Secrets, proofs' \subseteq Mobiles
    PROVE  /\ AccountTypes' /\ JobsOfEntries'
           /\ pc'[c] \notin Holding /\ Holds(c)' /\ Knows(c)'
           /\ \A d \in Calls \ {c} : /\ pc'[d] = pc[d] /\ phone'[d] = phone[d]
                                     /\ secret'[d] = secret[d] /\ account'[d] = account[d]
<1>1. AccountTypes'
  BY EndsRest DEF AccountInv, AccountTypes, HasDomain, importVars
<1>2. pc'[c] \in {"idle", "provisioning"}
  BY EndsRest
<1>3. Holds(c)' /\ Knows(c)' /\ pc'[c] \notin Holding
  BY <1>2 DEF Holds, Knows, Holding
<1>4. QED BY <1>1, <1>3, EndsRest

-----------------------------------------------------------------------------
(* Provisioning. *)
LEMMA LookUpInv ==
    ASSUME AccountInv, NEW c \in Calls, LookUp(c)
    PROVE  AccountInv'
<1>1. PICK e \in made[c] :
         LET p == NormalizeYemeniPhone(NormalizePhone(e.cells.phone))
         IN \/ Next1(c, e) \/ Done(c)
            \/ /\ p # Nothing
               /\ phone' = [phone EXCEPT ![c] = p]
               /\ account' = [account EXCEPT ![c] = Link(p, e.taxpayer, "imported_pending_claim")]
               /\ Goto(c, "creating")
               /\ UNCHANGED <<copyVars, secret>>
  BY DEF LookUp
<1>2. UNCHANGED <<importVars, accountVars, messageVars, proofVars>>
  BY DEF LookUp
<1>3. AccountTypes /\ CallsKnow /\ HoldersDiffer
  BY DEF AccountInv
<1>4. CASE Next1(c, e) \/ Done(c)
  BY <1>2, <1>3, <1>4, EndInv DEF AccountTypes, messageVars, proofVars
<1>5. ASSUME NEW p \in Mobiles,
             phone' = [phone EXCEPT ![c] = p],
             account' = [account EXCEPT ![c] = Link(p, e.taxpayer, "imported_pending_claim")],
             Goto(c, "creating"), UNCHANGED <<copyVars, secret>>
      PROVE  AccountInv'
  <2>1. /\ phone' \in [Calls -> Mobiles \cup {Nothing}] /\ HasDomain(account, Calls)'
        /\ phone'[c] = p /\ account'[c] = Link(p, e.taxpayer, "imported_pending_claim")
        /\ \A d \in Calls \ {c} : phone'[d] = phone[d] /\ account'[d] = account[d] /\ secret'[d] = secret[d]
    BY <1>3, <1>5 DEF AccountTypes, HasDomain
  <2>2. /\ AccountTypes' /\ JobsOfEntries' /\ pc'[c] = "creating"
        /\ \A d \in Calls \ {c} : pc'[d] = pc[d]
    BY <1>2, <1>3, <1>5, <2>1, GoesOn
       DEF Pc, Copying, AccountTypes, accountVars, messageVars, proofVars
  <2>3. Holds(c)' /\ Knows(c)'
    BY <2>1, <2>2 DEF Holds, Knows, Holding, Link
  <2>4. Contacts \subseteq Contacts'
    BY <1>2, JoinedStay DEF accountVars
  <2>5. LinksHaveProfiles' /\ ClaimedCanSignIn' /\ SetPasswordsWereSent'
    BY <1>2, <2>4, SentStays
       DEF AccountInv, LinksHaveProfiles, ProfilesHaveIdentities, ClaimedCanSignIn,
           accountVars, messageVars
  <2>6. QED BY <1>2, <2>1, <2>2, <2>3, <2>4, <2>5, OthersStay DEF Holding, accountVars, messageVars
<1>6. QED BY <1>1, <1>4, <1>5 DEF NormalizeYemeniPhone

(* An identity made, or found made by somebody else. *)
LEMMA CreateIdentityInv ==
    ASSUME AccountInv, NEW c \in Calls, CreateIdentity(c)
    PROVE  AccountInv'
<1>1. /\ pc[c] = "creating"
      /\ UNCHANGED <<importVars, profiles, links, joined, messageVars, proofVars>>
  BY DEF CreateIdentity
<1>2. /\ AccountTypes /\ CallsKnow /\ LinksHaveProfiles /\ ClaimedCanSignIn
      /\ phone[c] \in Mobiles
      /\ account[c] = Link(phone[c], account[c].taxpayer, "imported_pending_claim")
  BY <1>1 DEF AccountInv, CallsKnow, Holds
<1>3. CASE Next1(c, Provisioned(c)) /\ UNCHANGED password
  BY <1>1, <1>2, <1>3, EndInv DEF AccountTypes, messageVars, proofVars, accountVars
<1>4. CASE /\ password[phone[c]] = "none"
           /\ password' = [password EXCEPT ![phone[c]] = "undisclosed"]
           /\ \/ Goto(c, "linking") /\ UNCHANGED <<copyVars, callVars>>
              \/ Next1(c, Provisioned(c))
  <2>1. /\ password' \in [Mobiles -> Passwords] /\ password'[phone[c]] = "undisclosed"
        /\ \A p \in Mobiles : password'[p] = password[p] \/ password[p] = "none"
        /\ \A p \in Mobiles : password'[p] \in Secrets => password'[p] = password[p]
        /\ \A p \in Mobiles : password'[p] = "none" => password[p] = "none"
    BY <1>2, <1>4, SecretAssumption DEF AccountTypes, Passwords
  <2>2. Contacts \subseteq Contacts'
    BY <1>1, JoinedStay
  <2>3. LinksHaveProfiles' /\ ClaimedCanSignIn'
    BY <1>1, <1>2, <2>1, SecretAssumption
       DEF LinksHaveProfiles, ProfilesHaveIdentities, ClaimedCanSignIn, AccountTypes
  <2>4. SetPasswordsWereSent'
    BY <1>1, <2>1, <2>2, SentStays DEF messageVars
  <2>5. /\ AccountTypes' /\ JobsOfEntries' /\ Holds(c)' /\ Knows(c)'
        /\ pc'[c] \in Holding => phone'[c] = phone[c]
        /\ \A d \in Calls \ {c} : /\ pc'[d] = pc[d] /\ phone'[d] = phone[d]
                                  /\ secret'[d] = secret[d] /\ account'[d] = account[d]
    <3>1. CASE Goto(c, "linking") /\ UNCHANGED <<copyVars, callVars>>
      <4>1. /\ AccountTypes' /\ JobsOfEntries' /\ pc'[c] = "linking"
            /\ \A d \in Calls \ {c} : pc'[d] = pc[d]
        BY <1>1, <1>2, <2>1, <3>1, GoesOn
           DEF Pc, Copying, AccountTypes, HasDomain, callVars, messageVars, proofVars
      <4>2. Holds(c)' /\ Knows(c)'
        BY <1>2, <2>1, <3>1, <4>1 DEF Holds, Knows, Holding, callVars
      <4>3. QED BY <3>1, <4>1, <4>2 DEF callVars
    <3>2. CASE Next1(c, Provisioned(c))
      BY <1>1, <1>2, <2>1, <3>2, EndsWith DEF AccountTypes, messageVars, proofVars
    <3>3. QED BY <1>4, <3>1, <3>2
  <2>6. QED BY <1>1, <1>4, <2>1, <2>2, <2>3, <2>4, <2>5, OthersStay DEF messageVars
<1>5. QED BY <1>3, <1>4 DEF CreateIdentity

(* The profile and the link come together, for an identity that is there. *)
LEMMA LinkAccountInv ==
    ASSUME AccountInv, NEW c \in Calls, LinkAccount(c)
    PROVE  AccountInv'
<1>1. /\ pc[c] = "linking"
      /\ UNCHANGED <<importVars, password, joined, messageVars, proofVars>>
      /\ \/ Goto(c, "compensating") /\ UNCHANGED <<copyVars, callVars>>
         \/ Next1(c, Provisioned(c))
  BY DEF LinkAccount
<1>2. /\ AccountTypes /\ CallsKnow /\ LinksHaveProfiles /\ ClaimedCanSignIn
      /\ phone[c] \in Mobiles /\ password[phone[c]] # "none"
      /\ account[c] = Link(phone[c], account[c].taxpayer, "imported_pending_claim")
  BY <1>1 DEF AccountInv, CallsKnow, Holds, Holding
<1>3. \/ UNCHANGED <<profiles, links>>
      \/ profiles' = profiles \cup {phone[c]} /\ links' = links \cup {account[c]}
  BY DEF LinkAccount
<1>4. /\ profiles' \subseteq Mobiles /\ profiles \subseteq profiles' /\ links \subseteq links'
      /\ \A p \in profiles' : password[p] # "none"
      /\ \A l \in links' \ links : l = account[c] /\ l.phone = phone[c] /\ phone[c] \in profiles'
                                   /\ l.status = "imported_pending_claim"
  BY <1>2, <1>3 DEF AccountTypes, LinksHaveProfiles, ProfilesHaveIdentities, Link
<1>5. Contacts \subseteq Contacts'
  BY <1>1, JoinedStay
<1>6. LinksHaveProfiles' /\ ClaimedCanSignIn'
  <2>1. \A l \in links' : l = Link(l.phone, l.taxpayer, l.status) /\ l.phone \in profiles'
    <3>1. account[c] = Link(account[c].phone, account[c].taxpayer, account[c].status)
      BY <1>2 DEF Link
    <3>2. QED BY <1>2, <1>4, <3>1 DEF LinksHaveProfiles
  <2>2. \A l \in links' : l.status = "claimed" => l \in links
    BY <1>4
  <2>3. QED BY <1>1, <1>2, <1>4, <2>1, <2>2
         DEF LinksHaveProfiles, ProfilesHaveIdentities, ClaimedCanSignIn
<1>7. SetPasswordsWereSent'
  BY <1>1, <1>4, <1>5, SentStays DEF messageVars
<1>8. /\ AccountTypes' /\ JobsOfEntries' /\ Holds(c)' /\ Knows(c)'
      /\ pc'[c] \in Holding => phone'[c] = phone[c]
      /\ \A d \in Calls \ {c} : /\ pc'[d] = pc[d] /\ phone'[d] = phone[d]
                                /\ secret'[d] = secret[d] /\ account'[d] = account[d]
  <2>1. CASE Goto(c, "compensating") /\ UNCHANGED <<copyVars, callVars>>
    <3>1. /\ AccountTypes' /\ JobsOfEntries' /\ pc'[c] = "compensating"
          /\ \A d \in Calls \ {c} : pc'[d] = pc[d]
      BY <1>1, <1>2, <1>4, <2>1, GoesOn
         DEF Pc, Copying, AccountTypes, HasDomain, callVars, messageVars, proofVars
    <3>2. Holds(c)' /\ Knows(c)'
      BY <1>1, <1>2, <2>1, <3>1 DEF Holds, Knows, Holding, callVars
    <3>3. QED BY <2>1, <3>1, <3>2 DEF callVars
  <2>2. CASE Next1(c, Provisioned(c))
    BY <1>1, <1>2, <1>4, <2>2, EndsWith DEF AccountTypes, messageVars, proofVars
  <2>3. QED BY <1>1, <2>1, <2>2
<1>9. QED BY <1>1, <1>4, <1>5, <1>6, <1>7, <1>8, OthersStay DEF messageVars, Holding

(* Only the call that made an identity deletes it, and no profile is left. *)
LEMMA DeleteIdentityInv ==
    ASSUME AccountInv, NEW c \in Calls, DeleteIdentity(c)
    PROVE  AccountInv'
<1>1. /\ pc[c] = "compensating" /\ Next1(c, Provisioned(c))
      /\ UNCHANGED <<importVars, profiles, links, joined, messageVars, proofVars>>
      /\ \/ UNCHANGED password
         \/ phone[c] \notin profiles /\ password' = [password EXCEPT ![phone[c]] = "none"]
  BY DEF DeleteIdentity
<1>2. /\ AccountTypes /\ CallsKnow /\ LinksHaveProfiles /\ ClaimedCanSignIn
      /\ phone[c] \in Mobiles /\ pc[c] \in Holding
  BY <1>1 DEF AccountInv, CallsKnow, Holds, Holding
<1>3. /\ password' \in [Mobiles -> Passwords]
      /\ \A p \in Mobiles : \/ password'[p] = password[p]
                            \/ p \notin profiles /\ phone[c] = p /\ password'[p] = "none"
      /\ \A p \in Mobiles : password'[p] \in Secrets => password'[p] = password[p]
  BY <1>1, <1>2, SecretAssumption DEF AccountTypes, Passwords
<1>4. Contacts \subseteq Contacts'
  BY <1>1, JoinedStay
<1>5. LinksHaveProfiles' /\ ClaimedCanSignIn'
  BY <1>1, <1>2, <1>3 DEF LinksHaveProfiles, ProfilesHaveIdentities, ClaimedCanSignIn, AccountTypes
<1>6. SetPasswordsWereSent'
  BY <1>1, <1>3, <1>4, SentStays DEF messageVars
<1>7. /\ AccountTypes' /\ JobsOfEntries' /\ Holds(c)' /\ Knows(c)' /\ pc'[c] \notin Holding
      /\ \A d \in Calls \ {c} : /\ pc'[d] = pc[d] /\ phone'[d] = phone[d]
                                /\ secret'[d] = secret[d] /\ account'[d] = account[d]
  BY <1>1, <1>2, <1>3, EndsWith DEF AccountTypes, messageVars, proofVars
<1>8. QED BY <1>1, <1>2, <1>3, <1>4, <1>5, <1>6, <1>7, OthersStay DEF messageVars

-----------------------------------------------------------------------------
(* Passwords by message. *)
LEMMA RequestCredentialsInv ==
    ASSUME AccountInv, NEW c \in Calls, NEW p \in Mobiles, RequestCredentials(c, p)
    PROVE  AccountInv'
<1>1. PICK l \in Pending(p), s \in fresh :
         /\ account' = [account EXCEPT ![c] = l] /\ phone' = [phone EXCEPT ![c] = p]
         /\ secret' = [secret EXCEPT ![c] = s] /\ fresh' = fresh \ {s}
         /\ Goto(c, "sending")
         /\ UNCHANGED <<importVars, copyVars, accountVars, delivered, cooling, proofVars>>
  BY DEF RequestCredentials
<1>2. AccountTypes /\ SetPasswordsWereSent
  BY DEF AccountInv
<1>3. /\ phone' \in [Calls -> Mobiles \cup {Nothing}] /\ secret' \in [Calls -> Secrets \cup {Nothing}]
      /\ HasDomain(account, Calls)' /\ fresh' \subseteq Secrets
      /\ phone'[c] = p /\ secret'[c] = s /\ account'[c] = l /\ s \in Secrets
      /\ \A d \in Calls \ {c} : phone'[d] = phone[d] /\ account'[d] = account[d] /\ secret'[d] = secret[d]
  BY <1>1, <1>2 DEF AccountTypes, HasDomain
<1>4. /\ AccountTypes' /\ JobsOfEntries' /\ pc'[c] = "sending"
      /\ \A d \in Calls \ {c} : pc'[d] = pc[d]
  BY <1>1, <1>2, <1>3, GoesOn DEF Pc, Copying, AccountTypes, accountVars, proofVars
<1>5. Contacts \subseteq Contacts'
  BY <1>1, JoinedStay DEF accountVars
<1>6. LinkIn(links, l.phone, l.taxpayer) /\ PhoneIn(Contacts, l.taxpayer, p)
  BY DEF Pending, LinkIn, PhoneIn
<1>7. LinkIn(links', l.phone, l.taxpayer) /\ PhoneIn(Contacts', l.taxpayer, p)
  BY <1>1, <1>5, <1>6, PhoneStays DEF accountVars
<1>8. Holds(c)' /\ Knows(c)'
  BY <1>3, <1>4, <1>7 DEF Holds, Knows, Holding
<1>9. LinksHaveProfiles' /\ ClaimedCanSignIn' /\ SetPasswordsWereSent'
  BY <1>1, <1>5, SentStays
     DEF AccountInv, LinksHaveProfiles, ProfilesHaveIdentities, ClaimedCanSignIn, accountVars
<1>10. QED BY <1>1, <1>3, <1>4, <1>5, <1>8, <1>9, OthersStay DEF Holding, accountVars

LEMMA SendPasswordInv ==
    ASSUME AccountInv, NEW c \in Calls, SendPassword(c)
    PROVE  AccountInv'
<1>1. /\ pc[c] = "sending"
      /\ UNCHANGED <<importVars, accountVars, fresh, cooling, proofVars>>
  BY DEF SendPassword
<1>2. /\ AccountTypes /\ Holds(c) /\ Knows(c) /\ phone[c] \in Mobiles /\ secret[c] \in Secrets
      /\ LinkIn(links, account[c].phone, account[c].taxpayer)
      /\ PhoneIn(Contacts, account[c].taxpayer, phone[c])
  BY <1>1 DEF AccountInv, CallsKnow, Holds, Knows
<1>3. CASE Done(c) /\ UNCHANGED delivered
  BY <1>1, <1>2, <1>3, EndInv DEF AccountTypes, proofVars
<1>4. CASE /\ delivered' = [delivered EXCEPT ![phone[c]] = @ \cup {secret[c]}]
           /\ Done(c) \/ (Goto(c, "setting") /\ UNCHANGED <<copyVars, callVars>>)
  <2>1. /\ delivered' \in [Mobiles -> SUBSET Secrets] /\ secret[c] \in delivered'[phone[c]]
        /\ \A n \in Mobiles : delivered[n] \subseteq delivered'[n]
    BY <1>2, <1>4 DEF AccountTypes
  <2>2. Contacts \subseteq Contacts'
    BY <1>1, JoinedStay DEF accountVars
  <2>3. LinksHaveProfiles' /\ ClaimedCanSignIn' /\ SetPasswordsWereSent'
    BY <1>1, <2>1, <2>2, SentStays
       DEF AccountInv, LinksHaveProfiles, ProfilesHaveIdentities, ClaimedCanSignIn, accountVars
  <2>4. /\ AccountTypes' /\ JobsOfEntries' /\ Holds(c)' /\ Knows(c)' /\ pc'[c] \notin Holding
        /\ \A d \in Calls \ {c} : /\ pc'[d] = pc[d] /\ phone'[d] = phone[d]
                                  /\ secret'[d] = secret[d] /\ account'[d] = account[d]
    <3>1. CASE Goto(c, "setting") /\ UNCHANGED <<copyVars, callVars>>
      <4>1. /\ AccountTypes' /\ JobsOfEntries' /\ pc'[c] = "setting"
            /\ \A d \in Calls \ {c} : pc'[d] = pc[d]
        BY <1>1, <1>2, <2>1, <3>1, GoesOn
           DEF Pc, Copying, AccountTypes, HasDomain, callVars, accountVars, proofVars
      <4>2. PhoneIn(Contacts', account[c].taxpayer, phone[c])
        BY <1>2, <2>2, PhoneStays
      <4>3. Holds(c)' /\ Knows(c)'
        BY <1>1, <1>2, <2>1, <3>1, <4>1, <4>2 DEF Holds, Knows, Holding, callVars, accountVars
      <4>4. QED BY <3>1, <4>1, <4>3 DEF callVars, Holding
    <3>2. CASE Done(c)
      BY <1>1, <1>2, <2>1, <3>2, EndsWith DEF AccountTypes, accountVars, proofVars
    <3>3. QED BY <1>4, <3>1, <3>2
  <2>5. QED BY <1>1, <2>1, <2>2, <2>3, <2>4, OthersStay DEF accountVars
<1>5. QED BY <1>3, <1>4 DEF SendPassword

(* The password that is set is the one that was sent. *)
LEMMA SetPasswordInv ==
    ASSUME AccountInv, NEW c \in Calls, SetPassword(c)
    PROVE  AccountInv'
<1>1. /\ pc[c] = "setting"
      /\ UNCHANGED <<importVars, profiles, links, joined, messageVars, proofVars>>
  BY DEF SetPassword
<1>2. /\ AccountTypes /\ LinksHaveProfiles /\ ClaimedCanSignIn
      /\ phone[c] \in Mobiles /\ secret[c] \in Secrets
      /\ secret[c] \in delivered[phone[c]]
      /\ LinkIn(links, account[c].phone, account[c].taxpayer)
      /\ PhoneIn(Contacts, account[c].taxpayer, phone[c])
  BY <1>1 DEF AccountInv, CallsKnow, Holds, Knows
<1>3. account[c].phone \in Mobiles
  BY <1>2 DEF LinkIn, LinksHaveProfiles, AccountTypes
<1>4. CASE Done(c) /\ UNCHANGED password
  BY <1>1, <1>2, <1>4, EndInv DEF AccountTypes, accountVars, messageVars, proofVars
<1>5. CASE /\ password' = [password EXCEPT ![account[c].phone] = secret[c]]
           /\ Done(c) \/ (Goto(c, "claiming") /\ UNCHANGED <<copyVars, callVars>>)
  <2>1. /\ password' \in [Mobiles -> Passwords] /\ password'[account[c].phone] = secret[c]
        /\ \A p \in Mobiles \ {account[c].phone} : password'[p] = password[p]
    BY <1>2, <1>3, <1>5 DEF AccountTypes, Passwords
  <2>2. Contacts \subseteq Contacts'
    BY <1>1, JoinedStay
  <2>3. LinksHaveProfiles' /\ ClaimedCanSignIn'
    BY <1>1, <1>2, <2>1, SecretAssumption
       DEF LinksHaveProfiles, ProfilesHaveIdentities, ClaimedCanSignIn, AccountTypes
  <2>4. SetPasswordsWereSent'
    <3>1. PICK l \in links : l.phone = account[c].phone /\ l.taxpayer = account[c].taxpayer
      BY <1>2 DEF LinkIn
    <3>2. PICK k \in Contacts : /\ k.taxpayer = account[c].taxpayer /\ k.type = "phone"
                                /\ SubscriberDigits(k.value) = phone[c]
      BY <1>2 DEF PhoneIn
    <3>3. ASSUME NEW p \in Mobiles, p # account[c].phone, password'[p] \in Secrets
          PROVE  \E n \in Mobiles : \E m \in links', j \in Contacts' :
                    /\ m.phone = p
                    /\ j.taxpayer = m.taxpayer /\ j.type = "phone" /\ SubscriberDigits(j.value) = n
                    /\ password'[p] \in delivered'[n]
      <4>1. password[p] \in Secrets /\ password'[p] = password[p]
        BY <2>1, <3>3
      <4>2. PICK n \in Mobiles, m \in links, j \in Contacts :
              /\ m.phone = p
              /\ j.taxpayer = m.taxpayer /\ j.type = "phone" /\ SubscriberDigits(j.value) = n
              /\ password[p] \in delivered[n]
        BY <4>1 DEF AccountInv, SetPasswordsWereSent
      <4>3. j \in Contacts' /\ m \in links' /\ delivered'[n] = delivered[n]
        BY <1>1, <2>2 DEF messageVars
      <4>4. QED BY <4>1, <4>2, <4>3
    <3>4. k \in Contacts' /\ l \in links' /\ password'[account[c].phone] \in delivered'[phone[c]]
      BY <1>1, <1>2, <2>1, <2>2 DEF messageVars
    <3>5. \E n \in Mobiles : \E m \in links', j \in Contacts' :
                    /\ m.phone = account[c].phone
                    /\ j.taxpayer = m.taxpayer /\ j.type = "phone" /\ SubscriberDigits(j.value) = n
                    /\ password'[account[c].phone] \in delivered'[n]
      BY <1>2, <3>1, <3>2, <3>4
    <3>6. QED BY <3>3, <3>5 DEF SetPasswordsWereSent
  <2>5. /\ AccountTypes' /\ JobsOfEntries' /\ Holds(c)' /\ Knows(c)' /\ pc'[c] \notin Holding
        /\ \A d \in Calls \ {c} : /\ pc'[d] = pc[d] /\ phone'[d] = phone[d]
                                  /\ secret'[d] = secret[d] /\ account'[d] = account[d]
    <3>1. CASE Goto(c, "claiming") /\ UNCHANGED <<copyVars, callVars>>
      <4>1. /\ AccountTypes' /\ JobsOfEntries' /\ pc'[c] = "claiming"
            /\ \A d \in Calls \ {c} : pc'[d] = pc[d]
        BY <1>1, <1>2, <2>1, <3>1, GoesOn
           DEF Pc, Copying, AccountTypes, HasDomain, callVars, messageVars, proofVars
      <4>2. PhoneIn(Contacts', account[c].taxpayer, phone[c])
        BY <1>2, <2>2, PhoneStays
      <4>3. Holds(c)' /\ Knows(c)'
        BY <1>1, <1>2, <2>1, <3>1, <4>1, <4>2 DEF Holds, Knows, Holding, callVars
      <4>4. QED BY <3>1, <4>1, <4>3 DEF callVars, Holding
    <3>2. CASE Done(c)
      BY <1>1, <1>2, <2>1, <3>2, EndsWith DEF AccountTypes, messageVars, proofVars
    <3>3. QED BY <1>5, <3>1, <3>2
  <2>6. \A p \in Mobiles : password'[p] = password[p] \/ password'[p] \in Secrets
    BY <1>2, <2>1
  <2>7. QED BY <1>1, <2>2, <2>3, <2>4, <2>5, <2>6, OthersStay DEF messageVars
<1>6. QED BY <1>4, <1>5 DEF SetPassword

(* A link is claimed once its password is set. *)
LEMMA ClaimLinkInv ==
    ASSUME AccountInv, NEW c \in Calls, ClaimLink(c)
    PROVE  AccountInv'
<1>1. /\ pc[c] = "claiming" /\ Done(c)
      /\ links' = {IF l.phone = account[c].phone /\ l.taxpayer = account[c].taxpayer
                   THEN [l EXCEPT !.status = "claimed"] ELSE l : l \in links}
      /\ UNCHANGED <<importVars, password, profiles, joined, delivered, fresh, proofVars>>
  BY DEF ClaimLink
<1>2. /\ AccountTypes /\ LinksHaveProfiles /\ ClaimedCanSignIn
      /\ password[account[c].phone] \in Secrets
  BY <1>1 DEF AccountInv, CallsKnow, Knows
<1>3. \A l \in links : l = [phone |-> l.phone, taxpayer |-> l.taxpayer, status |-> l.status]
  BY <1>2 DEF LinksHaveProfiles, Link
<1>4. \A m \in links' : \E l \in links :
         /\ m.phone = l.phone /\ m.taxpayer = l.taxpayer
         /\ m = Link(m.phone, m.taxpayer, m.status)
         /\ m.status = "claimed" => l.status = "claimed" \/ l.phone = account[c].phone
  <2>1. ASSUME NEW l \in links,
               NEW m, m = IF l.phone = account[c].phone /\ l.taxpayer = account[c].taxpayer
                          THEN [l EXCEPT !.status = "claimed"] ELSE l
        PROVE  /\ m.phone = l.phone /\ m.taxpayer = l.taxpayer
               /\ m = Link(m.phone, m.taxpayer, m.status)
               /\ m.status = "claimed" => l.status = "claimed" \/ l.phone = account[c].phone
    BY <1>3, <2>1 DEF Link
  <2>2. QED BY <1>1, <2>1
<1>5. \A l \in links : \E m \in links' : m.phone = l.phone /\ m.taxpayer = l.taxpayer
  <2>1. ASSUME NEW l \in links PROVE \E m \in links' : m.phone = l.phone /\ m.taxpayer = l.taxpayer
    <3>1. CASE l.phone = account[c].phone /\ l.taxpayer = account[c].taxpayer
      <4>1. [l EXCEPT !.status = "claimed"] \in links'
        BY <1>1, <3>1
      <4>2. [l EXCEPT !.status = "claimed"].phone = l.phone
            /\ [l EXCEPT !.status = "claimed"].taxpayer = l.taxpayer
        BY <1>3
      <4>3. QED BY <4>1, <4>2
    <3>2. CASE ~(l.phone = account[c].phone /\ l.taxpayer = account[c].taxpayer)
      BY <1>1, <3>2
    <3>3. QED BY <3>1, <3>2
  <2>2. QED BY <2>1
<1>6. Contacts \subseteq Contacts'
  BY <1>1, JoinedStay
<1>7. LinksHaveProfiles' /\ ClaimedCanSignIn'
  <2>1. \A m \in links' : m = Link(m.phone, m.taxpayer, m.status) /\ m.phone \in profiles'
    BY <1>1, <1>2, <1>4 DEF LinksHaveProfiles
  <2>2. \A m \in links' : m.status = "claimed" => password[m.phone] \in Secrets
    BY <1>2, <1>4 DEF ClaimedCanSignIn
  <2>3. QED BY <1>1, <1>2, <2>1, <2>2 DEF LinksHaveProfiles, ProfilesHaveIdentities, ClaimedCanSignIn
<1>8. SetPasswordsWereSent'
  BY <1>1, <1>5, <1>6, SentStays
<1>9. /\ AccountTypes' /\ JobsOfEntries' /\ Holds(c)' /\ Knows(c)' /\ pc'[c] \notin Holding
      /\ \A d \in Calls \ {c} : /\ pc'[d] = pc[d] /\ phone'[d] = phone[d]
                                /\ secret'[d] = secret[d] /\ account'[d] = account[d]
  BY <1>1, <1>2, EndsWith DEF AccountTypes, proofVars
<1>10. QED BY <1>1, <1>5, <1>6, <1>7, <1>8, <1>9, OthersStay

-----------------------------------------------------------------------------
(* Registration, and the completion of a profile. *)
LEMMA ProofInv ==
    ASSUME AccountInv, NEW p \in Mobiles, VerifyRegistrationOtp(p) \/ ProofExpires(p) \/ CooldownEnds(p)
    PROVE  AccountInv'
<1>1. /\ UNCHANGED <<importVars, pc, copyVars, accountVars, delivered, fresh, callVars>>
      /\ proofs' \subseteq proofs \cup {p}
  BY DEF VerifyRegistrationOtp, ProofExpires, CooldownEnds, messageVars, proofVars
<1>2. AccountTypes'
  BY <1>1 DEF AccountInv, AccountTypes, HasDomain, importVars, copyVars, accountVars, callVars
<1>3. JobsOfEntries'
  BY <1>1, JobsStay DEF copyVars
<1>4. Contacts \subseteq Contacts'
  BY <1>1, JoinedStay DEF accountVars
<1>5. QED BY <1>1, <1>2, <1>3, <1>4, FrameInv DEF accountVars, callVars

(* A call starts for the phone p. *)
LEMMA StartInv ==
    ASSUME AccountInv, NEW c \in Calls, NEW p \in Mobiles, CheckProof(c, p) \/ ReadOwnLink(c, p)
    PROVE  AccountInv'
<1>1. /\ UNCHANGED <<importVars, copyVars, accountVars, messageVars, proofVars, secret, account>>
      /\ phone' = [phone EXCEPT ![c] = p]
      /\ \/ Goto(c, "proved")
         \/ Goto(c, "completing") /\ p \in profiles
  BY DEF CheckProof, ReadOwnLink
<1>2. AccountTypes
  BY DEF AccountInv
<1>3. /\ phone' \in [Calls -> Mobiles \cup {Nothing}] /\ phone'[c] = p
      /\ \A d \in Calls \ {c} : phone'[d] = phone[d]
  BY <1>1, <1>2 DEF AccountTypes
<1>4. Contacts \subseteq Contacts'
  BY <1>1, JoinedStay DEF accountVars
<1>5. ASSUME NEW l \in {"proved", "completing"}, Goto(c, l)
      PROVE  /\ AccountTypes' /\ JobsOfEntries' /\ pc'[c] = l
             /\ \A d \in Calls \ {c} : pc'[d] = pc[d]
  <2>1. l \in Pc \ Copying
    BY DEF Pc, Copying
  <2>2. QED BY <1>1, <1>2, <1>3, <1>5, <2>1, GoesOn
         DEF AccountTypes, HasDomain, accountVars, messageVars, proofVars
<1>6. /\ AccountTypes' /\ JobsOfEntries' /\ pc'[c] \in {"proved", "completing"}
      /\ pc'[c] = "completing" => p \in profiles
      /\ \A d \in Calls \ {c} : pc'[d] = pc[d]
  BY <1>1, <1>5
<1>7. Holds(c)' /\ Knows(c)'
  BY <1>1, <1>3, <1>6 DEF Holds, Knows, Holding, accountVars
<1>8. LinksHaveProfiles' /\ ClaimedCanSignIn' /\ SetPasswordsWereSent'
  BY <1>1, <1>4, SentStays
     DEF AccountInv, LinksHaveProfiles, ProfilesHaveIdentities, ClaimedCanSignIn,
         accountVars, messageVars
<1>9. QED BY <1>1, <1>3, <1>4, <1>6, <1>7, <1>8, OthersStay DEF Holding, accountVars, messageVars

LEMMA SpendProofInv ==
    ASSUME AccountInv, NEW c \in Calls, SpendProof(c)
    PROVE  AccountInv'
<1>1. /\ pc[c] = "proved" /\ UNCHANGED <<importVars, accountVars, messageVars, proofs>>
      /\ Done(c) \/ (Goto(c, "registering") /\ UNCHANGED <<copyVars, callVars>>)
  BY DEF SpendProof
<1>2. AccountTypes /\ phone[c] \in Mobiles
  BY <1>1 DEF AccountInv, CallsKnow, Holds
<1>3. CASE Done(c)
  BY <1>1, <1>2, <1>3, EndInv DEF AccountTypes, messageVars
<1>4. CASE Goto(c, "registering") /\ UNCHANGED <<copyVars, callVars>>
  <2>1. /\ AccountTypes' /\ JobsOfEntries' /\ pc'[c] = "registering"
        /\ \A d \in Calls \ {c} : pc'[d] = pc[d]
    BY <1>1, <1>2, <1>4, GoesOn
       DEF Pc, Copying, AccountTypes, HasDomain, callVars, accountVars, messageVars
  <2>2. Contacts \subseteq Contacts'
    BY <1>1, JoinedStay DEF accountVars
  <2>3. Holds(c)' /\ Knows(c)'
    BY <1>2, <1>4, <2>1 DEF Holds, Knows, Holding, callVars
  <2>4. LinksHaveProfiles' /\ ClaimedCanSignIn' /\ SetPasswordsWereSent'
    BY <1>1, <2>2, SentStays
       DEF AccountInv, LinksHaveProfiles, ProfilesHaveIdentities, ClaimedCanSignIn,
           accountVars, messageVars
  <2>5. QED BY <1>1, <1>4, <2>1, <2>2, <2>3, <2>4, OthersStay
         DEF Holding, accountVars, messageVars, callVars
<1>5. QED BY <1>1, <1>3, <1>4

LEMMA RegisterIdentityInv ==
    ASSUME AccountInv, NEW c \in Calls, RegisterIdentity(c)
    PROVE  AccountInv'
<1>1. /\ pc[c] = "registering"
      /\ UNCHANGED <<importVars, profiles, links, joined, messageVars, proofVars>>
  BY DEF RegisterIdentity
<1>2. AccountTypes /\ LinksHaveProfiles /\ ClaimedCanSignIn /\ phone[c] \in Mobiles
  BY <1>1 DEF AccountInv, CallsKnow, Holds
<1>3. CASE Done(c) /\ UNCHANGED password
  BY <1>1, <1>2, <1>3, EndInv DEF AccountTypes, accountVars, messageVars, proofVars
<1>4. CASE /\ password[phone[c]] = "none"
           /\ password' = [password EXCEPT ![phone[c]] = "chosen"]
           /\ Done(c) \/ (Goto(c, "profiling") /\ UNCHANGED <<copyVars, callVars>>)
  <2>1. /\ password' \in [Mobiles -> Passwords] /\ password'[phone[c]] = "chosen"
        /\ \A p \in Mobiles : password'[p] = password[p] \/ password[p] = "none"
        /\ \A p \in Mobiles : password'[p] \in Secrets => password'[p] = password[p]
        /\ \A p \in Mobiles : password'[p] = "none" => password[p] = "none"
    BY <1>2, <1>4, SecretAssumption DEF AccountTypes, Passwords
  <2>2. Contacts \subseteq Contacts'
    BY <1>1, JoinedStay
  <2>3. LinksHaveProfiles' /\ ClaimedCanSignIn'
    BY <1>1, <1>2, <2>1, SecretAssumption
       DEF LinksHaveProfiles, ProfilesHaveIdentities, ClaimedCanSignIn, AccountTypes
  <2>4. SetPasswordsWereSent'
    BY <1>1, <2>1, <2>2, SentStays DEF messageVars
  <2>5. /\ AccountTypes' /\ JobsOfEntries' /\ Holds(c)' /\ Knows(c)'
        /\ pc'[c] \in Holding => phone'[c] = phone[c]
        /\ \A d \in Calls \ {c} : /\ pc'[d] = pc[d] /\ phone'[d] = phone[d]
                                  /\ secret'[d] = secret[d] /\ account'[d] = account[d]
    <3>1. CASE Goto(c, "profiling") /\ UNCHANGED <<copyVars, callVars>>
      <4>1. /\ AccountTypes' /\ JobsOfEntries' /\ pc'[c] = "profiling"
            /\ \A d \in Calls \ {c} : pc'[d] = pc[d]
        BY <1>1, <1>2, <2>1, <3>1, GoesOn
           DEF Pc, Copying, AccountTypes, HasDomain, callVars, messageVars, proofVars
      <4>2. Holds(c)' /\ Knows(c)'
        BY <1>2, <2>1, <3>1, <4>1 DEF Holds, Knows, Holding, callVars
      <4>3. QED BY <3>1, <4>1, <4>2 DEF callVars
    <3>2. CASE Done(c)
      BY <1>1, <1>2, <2>1, <3>2, EndsWith DEF AccountTypes, messageVars, proofVars
    <3>3. QED BY <1>4, <3>1, <3>2
  <2>6. QED BY <1>1, <1>4, <2>1, <2>2, <2>3, <2>4, <2>5, OthersStay DEF messageVars
<1>5. QED BY <1>3, <1>4 DEF RegisterIdentity

LEMMA RegisterProfileInv ==
    ASSUME AccountInv, NEW c \in Calls, RegisterProfile(c)
    PROVE  AccountInv'
<1>1. /\ pc[c] = "profiling" /\ Done(c)
      /\ profiles' = profiles \/ profiles' = profiles \cup {phone[c]}
      /\ UNCHANGED <<importVars, password, links, joined, messageVars, proofVars>>
  BY DEF RegisterProfile
<1>2. /\ AccountTypes /\ LinksHaveProfiles /\ ClaimedCanSignIn
      /\ phone[c] \in Mobiles /\ password[phone[c]] # "none"
  BY <1>1 DEF AccountInv, CallsKnow, Holds, Holding
<1>3. profiles \subseteq profiles' /\ profiles' \subseteq profiles \cup {phone[c]}
  BY <1>1
<1>4. Contacts \subseteq Contacts'
  BY <1>1, JoinedStay
<1>5. LinksHaveProfiles' /\ ClaimedCanSignIn'
  BY <1>1, <1>2, <1>3 DEF LinksHaveProfiles, ProfilesHaveIdentities, ClaimedCanSignIn
<1>6. SetPasswordsWereSent'
  BY <1>1, <1>4, SentStays DEF messageVars
<1>7. /\ AccountTypes' /\ JobsOfEntries' /\ Holds(c)' /\ Knows(c)' /\ pc'[c] \notin Holding
      /\ \A d \in Calls \ {c} : /\ pc'[d] = pc[d] /\ phone'[d] = phone[d]
                                /\ secret'[d] = secret[d] /\ account'[d] = account[d]
  BY <1>1, <1>2, <1>3, EndsWith DEF AccountTypes, messageVars, proofVars
<1>8. QED BY <1>1, <1>3, <1>4, <1>5, <1>6, <1>7, OthersStay DEF messageVars

LEMMA CompleteProfileInv ==
    ASSUME AccountInv, NEW c \in Calls, CompleteProfile(c)
    PROVE  AccountInv'
<1>1. /\ pc[c] = "completing" /\ Done(c)
      /\ UNCHANGED <<importVars, password, profiles, messageVars, proofVars>>
  BY DEF CompleteProfile
<1>2. AccountTypes /\ LinksHaveProfiles /\ ClaimedCanSignIn /\ phone[c] \in profiles
  BY <1>1 DEF AccountInv, CallsKnow, Holds
<1>3. PICK t : /\ links' \subseteq links \cup {Link(phone[c], t, "pending")}
               /\ links \subseteq links' /\ joined \subseteq joined'
  BY DEF CompleteProfile
<1>4. Contacts \subseteq Contacts'
  BY <1>1, <1>3, JoinedStay
<1>5. LinksHaveProfiles' /\ ClaimedCanSignIn'
  BY <1>1, <1>2, <1>3 DEF LinksHaveProfiles, ProfilesHaveIdentities, ClaimedCanSignIn, Link
<1>6. SetPasswordsWereSent'
  BY <1>1, <1>3, <1>4, SentStays DEF messageVars
<1>7. /\ AccountTypes' /\ JobsOfEntries' /\ Holds(c)' /\ Knows(c)' /\ pc'[c] \notin Holding
      /\ \A d \in Calls \ {c} : /\ pc'[d] = pc[d] /\ phone'[d] = phone[d]
                                /\ secret'[d] = secret[d] /\ account'[d] = account[d]
  BY <1>1, <1>2, EndsWith DEF AccountTypes, messageVars, proofVars
<1>8. QED BY <1>1, <1>3, <1>4, <1>5, <1>6, <1>7, OthersStay DEF messageVars

LEMMA RestartInv ==
    ASSUME AccountInv, Restart
    PROVE  AccountInv'
<1>1. /\ UNCHANGED <<importVars, accountVars, delivered, fresh, proofs>>
      /\ pc' = [c \in Calls |-> "idle"] /\ at' = [c \in Calls |-> Nothing]
      /\ made' = [c \in Calls |-> {}]
      /\ phone' = [c \in Calls |-> Nothing] /\ secret' = [c \in Calls |-> Nothing]
      /\ account' = [c \in Calls |-> Nothing]
  BY DEF Restart
<1>2. AccountTypes'
  BY <1>1 DEF AccountInv, AccountTypes, HasDomain, Pc, importVars, accountVars
<1>3. JobsOfEntries'
  BY <1>1, JobsStay
<1>4. Contacts \subseteq Contacts'
  BY <1>1, JoinedStay DEF accountVars
<1>5. QED BY <1>1, <1>2, <1>3, <1>4, FrameInv DEF accountVars, Resting

LEMMA NextInv == AccountInv /\ [Next]_vars => AccountInv'
<1> SUFFICES ASSUME AccountInv, [Next]_vars PROVE AccountInv'
  OBVIOUS
<1>1. CASE ProvisioningStep
  BY <1>1, LookUpInv, CreateIdentityInv, LinkAccountInv, DeleteIdentityInv DEF ProvisioningStep
<1>2. CASE CredentialsStep
  BY <1>2, RequestCredentialsInv, SendPasswordInv, SetPasswordInv, ClaimLinkInv, ProofInv
     DEF CredentialsStep
<1>3. CASE RegistrationStep
  BY <1>3, ProofInv, StartInv, SpendProofInv, RegisterIdentityInv, RegisterProfileInv,
     CompleteProfileInv DEF RegistrationStep
<1>4. CASE \E c \in Calls : AccountCallFails(c)
  <2>1. PICK c \in Calls : AccountCallFails(c)
    BY <1>4
  <2>2. QED BY <2>1, EndInv DEF AccountCallFails, AccountInv, AccountTypes, messageVars, proofVars
<1>5. CASE UNCHANGED vars
  <2>1. UNCHANGED <<importVars, pc, copyVars, accountVars, delivered, fresh, proofs, callVars>>
    BY <1>5 DEF vars, messageVars, proofVars
  <2>2. AccountTypes'
    BY <2>1 DEF AccountInv, AccountTypes, HasDomain, importVars, copyVars, accountVars, callVars
  <2>3. JobsOfEntries'
    BY <2>1, JobsStay DEF copyVars
  <2>4. Contacts \subseteq Contacts'
    BY <2>1, JoinedStay DEF accountVars
  <2>5. QED BY <2>1, <2>2, <2>3, <2>4, FrameInv DEF accountVars, callVars
<1>6. QED BY <1>1, <1>2, <1>3, <1>4, <1>5, ImportInv, RestartInv DEF Next

(* The invariant of the accounts holds in every state. *)
THEOREM AccountsInvariant == Spec => []AccountInv
<1>1. QED BY InitInv, NextInv, PTL DEF Spec

(* However provisioning, its compensation and registration overlap, and     *)
(* whichever answers of the provider or of COMMIT are lost, no profile is   *)
(* left without its identity (user_profiles, ON DELETE RESTRICT).           *)
THEOREM ProfilesKeepIdentities == Spec => []ProfilesHaveIdentities
<1>1. AccountInv => ProfilesHaveIdentities
  BY DEF AccountInv, LinksHaveProfiles
<1>2. QED BY <1>1, AccountsInvariant, PTL

(* A password that requestCredentials set was sent before to a phone of the *)
(* taxpayer of the account, for any number of concurrent requests.          *)
THEOREM PasswordsWereSent == Spec => []SetPasswordsWereSent
<1>1. AccountInv => SetPasswordsWereSent
  BY DEF AccountInv
<1>2. QED BY <1>1, AccountsInvariant, PTL

(* A link that requestCredentials claimed is of an account with a profile   *)
(* and a password that was sent.                                            *)
THEOREM ClaimedAccountsWork == Spec => []ClaimedCanSignIn
<1>1. AccountInv => ClaimedCanSignIn
  BY DEF AccountInv
<1>2. QED BY <1>1, AccountsInvariant, PTL

-----------------------------------------------------------------------------
(***************************************************************************)
(* The rows of a file on their way: stored one after the other, by the one *)
(* call that uploads the job; read when they were accepted; copied; landed.*)
(***************************************************************************)
Apart(x, y) ==
    /\ Nothing \notin {x.phone, y.phone} => NormalizePhone(x.phone) # NormalizePhone(y.phone)
    /\ x.tax # Nothing => x.tax # y.tax

Batch(k, rows) ==
    /\ \A row, other \in rows :
          k # "dues" /\ row # other /\ row.valid /\ other.valid
          => Apart(row.cells, other.cells)
    /\ \A row \in rows : k = "dues" /\ row.valid => row.cells.request \in Requests \cup {Nothing}

AcceptedIn(rows, n, x) == \E row \in rows : row.number = n /\ row.cells = x /\ row.valid

RowsInv ==
    /\ HasDomain(todo, Calls) /\ HasDomain(stored, Jobs)
    /\ \A j \in Jobs : status[j] = "absent" => stored[j] = {}
    /\ \A c, d \in Calls : c # d /\ pc[c] = "storing" /\ pc[d] = "storing" => at[c] # at[d]
    /\ \A j \in Jobs : Batch(kind[j], stored[j])
    /\ \A c \in Calls : pc[c] = "storing" => Batch(kind[at[c]], stored[at[c]] \cup todo[c])
    /\ \A c \in Calls : pc[c] = "copying" =>
          /\ \A r \in todo[c] : AcceptedIn(stored[at[c]], r.number, r.cells)
          /\ \A e \in made[c] : AcceptedIn(stored[at[c]], e.number, e.cells)
    /\ \A e \in landed : AcceptedIn(stored[e.job], e.number, e.cells)

(* What validateRows accepts of a file repeats no phone and no tax number,   *)
(* and names requests that there are.                                       *)
LEMMA ValidRowsDiffer ==
    ASSUME NEW u \in Uploads, NEW seen, NEW found \in {Requests, {}}
    PROVE  Batch(u.kind, ValidateRows(u.kind, u.rows, seen, found))
<1>1. ASSUME NEW i \in DOMAIN u.rows, NEW k \in DOMAIN u.rows, i < k,
             u.kind # "dues", ValidRow(u.kind, u.rows, k, seen, found)
      PROVE  Apart(u.rows[i], u.rows[k]) /\ Apart(u.rows[k], u.rows[i])
  <2>1. /\ i \in 1..(k - 1)
        /\ ~RepeatsEarlier(u.rows, k)
    BY <1>1, ImportAssumption DEF ValidRow
  <2>2. Apart(u.rows[i], u.rows[k])
    BY <2>1 DEF RepeatsEarlier, Apart
  <2>3. QED BY <2>2 DEF Apart
<1>2. SUFFICES ASSUME NEW row \in ValidateRows(u.kind, u.rows, seen, found),
                      NEW other \in ValidateRows(u.kind, u.rows, seen, found),
                      u.kind # "dues", row # other, row.valid, other.valid
               PROVE  Apart(row.cells, other.cells)
  <2>1. ASSUME NEW row \in ValidateRows(u.kind, u.rows, seen, found), u.kind = "dues", row.valid
        PROVE  row.cells.request \in Requests \cup {Nothing}
    <3>1. PICK i \in DOMAIN u.rows :
             row = [number |-> i, cells |-> u.rows[i], valid |-> ValidRow(u.kind, u.rows, i, seen, found)]
      BY DEF ValidateRows
    <3>2. row.cells = u.rows[i] /\ ValidRow(u.kind, u.rows, i, seen, found)
      BY <2>1, <3>1, Zenon
    <3>3. QED BY <2>1, <3>2 DEF ValidRow
  <2>2. QED BY <2>1 DEF Batch
<1>3. PICK i \in DOMAIN u.rows :
         row = [number |-> i, cells |-> u.rows[i], valid |-> ValidRow(u.kind, u.rows, i, seen, found)]
  BY DEF ValidateRows
<1>4. PICK k \in DOMAIN u.rows :
         other = [number |-> k, cells |-> u.rows[k], valid |-> ValidRow(u.kind, u.rows, k, seen, found)]
  BY DEF ValidateRows
<1>5. /\ row.cells = u.rows[i] /\ ValidRow(u.kind, u.rows, i, seen, found)
      /\ other.cells = u.rows[k] /\ ValidRow(u.kind, u.rows, k, seen, found)
  BY <1>2, <1>3, <1>4, Zenon
<1>6. i # k
  BY <1>2, <1>3, <1>4
<1>7. i \in Nat /\ k \in Nat
  BY ImportAssumption
<1>8. i < k \/ k < i
  BY <1>6, <1>7
<1>9. QED BY <1>1, <1>2, <1>5, <1>8

(* A step that leaves what is stored, and the calls that store and copy.    *)
LEMMA RowsStay ==
    ASSUME RowsInv, UNCHANGED importVars, HasDomain(todo, Calls)',
           \A d \in Calls : pc'[d] \in {"storing", "copying"} =>
              pc'[d] = pc[d] /\ at'[d] = at[d] /\ todo'[d] = todo[d] /\ made'[d] = made[d]
    PROVE  RowsInv'
<1>1. /\ \A j \in Jobs : status[j] = "absent" => stored[j] = {}
      /\ HasDomain(stored, Jobs)
      /\ \A c, d \in Calls : c # d /\ pc[c] = "storing" /\ pc[d] = "storing" => at[c] # at[d]
      /\ \A j \in Jobs : Batch(kind[j], stored[j])
      /\ \A c \in Calls : pc[c] = "storing" => Batch(kind[at[c]], stored[at[c]] \cup todo[c])
      /\ \A c \in Calls : pc[c] = "copying" =>
            /\ \A r \in todo[c] : AcceptedIn(stored[at[c]], r.number, r.cells)
            /\ \A e \in made[c] : AcceptedIn(stored[at[c]], e.number, e.cells)
      /\ \A e \in landed : AcceptedIn(stored[e.job], e.number, e.cells)
  BY DEF RowsInv
<1>2. UNCHANGED <<kind, status, stored, landed>>
  BY DEF importVars
<1>3. \A c, d \in Calls : c # d /\ pc'[c] = "storing" /\ pc'[d] = "storing" => at'[c] # at'[d]
  BY <1>1
<1>4. \A c \in Calls : pc'[c] = "storing" => Batch(kind'[at'[c]], stored'[at'[c]] \cup todo'[c])
  BY <1>1, <1>2
<1>5. \A c \in Calls : pc'[c] = "copying" =>
            /\ \A r \in todo'[c] : AcceptedIn(stored'[at'[c]], r.number, r.cells)
            /\ \A e \in made'[c] : AcceptedIn(stored'[at'[c]], e.number, e.cells)
  BY <1>1, <1>2
<1>6. QED BY <1>1, <1>2, <1>3, <1>4, <1>5 DEF RowsInv, HasDomain

(* A call that stores, decides or copies does so untouched. *)
ImportsUntouched ==
    /\ UNCHANGED importVars
    /\ HasDomain(todo, Calls)'
    /\ \A d \in Calls : pc'[d] \in {"storing", "deciding", "copying"} =>
          pc'[d] = pc[d] /\ at'[d] = at[d] /\ todo'[d] = todo[d] /\ made'[d] = made[d]

(* The call c ends or goes on; it neither stores nor copies then. *)
LEMMA CallAside ==
    ASSUME RowsInv, AccountInv, UNCHANGED importVars, NEW c \in Calls,
           \/ Idle(c)
           \/ \E e : Next1(c, e)
           \/ UNCHANGED copyVars /\ (UNCHANGED pc \/ \E l \in Pc \ Copying : Goto(c, l))
    PROVE  ImportsUntouched
<1> USE DEF HasDomain, Copying, ImportsUntouched
<1>1. HasDomain(todo, Calls) /\ HasDomain(made, Calls) /\ HasDomain(at, Calls) /\ HasDomain(pc, Calls)
  BY DEF RowsInv, AccountInv, AccountTypes
<1>2. CASE Idle(c)
  BY <1>1, <1>2 DEF Idle
<1>3. CASE \E e : Next1(c, e)
  <2>1. PICK e : Next1(c, e)
    BY <1>3
  <2>2. QED BY <1>1, <2>1 DEF Next1
<1>4. CASE UNCHANGED copyVars /\ (UNCHANGED pc \/ \E l \in Pc \ Copying : Goto(c, l))
  BY <1>1, <1>4 DEF Goto, copyVars
<1>5. QED BY <1>2, <1>3, <1>4

(* What is no step of an upload, an approval or a rejection. *)
LEMMA StepsAside ==
    ASSUME RowsInv, AccountInv, [Next]_vars
    PROVE  ImportStep \/ ImportsUntouched
<1>1. ASSUME NEW c \in Calls,
             \/ LookUp(c) \/ CreateIdentity(c) \/ LinkAccount(c) \/ DeleteIdentity(c)
             \/ SendPassword(c) \/ SetPassword(c) \/ ClaimLink(c)
             \/ SpendProof(c) \/ RegisterIdentity(c) \/ RegisterProfile(c) \/ CompleteProfile(c)
             \/ AccountCallFails(c)
      PROVE  ImportsUntouched
  <2>1. UNCHANGED importVars
    BY <1>1 DEF LookUp, CreateIdentity, LinkAccount, DeleteIdentity, SendPassword, SetPassword,
                ClaimLink, SpendProof, RegisterIdentity, RegisterProfile, CompleteProfile,
                AccountCallFails
  <2>2. \/ Idle(c)
        \/ \E e : Next1(c, e)
        \/ UNCHANGED copyVars /\ \E l \in {"creating", "linking", "compensating", "setting",
                                           "claiming", "registering", "profiling"} : Goto(c, l)
    <3>1. CASE LookUp(c) \/ CreateIdentity(c) \/ LinkAccount(c) \/ DeleteIdentity(c)
      BY <3>1 DEF LookUp, CreateIdentity, LinkAccount, DeleteIdentity, Done
    <3>2. CASE SendPassword(c) \/ SetPassword(c) \/ ClaimLink(c)
      BY <3>2 DEF SendPassword, SetPassword, ClaimLink, Done
    <3>3. CASE \/ SpendProof(c) \/ RegisterIdentity(c) \/ RegisterProfile(c) \/ CompleteProfile(c)
               \/ AccountCallFails(c)
      BY <3>3 DEF SpendProof, RegisterIdentity, RegisterProfile, CompleteProfile,
                  AccountCallFails, Done
    <3>4. QED BY <1>1, <3>1, <3>2, <3>3
  <2>3. {"creating", "linking", "compensating", "setting", "claiming", "registering", "profiling"}
           \subseteq Pc \ Copying
    BY DEF Pc, Copying
  <2>4. QED BY <2>1, <2>2, <2>3, CallAside
<1>2. ASSUME NEW c \in Calls, NEW p \in Mobiles,
             RequestCredentials(c, p) \/ CheckProof(c, p) \/ ReadOwnLink(c, p)
      PROVE  ImportsUntouched
  <2>1. /\ UNCHANGED <<importVars, copyVars>>
        /\ \E l \in {"sending", "proved", "completing"} : Goto(c, l)
    BY <1>2 DEF RequestCredentials, CheckProof, ReadOwnLink
  <2>2. {"sending", "proved", "completing"} \subseteq Pc \ Copying
    BY DEF Pc, Copying
  <2>3. QED BY <2>1, <2>2, CallAside
<1>3. ASSUME UNCHANGED <<importVars, pc, copyVars>> PROVE ImportsUntouched
  BY <1>3 DEF RowsInv, copyVars, HasDomain, ImportsUntouched
<1>4. ASSUME NEW p \in Mobiles, CooldownEnds(p) \/ VerifyRegistrationOtp(p) \/ ProofExpires(p)
      PROVE  ImportsUntouched
  <2>1. UNCHANGED <<importVars, pc, copyVars>>
    BY <1>4 DEF CooldownEnds, VerifyRegistrationOtp, ProofExpires
  <2>2. QED BY <1>3, <2>1
<1>5. CASE Restart
  BY <1>5 DEF Restart, HasDomain, ImportsUntouched
<1>6. CASE UNCHANGED vars
  BY <1>3, <1>6 DEF vars
<1>7. CASE ProvisioningStep \/ CredentialsStep \/ RegistrationStep \/ \E c \in Calls : AccountCallFails(c)
  BY <1>1, <1>2, <1>4, <1>7 DEF ProvisioningStep, CredentialsStep, RegistrationStep
<1>8. QED BY <1>5, <1>6, <1>7 DEF Next

LEMMA UploadRows ==
    ASSUME RowsInv, AccountInv, NEW c \in Calls, NEW j \in Jobs, UploadImport(c, j, Contacts)
    PROVE  RowsInv'
<1>1. PICK u \in Uploads, seen \in {Contacts, {}}, found \in {Requests, {}} :
         /\ kind' = [kind EXCEPT ![j] = u.kind]
         /\ todo' = [todo EXCEPT ![c] = ValidateRows(u.kind, u.rows, seen, found)]
  BY DEF UploadImport
<1>2. /\ pc[c] = "idle" /\ status[j] = "absent" /\ UNCHANGED <<stored, landed, made>>
      /\ status' = [status EXCEPT ![j] = "pending_review"]
      /\ at' = [at EXCEPT ![c] = j] /\ pc' = [pc EXCEPT ![c] = "storing"]
  BY DEF UploadImport, Goto
<1>3. /\ AccountTypes /\ JobsOfEntries
      /\ HasDomain(todo, Calls) /\ HasDomain(stored, Jobs) /\ HasDomain(kind, Jobs)
      /\ pc \in [Calls -> Pc] /\ at \in [Calls -> Jobs \cup {Nothing}]
      /\ stored[j] = {}
  BY <1>2 DEF AccountInv, AccountTypes, RowsInv
<1>4. /\ \A d \in Calls \ {c} : pc'[d] = pc[d] /\ at'[d] = at[d] /\ todo'[d] = todo[d]
      /\ pc'[c] = "storing" /\ at'[c] = j /\ todo'[c] = ValidateRows(u.kind, u.rows, seen, found)
      /\ \A i \in Jobs \ {j} : kind'[i] = kind[i] /\ status'[i] = status[i]
      /\ kind'[j] = u.kind /\ status'[j] # "absent"
      /\ HasDomain(todo, Calls)' /\ HasDomain(stored, Jobs)'
  BY <1>1, <1>2, <1>3 DEF HasDomain, AccountTypes
<1>5. \A d \in Calls \ {c} : pc[d] = "storing" => at[d] # j /\ at[d] \in Jobs
  BY <1>2, <1>3 DEF JobsOfEntries
<1>6. \A i \in Jobs : status'[i] = "absent" => stored'[i] = {}
  BY <1>2, <1>4 DEF RowsInv
<1>7. \A d, e \in Calls : d # e /\ pc'[d] = "storing" /\ pc'[e] = "storing" => at'[d] # at'[e]
  BY <1>4, <1>5 DEF RowsInv
<1>8. \A i \in Jobs : Batch(kind'[i], stored'[i])
  <2>1. Batch(kind'[j], stored'[j])
    BY <1>2, <1>3 DEF Batch
  <2>2. QED BY <1>2, <1>4, <2>1 DEF RowsInv
<1>9. \A d \in Calls : pc'[d] = "storing" => Batch(kind'[at'[d]], stored'[at'[d]] \cup todo'[d])
  <2>1. stored'[j] \cup todo'[c] = ValidateRows(u.kind, u.rows, seen, found)
    BY <1>2, <1>3, <1>4
  <2>2. Batch(u.kind, ValidateRows(u.kind, u.rows, seen, found))
    BY ValidRowsDiffer
  <2>3. Batch(kind'[j], stored'[j] \cup todo'[c])
    <3>1. kind'[j] = u.kind
      BY <1>4
    <3>2. QED BY <2>1, <2>2, <3>1
  <2>4. ASSUME NEW d \in Calls, d # c, pc'[d] = "storing"
        PROVE  Batch(kind'[at'[d]], stored'[at'[d]] \cup todo'[d])
    <3>1. /\ at'[d] = at[d] /\ at[d] # j /\ kind'[at[d]] = kind[at[d]]
          /\ stored' = stored /\ todo'[d] = todo[d]
      BY <1>2, <1>4, <1>5, <2>4
    <3>2. Batch(kind[at[d]], stored[at[d]] \cup todo[d])
      BY <1>4, <2>4 DEF RowsInv
    <3>3. QED BY <3>1, <3>2
  <2>5. at'[c] = j
    BY <1>4
  <2>6. QED BY <2>3, <2>4, <2>5
<1>10. \A d \in Calls : pc'[d] = "copying" =>
          /\ \A r \in todo'[d] : AcceptedIn(stored'[at'[d]], r.number, r.cells)
          /\ \A e \in made'[d] : AcceptedIn(stored'[at'[d]], e.number, e.cells)
  BY <1>2, <1>4 DEF RowsInv
<1>11. \A e \in landed' : AcceptedIn(stored'[e.job], e.number, e.cells)
  BY <1>2 DEF RowsInv
<1>12. QED BY <1>4, <1>6, <1>7, <1>8, <1>9, <1>10, <1>11 DEF RowsInv

LEMMA StoreRows ==
    ASSUME RowsInv, AccountInv, NEW c \in Calls, StoreRow(c)
    PROVE  RowsInv'
<1>1. PICK row \in todo[c] :
         /\ stored' = [stored EXCEPT ![at[c]] = @ \cup {row}]
         /\ \/ Idle(c)
            \/ todo' = [todo EXCEPT ![c] = @ \ {row}] /\ UNCHANGED <<at, made, pc>>
  BY Zenon DEF StoreRow, FirstRows
<1>2. pc[c] = "storing" /\ UNCHANGED <<kind, status, landed>>
  BY DEF StoreRow
<1>3. /\ AccountTypes /\ JobsOfEntries
      /\ HasDomain(todo, Calls) /\ HasDomain(stored, Jobs) /\ HasDomain(made, Calls)
      /\ pc \in [Calls -> Pc] /\ at \in [Calls -> Jobs \cup {Nothing}]
      /\ at[c] \in Jobs /\ status[at[c]] # "absent"
  BY <1>2 DEF AccountInv, AccountTypes, JobsOfEntries, RowsInv
<1>4. /\ \A j \in Jobs \ {at[c]} : stored'[j] = stored[j]
      /\ stored'[at[c]] = stored[at[c]] \cup {row}
      /\ HasDomain(stored, Jobs)'
  BY <1>1, <1>3 DEF HasDomain
<1>5. /\ \A d \in Calls \ {c} : /\ pc'[d] = pc[d] /\ at'[d] = at[d]
                                /\ todo'[d] = todo[d] /\ made'[d] = made[d]
      /\ pc'[c] = "idle" \/ (pc'[c] = "storing" /\ at'[c] = at[c] /\ todo'[c] \subseteq todo[c])
      /\ HasDomain(todo, Calls)'
  BY <1>1, <1>2, <1>3 DEF HasDomain, Idle
<1>6. ASSUME NEW j \in Jobs, NEW n, NEW x, AcceptedIn(stored[j], n, x)
      PROVE  AcceptedIn(stored'[j], n, x)
  BY <1>4, <1>6 DEF AcceptedIn
<1>7. Batch(kind[at[c]], stored[at[c]] \cup todo[c])
  BY <1>2 DEF RowsInv
<1>8. \A j \in Jobs : Batch(kind'[j], stored'[j])
  <2>1. Batch(kind[at[c]], stored[at[c]] \cup {row})
    BY <1>7 DEF Batch
  <2>2. QED BY <1>2, <1>4, <2>1 DEF RowsInv
<1>9. ASSUME NEW d \in Calls, pc'[d] = "storing"
      PROVE  Batch(kind'[at'[d]], stored'[at'[d]] \cup todo'[d])
  <2>1. CASE d = c
    <3>1. stored'[at[c]] \cup todo'[c] \subseteq stored[at[c]] \cup todo[c]
      BY <1>1, <1>4, <1>5, <1>9, <2>1
    <3>2. Batch(kind[at[c]], stored'[at[c]] \cup todo'[c])
      BY <1>7, <3>1 DEF Batch
    <3>3. QED BY <1>2, <1>5, <1>9, <2>1, <3>2
  <2>2. CASE d # c
    <3>1. at[d] # at[c] /\ at[d] \in Jobs /\ Batch(kind[at[d]], stored[at[d]] \cup todo[d])
      BY <1>2, <1>3, <1>5, <1>9, <2>2 DEF RowsInv, JobsOfEntries
    <3>2. QED BY <1>2, <1>4, <1>5, <2>2, <3>1
  <2>3. QED BY <2>1, <2>2
<1>10. ASSUME NEW d \in Calls, pc'[d] = "copying"
       PROVE  /\ \A r \in todo'[d] : AcceptedIn(stored'[at'[d]], r.number, r.cells)
              /\ \A e \in made'[d] : AcceptedIn(stored'[at'[d]], e.number, e.cells)
  <2>1. d # c /\ pc[d] = "copying" /\ at[d] \in Jobs
    BY <1>3, <1>5, <1>10 DEF JobsOfEntries
  <2>2. QED BY <1>5, <1>6, <2>1 DEF RowsInv
<1>11. \A e \in landed' : AcceptedIn(stored'[e.job], e.number, e.cells)
  BY <1>2, <1>3, <1>6 DEF RowsInv, JobsOfEntries
<1>12. \A d, e \in Calls : d # e /\ pc'[d] = "storing" /\ pc'[e] = "storing" => at'[d] # at'[e]
  BY <1>5, <1>2 DEF RowsInv
<1>13. \A i \in Jobs : status'[i] = "absent" => stored'[i] = {}
  BY <1>2, <1>3, <1>4 DEF RowsInv
<1>14. QED BY <1>4, <1>5, <1>8, <1>9, <1>10, <1>11, <1>12, <1>13 DEF RowsInv

LEMMA ApproveRows ==
    ASSUME RowsInv, AccountInv, NEW c \in Calls,
           ReadRows(c) \/ CopyRow(c, Contacts) \/ CommitImport(c)
    PROVE  RowsInv'
<1>1. /\ AccountTypes /\ JobsOfEntries
      /\ HasDomain(todo, Calls) /\ HasDomain(stored, Jobs) /\ HasDomain(made, Calls)
      /\ pc \in [Calls -> Pc] /\ at \in [Calls -> Jobs \cup {Nothing}]
      /\ at[c] \in Jobs /\ status[at[c]] # "absent" /\ pc[c] \in {"deciding", "copying"}
      /\ pc[c] = "deciding" => made[c] = {}
  BY DEF AccountInv, AccountTypes, JobsOfEntries, RowsInv, ReadRows, CopyRow, CommitImport
<1>2. UNCHANGED <<kind, stored>>
  BY DEF ReadRows, CopyRow, CommitImport, importVars
<1>3. /\ pc' = [pc EXCEPT ![c] = pc'[c]] /\ todo' = [todo EXCEPT ![c] = todo'[c]]
      /\ at' = [at EXCEPT ![c] = at'[c]] /\ made' = [made EXCEPT ![c] = made'[c]]
      /\ pc'[c] # "storing"
      /\ pc'[c] = "copying" =>
            /\ at'[c] = at[c]
            /\ \A r \in todo'[c] : AcceptedIn(stored[at[c]], r.number, r.cells)
            /\ \A e \in made'[c] : AcceptedIn(stored[at[c]], e.number, e.cells)
      /\ \A j \in Jobs : status'[j] = status[j] \/ (j = at[c] /\ status'[j] = "imported")
      /\ \A e \in landed' : e \in landed \/ (pc[c] = "copying" /\ e \in made[c])
  <2> USE DEF HasDomain
  <2>1. CASE ReadRows(c)
    <3>1. /\ UNCHANGED importVars /\ pc[c] = "deciding"
          /\ \/ Idle(c)
             \/ /\ todo' = [todo EXCEPT ![c] = {row \in stored[at[c]] : row.valid}]
                /\ pc' = [pc EXCEPT ![c] = "copying"] /\ UNCHANGED <<at, made>>
      BY <2>1, Zenon DEF ReadRows, Goto
    <3>2. CASE Idle(c)
      BY <1>1, <3>1, <3>2 DEF Idle, importVars
    <3>3. CASE /\ todo' = [todo EXCEPT ![c] = {row \in stored[at[c]] : row.valid}]
               /\ pc' = [pc EXCEPT ![c] = "copying"] /\ UNCHANGED <<at, made>>
      <4>1. \A r \in todo'[c] : AcceptedIn(stored[at[c]], r.number, r.cells)
        BY <1>1, <3>3 DEF AcceptedIn
      <4>2. QED BY <1>1, <3>1, <3>3, <4>1 DEF importVars
    <3>4. QED BY <3>1, <3>2, <3>3
  <2>2. CASE CopyRow(c, Contacts)
    <3>1. PICK row \in todo[c] :
            /\ \E new \in Inserted(c, row, Contacts \cup ContactsOf(made[c])) :
                  made' = [made EXCEPT ![c] = @ \cup new]
            /\ todo' = [todo EXCEPT ![c] = @ \ {row}]
      BY <2>2 DEF CopyRow, FirstRows
    <3>2. PICK new \in Inserted(c, row, Contacts \cup ContactsOf(made[c])) :
            made' = [made EXCEPT ![c] = @ \cup new]
      BY <3>1
    <3>3. \A e \in new : e.number = row.number /\ e.cells = row.cells
      BY <3>2 DEF Inserted, TaxpayerEntries, ActivityEntries, DueEntries, Entry
    <3>4. pc[c] = "copying" /\ UNCHANGED <<status, landed, at, pc>>
      BY <2>2 DEF CopyRow, importVars
    <3>5. /\ \A r \in todo[c] : AcceptedIn(stored[at[c]], r.number, r.cells)
          /\ \A e \in made[c] : AcceptedIn(stored[at[c]], e.number, e.cells)
      BY <3>4 DEF RowsInv
    <3>6. AcceptedIn(stored[at[c]], row.number, row.cells)
      BY <3>1, <3>5
    <3>7. \A e \in made'[c] : AcceptedIn(stored[at[c]], e.number, e.cells)
      BY <1>1, <3>2, <3>3, <3>5, <3>6
    <3>8. \A r \in todo'[c] : AcceptedIn(stored[at[c]], r.number, r.cells)
      BY <1>1, <3>1, <3>5
    <3>9. QED BY <1>1, <3>1, <3>2, <3>4, <3>7, <3>8
  <2>3. CASE CommitImport(c)
    <3>1. /\ pc[c] = "copying" /\ landed' = landed \cup made[c]
          /\ status' = [status EXCEPT ![at[c]] = "imported"]
          /\ \/ Idle(c)
             \/ pc' = [pc EXCEPT ![c] = "provisioning"] /\ UNCHANGED <<at, todo, made>>
      BY <2>3 DEF CommitImport, Goto, copyVars
    <3>2. \A j \in Jobs : status'[j] = status[j] \/ (j = at[c] /\ status'[j] = "imported")
      BY <1>1, <3>1 DEF AccountTypes
    <3>3. CASE Idle(c)
      BY <1>1, <3>1, <3>2, <3>3 DEF Idle
    <3>4. CASE pc' = [pc EXCEPT ![c] = "provisioning"] /\ UNCHANGED <<at, todo, made>>
      BY <1>1, <3>1, <3>2, <3>4
    <3>5. QED BY <3>1, <3>3, <3>4
  <2>4. QED BY <2>1, <2>2, <2>3
<1>4. \A d \in Calls \ {c} : /\ pc'[d] = pc[d] /\ at'[d] = at[d]
                             /\ todo'[d] = todo[d] /\ made'[d] = made[d]
  BY <1>1, <1>3 DEF HasDomain
<1>5. HasDomain(todo, Calls)' /\ HasDomain(stored, Jobs)'
  BY <1>1, <1>2, <1>3 DEF HasDomain
<1>6. \A d, e \in Calls : d # e /\ pc'[d] = "storing" /\ pc'[e] = "storing" => at'[d] # at'[e]
  BY <1>3, <1>4 DEF RowsInv
<1>7. \A d \in Calls : pc'[d] = "storing" => Batch(kind'[at'[d]], stored'[at'[d]] \cup todo'[d])
  BY <1>2, <1>3, <1>4 DEF RowsInv
<1>8. \A d \in Calls : pc'[d] = "copying" =>
          /\ \A r \in todo'[d] : AcceptedIn(stored'[at'[d]], r.number, r.cells)
          /\ \A e \in made'[d] : AcceptedIn(stored'[at'[d]], e.number, e.cells)
  BY <1>2, <1>3, <1>4 DEF RowsInv
<1>9. \A e \in landed' : AcceptedIn(stored'[e.job], e.number, e.cells)
  BY <1>1, <1>2, <1>3 DEF RowsInv, JobsOfEntries
<1>10. \A i \in Jobs : status'[i] = "absent" => stored'[i] = {}
  BY <1>1, <1>2, <1>3 DEF RowsInv
<1>11. \A j \in Jobs : Batch(kind'[j], stored'[j])
  BY <1>2 DEF RowsInv
<1>12. QED BY <1>5, <1>6, <1>7, <1>8, <1>9, <1>10, <1>11 DEF RowsInv

LEMMA ReadJobRows ==
    ASSUME RowsInv, AccountInv, NEW c \in Calls, NEW j \in Jobs, ReadJob(c, j)
    PROVE  RowsInv'
<1>1. /\ UNCHANGED <<importVars, todo, made>> /\ pc' = [pc EXCEPT ![c] = "deciding"]
      /\ at' = [at EXCEPT ![c] = j]
  BY DEF ReadJob, Goto
<1>2. pc \in [Calls -> Pc] /\ at \in [Calls -> Jobs \cup {Nothing}] /\ HasDomain(todo, Calls)
  BY DEF AccountInv, AccountTypes, RowsInv
<1>3. QED BY <1>1, <1>2, RowsStay DEF HasDomain

LEMMA RowsStep == RowsInv /\ AccountInv /\ [Next]_vars => RowsInv'
<1> SUFFICES ASSUME RowsInv, AccountInv, [Next]_vars PROVE RowsInv'
  OBVIOUS
<1>1. CASE ImportStep
  <2>1. ASSUME NEW c \in Calls, ImportCallFails(c) PROVE RowsInv'
    BY <2>1, CallAside, RowsStay DEF ImportCallFails, ImportsUntouched
  <2>2. ASSUME NEW j \in Jobs, RejectImport(j) PROVE RowsInv'
    <3>1. /\ status[j] = "pending_review" /\ status' = [status EXCEPT ![j] = "rejected"]
          /\ UNCHANGED <<kind, stored, landed, pc, at, todo, made>>
      BY <2>2 DEF RejectImport, copyVars
    <3>2. \A i \in Jobs : status'[i] = "absent" => status[i] = "absent"
      BY <3>1 DEF AccountInv, AccountTypes
    <3>3. QED BY <3>1, <3>2 DEF RowsInv, HasDomain
  <2>3. QED BY <1>1, <2>1, <2>2, UploadRows, StoreRows, ApproveRows, ReadJobRows DEF ImportStep
<1>2. CASE ImportsUntouched
  BY <1>2, RowsStay DEF ImportsUntouched
<1>3. QED BY <1>1, <1>2, StepsAside

THEOREM RowsInvariant == Spec => []RowsInv
<1>1. Init => RowsInv
  BY DEF Init, ImportInit, RowsInv, HasDomain, Batch
<1>2. QED BY <1>1, RowsStep, AccountsInvariant, PTL DEF Spec

(* Of any file, and however numbers are spelt in it, no two accepted rows   *)
(* of taxpayers or activities that validateRows shows to reviewers have the *)
(* same phone number, nor the same tax number.                              *)
THEOREM AcceptedRowsAreDifferent == Spec => []AcceptedRowsDiffer
<1>1. RowsInv => AcceptedRowsDiffer
  BY DEF RowsInv, AcceptedRowsDiffer, Batch, Apart
<1>2. QED BY <1>1, RowsInvariant, PTL

(* However uploads, approvals and rejections overlap and fail, only the     *)
(* accepted rows of jobs that are 'imported' reach the registry.            *)
THEOREM OnlyReviewedRows == Spec => []OnlyReviewedRowsLand
<1>1. RowsInv /\ AccountInv => OnlyReviewedRowsLand
  BY DEF RowsInv, AccountInv, JobsOfEntries, OnlyReviewedRowsLand, AcceptedIn
<1>2. QED BY <1>1, RowsInvariant, AccountsInvariant, PTL

-----------------------------------------------------------------------------
(***************************************************************************)
(* Rows land once, unless two approvals of one job overlap.  The rows of a *)
(* job have different numbers; an approval copies each row it has read     *)
(* once; and nothing of its job has landed before it commits, which is     *)
(* what another approval of the same job would spoil.                      *)
(***************************************************************************)
Numbered(rows) == \A row, other \in rows : row.number = other.number => row = other

CopiesOnce(c) ==
    /\ todo[c] \subseteq stored[at[c]]
    /\ Numbered(made[c])
    /\ \A e \in made[c], row \in todo[c] : e.number # row.number

OnceInv ==
    /\ \A j \in Jobs : Numbered(stored[j])
    /\ \A c \in Calls : pc[c] = "storing" => Numbered(stored[at[c]] \cup todo[c])
    /\ \A c \in Calls : pc[c] = "copying" => CopiesOnce(c)
    /\ \A c \in Calls : pc[c] \in {"deciding", "copying"} =>
          \A e \in landed : e.job # at[c]
    /\ RowsLandOnce

(* An approval inserts nothing for a row, or one thing with its number. *)
LEMMA InsertedOnce ==
    ASSUME NEW c, NEW row, NEW contacts, NEW new \in Inserted(c, row, contacts)
    PROVE  (\A e \in new : e.number = row.number) /\ Numbered(new)
  BY DEF Inserted, TaxpayerEntries, ActivityEntries, DueEntries, Entry, Numbered

LEMMA UploadOnce ==
    ASSUME OnceInv, RowsInv, AccountInv, NEW c \in Calls, NEW j \in Jobs,
           UploadImport(c, j, Contacts)
    PROVE  OnceInv'
<1>1. PICK u \in Uploads, seen \in {Contacts, {}}, found \in {Requests, {}} :
         todo' = [todo EXCEPT ![c] = ValidateRows(u.kind, u.rows, seen, found)]
  BY DEF UploadImport
<1>2. /\ status[j] = "absent" /\ UNCHANGED <<stored, landed, made>>
      /\ at' = [at EXCEPT ![c] = j] /\ pc' = [pc EXCEPT ![c] = "storing"]
  BY DEF UploadImport, Goto
<1>3. /\ HasDomain(todo, Calls)
      /\ pc \in [Calls -> Pc] /\ at \in [Calls -> Jobs \cup {Nothing}]
      /\ stored[j] = {}
  BY <1>2 DEF AccountInv, AccountTypes, RowsInv
<1>4. /\ \A d \in Calls \ {c} : pc'[d] = pc[d] /\ at'[d] = at[d] /\ todo'[d] = todo[d]
      /\ pc'[c] = "storing" /\ at'[c] = j /\ todo'[c] = ValidateRows(u.kind, u.rows, seen, found)
  BY <1>1, <1>2, <1>3 DEF HasDomain
<1>5. Numbered(ValidateRows(u.kind, u.rows, seen, found))
  BY DEF Numbered, ValidateRows
<1>6. \A d \in Calls : pc'[d] = "storing" => Numbered(stored'[at'[d]] \cup todo'[d])
  <2>1. stored'[at'[c]] \cup todo'[c] = ValidateRows(u.kind, u.rows, seen, found)
    BY <1>2, <1>3, <1>4
  <2>2. QED BY <1>2, <1>4, <1>5, <2>1 DEF OnceInv
<1>7. \A d \in Calls : pc'[d] = "copying" => CopiesOnce(d)'
  BY <1>2, <1>4 DEF OnceInv, CopiesOnce
<1>8. QED BY <1>2, <1>4, <1>6, <1>7 DEF OnceInv, RowsLandOnce

LEMMA StoreOnce ==
    ASSUME OnceInv, RowsInv, AccountInv, NEW c \in Calls, StoreRow(c)
    PROVE  OnceInv'
<1>1. PICK row \in todo[c] :
         /\ stored' = [stored EXCEPT ![at[c]] = @ \cup {row}]
         /\ \/ Idle(c)
            \/ todo' = [todo EXCEPT ![c] = @ \ {row}] /\ UNCHANGED <<at, made, pc>>
  BY Zenon DEF StoreRow, FirstRows
<1>2. pc[c] = "storing" /\ UNCHANGED landed
  BY DEF StoreRow
<1>3. /\ JobsOfEntries
      /\ HasDomain(todo, Calls) /\ HasDomain(stored, Jobs) /\ HasDomain(made, Calls)
      /\ pc \in [Calls -> Pc] /\ at \in [Calls -> Jobs \cup {Nothing}]
      /\ at[c] \in Jobs
  BY <1>2 DEF AccountInv, AccountTypes, JobsOfEntries, RowsInv
<1>4. /\ \A j \in Jobs \ {at[c]} : stored'[j] = stored[j]
      /\ stored'[at[c]] = stored[at[c]] \cup {row}
  BY <1>1, <1>3 DEF HasDomain
<1>5. /\ \A d \in Calls \ {c} : /\ pc'[d] = pc[d] /\ at'[d] = at[d]
                                /\ todo'[d] = todo[d] /\ made'[d] = made[d]
      /\ pc'[c] = "idle" \/ (pc'[c] = "storing" /\ at'[c] = at[c] /\ todo'[c] \subseteq todo[c])
  BY <1>1, <1>2, <1>3 DEF HasDomain, Idle
<1>6. Numbered(stored[at[c]] \cup todo[c])
  BY <1>2 DEF OnceInv
<1>7. \A j \in Jobs : Numbered(stored'[j])
  BY <1>1, <1>4, <1>6 DEF OnceInv, Numbered
<1>8. ASSUME NEW d \in Calls, pc'[d] = "storing"
      PROVE  Numbered(stored'[at'[d]] \cup todo'[d])
  <2>1. CASE d = c
    <3>1. stored'[at'[c]] \cup todo'[c] \subseteq stored[at[c]] \cup todo[c]
      BY <1>1, <1>4, <1>5, <1>8, <2>1
    <3>2. QED BY <1>6, <2>1, <3>1 DEF Numbered
  <2>2. CASE d # c
    <3>1. at[d] # at[c] /\ at[d] \in Jobs /\ pc[d] = "storing"
      BY <1>2, <1>3, <1>5, <1>8, <2>2 DEF RowsInv, JobsOfEntries
    <3>2. QED BY <1>4, <1>5, <2>2, <3>1 DEF OnceInv
  <2>3. QED BY <2>1, <2>2
<1>9. ASSUME NEW d \in Calls, pc'[d] = "copying"
      PROVE  CopiesOnce(d)'
  <2>1. d # c /\ pc[d] = "copying" /\ at[d] \in Jobs /\ CopiesOnce(d)
    BY <1>3, <1>5, <1>9 DEF JobsOfEntries, OnceInv
  <2>2. stored[at[d]] \subseteq stored'[at'[d]]
    BY <1>4, <1>5, <2>1
  <2>3. QED BY <1>5, <2>1, <2>2 DEF CopiesOnce
<1>10. QED BY <1>2, <1>5, <1>7, <1>8, <1>9 DEF OnceInv, RowsLandOnce

(* The call c alone moves, and stores nothing. *)
LEMMA OthersOnce ==
    ASSUME OnceInv, UNCHANGED stored, NEW c \in Calls,
           \A d \in Calls \ {c} : /\ pc'[d] = pc[d] /\ at'[d] = at[d]
                                  /\ todo'[d] = todo[d] /\ made'[d] = made[d],
           pc'[c] # "storing", pc'[c] = "copying" => CopiesOnce(c)',
           \A d \in Calls : pc'[d] \in {"deciding", "copying"} =>
              \A e \in landed' : e.job # at'[d],
           RowsLandOnce'
    PROVE  OnceInv'
<1>1. \A d \in Calls \ {c} : pc'[d] = "copying" => CopiesOnce(d)'
  BY DEF OnceInv, CopiesOnce
<1>2. QED BY <1>1 DEF OnceInv

LEMMA CopyOnce ==
    ASSUME OnceInv, RowsInv, AccountInv, NEW c \in Calls, CopyRow(c, Contacts)
    PROVE  OnceInv'
<1> PICK row \in todo[c] :
         /\ \E new \in Inserted(c, row, Contacts \cup ContactsOf(made[c])) :
               made' = [made EXCEPT ![c] = @ \cup new]
         /\ todo' = [todo EXCEPT ![c] = @ \ {row}]
  BY DEF CopyRow, FirstRows
<1>1. PICK new \in Inserted(c, row, Contacts \cup ContactsOf(made[c])) :
         made' = [made EXCEPT ![c] = @ \cup new]
  OBVIOUS
<1>2. pc[c] = "copying" /\ UNCHANGED <<stored, landed, at, pc>>
  BY DEF CopyRow, importVars
<1>3. HasDomain(todo, Calls) /\ HasDomain(made, Calls) /\ at[c] \in Jobs
  BY <1>2 DEF RowsInv, AccountInv, AccountTypes, JobsOfEntries
<1>4. /\ \A d \in Calls \ {c} : todo'[d] = todo[d] /\ made'[d] = made[d]
      /\ made'[c] = made[c] \cup new /\ todo'[c] = todo[c] \ {row}
  BY <1>1, <1>3 DEF HasDomain
<1>5. CopiesOnce(c) /\ Numbered(stored[at[c]])
  BY <1>2, <1>3 DEF OnceInv
<1>6. (\A e \in new : e.number = row.number) /\ Numbered(new)
  BY InsertedOnce
<1>7. Numbered(made'[c])
  BY <1>4, <1>5, <1>6 DEF CopiesOnce, Numbered
<1>8. \A e \in made'[c], other \in todo'[c] : e.number # other.number
  BY <1>4, <1>5, <1>6 DEF CopiesOnce, Numbered
<1>9. CopiesOnce(c)'
  BY <1>2, <1>4, <1>5, <1>7, <1>8 DEF CopiesOnce
<1>10. RowsLandOnce' /\ \A d \in Calls : pc'[d] \in {"deciding", "copying"} =>
                          \A e \in landed' : e.job # at'[d]
  BY <1>2 DEF OnceInv, RowsLandOnce
<1>11. QED BY <1>2, <1>4, <1>9, <1>10, OthersOnce

(* The one step that needs approvals apart. *)
LEMMA CommitOnce ==
    ASSUME OnceInv, RowsInv, AccountInv, ApprovalsApart, NEW c \in Calls, CommitImport(c)
    PROVE  OnceInv'
<1>1. /\ pc[c] = "copying" /\ landed' = landed \cup made[c] /\ UNCHANGED stored
      /\ \/ Idle(c)
         \/ pc' = [pc EXCEPT ![c] = "provisioning"] /\ UNCHANGED <<at, todo, made>>
  BY DEF CommitImport, Goto, copyVars
<1>2. /\ HasDomain(todo, Calls) /\ HasDomain(made, Calls)
      /\ pc \in [Calls -> Pc] /\ at \in [Calls -> Jobs \cup {Nothing}]
      /\ at[c] \in Jobs /\ \A e \in made[c] : e.job = at[c]
      /\ CopiesOnce(c) /\ \A e \in landed : e.job # at[c]
  BY <1>1 DEF RowsInv, AccountInv, AccountTypes, JobsOfEntries, OnceInv
<1>3. /\ \A d \in Calls \ {c} : /\ pc'[d] = pc[d] /\ at'[d] = at[d]
                                /\ todo'[d] = todo[d] /\ made'[d] = made[d]
      /\ pc'[c] \in {"idle", "provisioning"}
  BY <1>1, <1>2 DEF HasDomain, Idle
<1>4. ASSUME NEW d \in Calls \ {c}, pc[d] \in {"deciding", "copying"}
      PROVE  at[d] # at[c] /\ \A e \in landed : e.job # at[d]
  BY <1>1, <1>2, <1>4 DEF ApprovalsApart, Approves, OnceInv
<1>5. \A d \in Calls : pc'[d] \in {"deciding", "copying"} =>
         \A e \in landed' : e.job # at'[d]
  BY <1>1, <1>2, <1>3, <1>4
<1>6. RowsLandOnce'
  BY <1>1, <1>2 DEF OnceInv, RowsLandOnce, CopiesOnce, Numbered
<1>7. QED BY <1>1, <1>3, <1>5, <1>6, OthersOnce

LEMMA ReadOnce ==
    ASSUME OnceInv, RowsInv, AccountInv, NEW c \in Calls,
           ReadRows(c) \/ \E j \in Jobs : ReadJob(c, j)
    PROVE  OnceInv'
<1>1. /\ HasDomain(todo, Calls) /\ HasDomain(made, Calls)
      /\ pc \in [Calls -> Pc] /\ at \in [Calls -> Jobs \cup {Nothing}]
      /\ pc[c] = "deciding" => made[c] = {}
      /\ JobsOfEntries
  BY DEF RowsInv, AccountInv, AccountTypes, JobsOfEntries
<1>2. UNCHANGED <<stored, landed>>
  BY DEF ReadRows, ReadJob, importVars
<1>3. /\ \A d \in Calls \ {c} : /\ pc'[d] = pc[d] /\ at'[d] = at[d]
                                /\ todo'[d] = todo[d] /\ made'[d] = made[d]
      /\ pc'[c] # "storing"
      /\ pc'[c] = "copying" => CopiesOnce(c)'
      /\ pc'[c] \in {"deciding", "copying"} => \A e \in landed : e.job # at'[c]
  <2>1. CASE ReadRows(c)
    <3>1. /\ pc[c] = "deciding"
          /\ \/ Idle(c)
             \/ /\ todo' = [todo EXCEPT ![c] = {row \in stored[at[c]] : row.valid}]
                /\ pc' = [pc EXCEPT ![c] = "copying"] /\ UNCHANGED <<at, made>>
      BY <2>1, Zenon DEF ReadRows, Goto
    <3>2. \A e \in landed : e.job # at[c]
      BY <3>1 DEF OnceInv
    <3>3. CASE Idle(c)
      BY <1>1, <3>3 DEF Idle, HasDomain
    <3>4. CASE /\ todo' = [todo EXCEPT ![c] = {row \in stored[at[c]] : row.valid}]
               /\ pc' = [pc EXCEPT ![c] = "copying"] /\ UNCHANGED <<at, made>>
      <4>1. todo'[c] \subseteq stored'[at'[c]] /\ made'[c] = {}
        BY <1>1, <1>2, <3>1, <3>4 DEF HasDomain
      <4>2. CopiesOnce(c)'
        BY <4>1 DEF CopiesOnce, Numbered
      <4>3. QED BY <1>1, <3>2, <3>4, <4>2 DEF HasDomain
    <3>5. QED BY <3>1, <3>3, <3>4
  <2>2. ASSUME NEW j \in Jobs, ReadJob(c, j)
        PROVE  /\ \A d \in Calls \ {c} : /\ pc'[d] = pc[d] /\ at'[d] = at[d]
                                         /\ todo'[d] = todo[d] /\ made'[d] = made[d]
               /\ pc'[c] = "deciding" /\ at'[c] = j /\ \A e \in landed : e.job # j
    BY <1>1, <2>2 DEF ReadJob, Goto, JobsOfEntries
  <2>3. QED BY <2>1, <2>2
<1>4. RowsLandOnce'
  BY <1>2 DEF OnceInv, RowsLandOnce
<1>5. \A d \in Calls : pc'[d] \in {"deciding", "copying"} =>
         \A e \in landed' : e.job # at'[d]
  BY <1>2, <1>3 DEF OnceInv
<1>6. QED BY <1>2, <1>3, <1>4, <1>5, OthersOnce

LEMMA UntouchedOnce ==
    ASSUME OnceInv, ImportsUntouched
    PROVE  OnceInv'
<1>1. UNCHANGED <<stored, landed>>
  BY DEF ImportsUntouched, importVars
<1>2. \A d \in Calls : pc'[d] = "storing" => Numbered(stored'[at'[d]] \cup todo'[d])
  BY <1>1 DEF OnceInv, ImportsUntouched
<1>3. \A d \in Calls : pc'[d] = "copying" => CopiesOnce(d)'
  BY <1>1 DEF OnceInv, ImportsUntouched, CopiesOnce
<1>4. \A d \in Calls : pc'[d] \in {"deciding", "copying"} =>
         \A e \in landed' : e.job # at'[d]
  BY <1>1 DEF OnceInv, ImportsUntouched
<1>5. QED BY <1>1, <1>2, <1>3, <1>4 DEF OnceInv, RowsLandOnce

LEMMA OnceStep == OnceInv /\ RowsInv /\ AccountInv /\ ApprovalsApart /\ [Next]_vars => OnceInv'
<1> SUFFICES ASSUME OnceInv, RowsInv, AccountInv, ApprovalsApart, [Next]_vars PROVE OnceInv'
  OBVIOUS
<1>1. CASE ImportStep
  <2>1. ASSUME NEW c \in Calls, ImportCallFails(c) PROVE OnceInv'
    BY <2>1, CallAside, UntouchedOnce DEF ImportCallFails
  <2>2. ASSUME NEW j \in Jobs, RejectImport(j) PROVE OnceInv'
    <3>1. UNCHANGED <<stored, landed, pc, at, todo, made>>
      BY <2>2 DEF RejectImport, copyVars
    <3>2. QED BY <3>1 DEF OnceInv, CopiesOnce, RowsLandOnce
  <2>3. QED BY <1>1, <2>1, <2>2, UploadOnce, StoreOnce, ReadOnce, CopyOnce, CommitOnce DEF ImportStep
<1>2. CASE ImportsUntouched
  BY <1>2, UntouchedOnce
<1>3. QED BY <1>1, <1>2, StepsAside

(* Overlapping approvals of one job are the only way in which a row lands   *)
(* twice: in every execution without them each row lands once, whatever     *)
(* fails and is repeated, and whatever uploads and rejections run beside.   *)
THEOREM OverlapIsTheOnlyCause == Spec => OnlyOverlapsRepeat
<1>1. Init => OnceInv
  BY DEF Init, ImportInit, OnceInv, RowsLandOnce, Numbered
<1>2. OnceInv => RowsLandOnce
  BY DEF OnceInv
<1>3. QED BY <1>1, <1>2, OnceStep, RowsInvariant, AccountsInvariant, PTL
          DEF Spec, OnlyOverlapsRepeat

-----------------------------------------------------------------------------
(***************************************************************************)
(* Types: of what AccountTypes leaves open, the tables of the imports and  *)
(* what calls carry of them, and the links and contacts of the accounts.   *)
(***************************************************************************)
JobTypes ==
    /\ kind \in [Jobs -> Kinds \cup {Nothing}]
    /\ \A j \in Jobs : status[j] # "absent" => kind[j] \in Kinds
    /\ stored \in [Jobs -> SUBSET Rows]
    /\ landed \subseteq Entries

CopyTypes ==
    /\ todo \in [Calls -> SUBSET Rows]
    /\ made \in [Calls -> SUBSET Entries]

LinkTypes ==
    /\ links \subseteq Links
    /\ joined \subseteq [taxpayer : TaxpayerIds, type : {"phone", "tax_number"},
                          value : Spelt(Mobiles) \cup TaxNumbers]
    /\ cooling \subseteq Mobiles /\ spent \subseteq Mobiles

HeldTypes ==
    /\ account \in [Calls -> Links \cup {Nothing}]
    /\ \A c \in Calls : pc[c] \in {"creating", "linking"} => account[c] \in Links

TypesInv == JobTypes /\ CopyTypes /\ LinkTypes /\ HeldTypes

(* Whoever a contact names has an id. *)
LEMMA ContactTypes ==
    ASSUME JobTypes, LinkTypes
    PROVE  /\ \A k \in Contacts : k.taxpayer \in TaxpayerIds
           /\ \A S \in SUBSET Entries : \A k \in ContactsOf(S) : k.taxpayer \in TaxpayerIds
           /\ Known \subseteq TaxpayerIds
<1>1. \A S \in SUBSET Entries : \A k \in ContactsOf(S) : k.taxpayer \in TaxpayerIds
  <2>1. SUFFICES ASSUME NEW S \in SUBSET Entries, NEW k \in ContactsOf(S)
                 PROVE  k.taxpayer \in TaxpayerIds
    OBVIOUS
  <2>2. PICK e \in S : k.taxpayer = e.taxpayer
    BY DEF ContactsOf
  <2>3. QED BY <2>2 DEF Entries
<1>2. \A k \in Before : k.taxpayer \in TaxpayerIds
  BY ImportAssumption DEF TaxpayerIds
<1>3. \A k \in joined : k.taxpayer \in TaxpayerIds
  BY DEF LinkTypes
<1>4. \A k \in Contacts : k.taxpayer \in TaxpayerIds
  BY <1>1, <1>2, <1>3 DEF Contacts, JobTypes
<1>5. Taxpayers(landed) \subseteq TaxpayerIds
  BY DEF JobTypes, Taxpayers, Entries
<1>6. Known \subseteq TaxpayerIds
  BY <1>3, <1>5 DEF Known, TaxpayerIds
<1>7. QED BY <1>1, <1>4, <1>6

(* What an accepted row of a job of the kind k is copied to. *)
LEMMA InsertedTypes ==
    ASSUME NEW c \in Calls, at[c] \in Jobs, kind[at[c]] \in Kinds, NEW row \in Rows,
           kind[at[c]] = "dues" => row.cells.request \in Requests \cup {Nothing},
           NEW contacts, \A k \in contacts : k.taxpayer \in TaxpayerIds,
           NEW new \in Inserted(c, row, contacts)
    PROVE  new \subseteq Entries
<1>1. row.number \in Nat /\ row.cells \in Cells
  BY DEF Rows
<1>2. \A t \in TaxpayerIds, r \in Requests \cup {Nothing} :
        Entry(at[c], row.number, c, t, row.cells, r) \in Entries
  BY <1>1 DEF Entry, Entries
<1>3. Holders(ContactRefs(row.cells), contacts) \subseteq TaxpayerIds
  BY DEF Holders
<1>4. CASE new \in TaxpayerEntries(c, row, contacts)
  <2>1. NewTaxpayer(at[c], row.number, c) \in TaxpayerIds
    BY <1>1 DEF NewTaxpayer, TaxpayerIds
  <2>2. new = {} \/ new = {Entry(at[c], row.number, c, NewTaxpayer(at[c], row.number, c), row.cells, Nothing)}
    BY <1>4, Zenon DEF TaxpayerEntries
  <2>3. QED BY <1>2, <2>1, <2>2
<1>5. CASE new \in ActivityEntries(c, row, contacts)
  <2>1. \/ new = {}
        \/ \E t \in Holders(ContactRefs(row.cells), contacts) :
              new = {Entry(at[c], row.number, c, t, row.cells, Nothing)}
    BY <1>5, Zenon DEF ActivityEntries
  <2>2. QED BY <1>2, <1>3, <2>1
<1>6. CASE kind[at[c]] = "dues" /\ new \in DueEntries(c, row, contacts)
  <2>1. CASE row.cells.request # Nothing
    <3>1. new = {Entry(at[c], row.number, c, Owner[row.cells.request], row.cells, row.cells.request)}
      BY <1>6, <2>1 DEF DueEntries
    <3>2. row.cells.request \in Requests
      BY <1>6, <2>1
    <3>3. Owner[row.cells.request] \in TaxpayerIds
      BY <3>2, ImportAssumption DEF TaxpayerIds
    <3>4. QED BY <1>2, <3>1, <3>2, <3>3
  <2>2. CASE row.cells.request = Nothing
    <3>1. \/ new = {}
          \/ \E t \in Holders(ContactRefs(row.cells), contacts) :
                /\ t \in Registered
                /\ new = {Entry(at[c], row.number, c, t, row.cells, Newest[t])}
      <4>1. SUFFICES ASSUME new # {}
                     PROVE  \E t \in Holders(ContactRefs(row.cells), contacts) :
                               /\ t \in Registered
                               /\ new = {Entry(at[c], row.number, c, t, row.cells, Newest[t])}
        OBVIOUS
      <4>2. PICK t \in Holders(ContactRefs(row.cells), contacts) :
               new = IF (IF t \in Registered THEN Newest[t] ELSE Nothing) = Nothing THEN {}
                     ELSE {Entry(at[c], row.number, c, t, row.cells,
                                 IF t \in Registered THEN Newest[t] ELSE Nothing)}
        BY <1>6, <2>2, <4>1 DEF DueEntries
      <4>3. QED BY <4>1, <4>2
    <3>2. \A t \in Registered : Newest[t] \in Requests \cup {Nothing}
      BY ImportAssumption
    <3>3. QED BY <1>2, <1>3, <3>1, <3>2
  <2>3. QED BY <2>1, <2>2
<1>7. QED BY <1>4, <1>5, <1>6 DEF Inserted, Kinds

(* The rows that are copied were accepted. *)
LEMMA CopiedAreAccepted ==
    ASSUME RowsInv, AccountInv, NEW c \in Calls, pc[c] = "copying", NEW row \in todo[c]
    PROVE  kind[at[c]] = "dues" => row.cells.request \in Requests \cup {Nothing}
<1>1. at[c] \in Jobs /\ Batch(kind[at[c]], stored[at[c]])
      /\ AcceptedIn(stored[at[c]], row.number, row.cells)
  BY DEF AccountInv, JobsOfEntries, RowsInv
<1>2. QED BY <1>1 DEF AcceptedIn, Batch

(* A call that rests, or is done with an entry, keeps the types. *)
LEMMA RestTypes ==
    ASSUME CopyTypes, NEW c \in Calls,
           Idle(c) \/ (\E e : Next1(c, e)) \/ UNCHANGED <<todo, made>>
    PROVE  CopyTypes'
<1>1. CASE Idle(c)
  BY <1>1 DEF Idle, CopyTypes
<1>2. CASE \E e : Next1(c, e)
  <2>1. PICK e : Next1(c, e)
    BY <1>2
  <2>2. todo' = todo /\ made' = [made EXCEPT ![c] = made[c] \ {e}]
    BY <2>1 DEF Next1
  <2>3. QED BY <2>2 DEF CopyTypes
<1>3. CASE UNCHANGED <<todo, made>>
  BY <1>3 DEF CopyTypes
<1>4. QED BY <1>1, <1>2, <1>3

LEMMA ImportTypes ==
    ASSUME TypesInv, RowsInv, AccountInv, ImportStep
    PROVE  TypesInv'
<1>1. /\ JobTypes /\ CopyTypes /\ LinkTypes /\ HeldTypes /\ AccountTypes /\ JobsOfEntries
      /\ status \in [Jobs -> {"absent", "pending_review", "imported", "rejected"}]
  BY DEF TypesInv, AccountInv, AccountTypes
<1>2. LinkTypes' /\ HeldTypes'
  <2>1. UNCHANGED <<links, joined, cooling, spent, account>>
    BY DEF ImportStep, OthersUnchanged, accountVars, messageVars, proofVars, callVars
  <2>2. \/ pc' = pc
        \/ \E c \in Calls, l \in {"idle", "storing", "deciding", "copying", "provisioning"} :
              pc' = [pc EXCEPT ![c] = l]
    BY DEF ImportStep, UploadImport, ReadJob, StoreRow, ReadRows, CopyRow, CommitImport,
           ImportCallFails, RejectImport, Idle, Goto
  <2>3. pc \in [Calls -> Pc]
    BY <1>1 DEF AccountTypes
  <2>4. \A d \in Calls : pc'[d] \in {"creating", "linking"} => pc[d] \in {"creating", "linking"}
    BY <2>2, <2>3
  <2>5. QED BY <1>1, <2>1, <2>4 DEF LinkTypes, HeldTypes
<1>3. ASSUME NEW c \in Calls, NEW j \in Jobs, UploadImport(c, j, Contacts)
      PROVE  JobTypes' /\ CopyTypes'
  <2>1. PICK u \in Uploads, seen \in {Contacts, {}}, found \in {Requests, {}} :
           /\ kind' = [kind EXCEPT ![j] = u.kind]
           /\ todo' = [todo EXCEPT ![c] = ValidateRows(u.kind, u.rows, seen, found)]
    BY <1>3 DEF UploadImport
  <2>2. /\ UNCHANGED <<stored, landed, made>>
        /\ status' = [status EXCEPT ![j] = "pending_review"]
    BY <1>3 DEF UploadImport
  <2>3. ValidateRows(u.kind, u.rows, seen, found) \subseteq Rows
    <3>1. SUFFICES ASSUME NEW i \in DOMAIN u.rows
                   PROVE  [number |-> i, cells |-> u.rows[i],
                           valid |-> ValidRow(u.kind, u.rows, i, seen, found)] \in Rows
      BY DEF ValidateRows
    <3>2. i \in Nat /\ u.rows[i] \in Cells
      BY ImportAssumption DEF Cells
    <3>3. ValidRow(u.kind, u.rows, i, seen, found) \in BOOLEAN
      BY DEF ValidRow
    <3>4. QED BY <3>2, <3>3 DEF Rows
  <2>4. u.kind \in Kinds
    BY ImportAssumption
  <2>5. JobTypes'
    BY <1>1, <2>1, <2>2, <2>4 DEF JobTypes
  <2>6. CopyTypes'
    BY <1>1, <2>1, <2>2, <2>3 DEF CopyTypes
  <2>7. QED BY <2>5, <2>6
<1>4. ASSUME NEW c \in Calls, NEW j \in Jobs, ReadJob(c, j)
      PROVE  JobTypes' /\ CopyTypes'
  BY <1>1, <1>4 DEF ReadJob, importVars, JobTypes, CopyTypes
<1>5. ASSUME NEW c \in Calls, StoreRow(c)
      PROVE  JobTypes' /\ CopyTypes'
  <2>1. PICK row \in todo[c] :
           /\ stored' = [stored EXCEPT ![at[c]] = stored[at[c]] \cup {row}]
           /\ \/ Idle(c)
              \/ todo' = [todo EXCEPT ![c] = todo[c] \ {row}] /\ UNCHANGED made
    BY <1>5, Zenon DEF StoreRow, FirstRows
  <2>2. UNCHANGED <<kind, status, landed>> /\ at[c] \in Jobs /\ row \in Rows
    BY <1>1, <1>5 DEF StoreRow, JobsOfEntries, CopyTypes
  <2>3. JobTypes'
    BY <1>1, <2>1, <2>2 DEF JobTypes
  <2>4. CopyTypes'
    BY <1>1, <2>1, RestTypes DEF CopyTypes
  <2>5. QED BY <2>3, <2>4
<1>6. ASSUME NEW c \in Calls, ReadRows(c)
      PROVE  JobTypes' /\ CopyTypes'
  <2>1. /\ UNCHANGED importVars /\ at[c] \in Jobs
        /\ \/ Idle(c)
           \/ /\ todo' = [todo EXCEPT ![c] = {row \in stored[at[c]] : row.valid}]
              /\ UNCHANGED <<at, made>>
    BY <1>1, <1>6, Zenon DEF ReadRows, JobsOfEntries
  <2>2. JobTypes'
    BY <1>1, <2>1 DEF JobTypes, importVars
  <2>3. {row \in stored[at[c]] : row.valid} \subseteq Rows
    BY <1>1, <2>1 DEF JobTypes
  <2>4. CopyTypes'
    BY <1>1, <2>1, <2>3, RestTypes DEF CopyTypes
  <2>5. QED BY <2>2, <2>4
<1>7. ASSUME NEW c \in Calls, CopyRow(c, Contacts)
      PROVE  JobTypes' /\ CopyTypes'
  <2>1. PICK row \in todo[c], new \in SUBSET Entries :
           /\ made' = [made EXCEPT ![c] = made[c] \cup new]
           /\ todo' = [todo EXCEPT ![c] = todo[c] \ {row}]
    <3>1. PICK row \in todo[c] :
             /\ \E new \in Inserted(c, row, Contacts \cup ContactsOf(made[c])) :
                   made' = [made EXCEPT ![c] = made[c] \cup new]
             /\ todo' = [todo EXCEPT ![c] = todo[c] \ {row}]
      BY <1>7, Zenon DEF CopyRow, FirstRows
    <3>2. pc[c] = "copying" /\ at[c] \in Jobs /\ kind[at[c]] \in Kinds /\ row \in Rows
          /\ made[c] \in SUBSET Entries
      BY <1>1, <1>7, <3>1 DEF CopyRow, JobsOfEntries, JobTypes, CopyTypes
    <3>3. kind[at[c]] = "dues" => row.cells.request \in Requests \cup {Nothing}
      BY <3>1, <3>2, CopiedAreAccepted
    <3>4. \A k \in Contacts \cup ContactsOf(made[c]) : k.taxpayer \in TaxpayerIds
      BY <1>1, <3>2, ContactTypes
    <3>5. PICK new \in Inserted(c, row, Contacts \cup ContactsOf(made[c])) :
             made' = [made EXCEPT ![c] = made[c] \cup new]
      BY <3>1
    <3>6. new \subseteq Entries
      BY <3>2, <3>3, <3>4, <3>5, InsertedTypes
    <3>7. QED BY <3>1, <3>5, <3>6
  <2>2. CopyTypes'
    BY <1>1, <2>1 DEF CopyTypes
  <2>3. JobTypes'
    BY <1>1, <1>7 DEF CopyRow, importVars, JobTypes
  <2>4. QED BY <2>2, <2>3
<1>8. ASSUME NEW c \in Calls, CommitImport(c)
      PROVE  JobTypes' /\ CopyTypes'
  <2>1. /\ landed' = landed \cup made[c] /\ at[c] \in Jobs /\ status[at[c]] # "absent"
        /\ status' = [status EXCEPT ![at[c]] = "imported"]
        /\ UNCHANGED <<kind, stored>>
        /\ Idle(c) \/ UNCHANGED <<todo, made>>
    BY <1>1, <1>8 DEF CommitImport, JobsOfEntries, copyVars
  <2>2. JobTypes'
    BY <1>1, <2>1 DEF JobTypes, CopyTypes
  <2>3. CopyTypes'
    BY <1>1, <2>1, RestTypes
  <2>4. QED BY <2>2, <2>3
<1>9. ASSUME NEW c \in Calls, ImportCallFails(c)
      PROVE  JobTypes' /\ CopyTypes'
  <2>1. UNCHANGED importVars /\ Idle(c)
    BY <1>9 DEF ImportCallFails
  <2>2. JobTypes'
    BY <1>1, <2>1 DEF JobTypes, importVars
  <2>3. CopyTypes'
    BY <1>1, <2>1, RestTypes
  <2>4. QED BY <2>2, <2>3
<1>10. ASSUME NEW j \in Jobs, RejectImport(j)
       PROVE  JobTypes' /\ CopyTypes'
  BY <1>1, <1>10 DEF RejectImport, JobTypes, CopyTypes, copyVars
<1>11. JobTypes' /\ CopyTypes'
  BY <1>3, <1>4, <1>5, <1>6, <1>7, <1>8, <1>9, <1>10 DEF ImportStep
<1>12. QED BY <1>2, <1>11 DEF TypesInv

(* A call that rests, is done with an entry, or goes on with the link it    *)
(* had, keeps the types of what it holds.                                   *)
LEMMA HoldingTypes ==
    ASSUME HeldTypes, pc \in [Calls -> Pc], NEW c \in Calls,
           \/ Done(c)
           \/ \E e : Next1(c, e)
           \/ UNCHANGED account /\ \E l \in Pc :
                 Goto(c, l) /\ (l \in {"creating", "linking"} => pc[c] \in {"creating", "linking"})
    PROVE  HeldTypes'
<1>1. \E l \in Pc : /\ pc' = [pc EXCEPT ![c] = l]
                    /\ \/ account' = account
                       \/ account' = [account EXCEPT ![c] = Nothing]
                    /\ l \in {"creating", "linking"} =>
                          pc[c] \in {"creating", "linking"} /\ account' = account
  <2>1. CASE Done(c)
    BY <2>1 DEF Done, Idle, Pc
  <2>2. CASE \E e : Next1(c, e)
    <3>1. PICK e : Next1(c, e)
      BY <2>2
    <3>2. PICK l \in {"idle", "provisioning"} : pc' = [pc EXCEPT ![c] = l]
      BY <3>1 DEF Next1
    <3>3. QED BY <3>1, <3>2 DEF Next1, Pc
  <2>3. CASE UNCHANGED account /\ \E l \in Pc :
                Goto(c, l) /\ (l \in {"creating", "linking"} => pc[c] \in {"creating", "linking"})
    BY <2>3 DEF Goto
  <2>4. QED BY <2>1, <2>2, <2>3
<1>2. QED BY <1>1 DEF HeldTypes

(* The steps of a call for an account. *)
LEMMA CallTypes ==
    ASSUME TypesInv, AccountInv, NEW c \in Calls,
           \/ LookUp(c) \/ CreateIdentity(c) \/ LinkAccount(c) \/ DeleteIdentity(c)
           \/ SendPassword(c) \/ SetPassword(c) \/ ClaimLink(c)
           \/ SpendProof(c) \/ RegisterIdentity(c) \/ RegisterProfile(c) \/ CompleteProfile(c)
           \/ AccountCallFails(c)
    PROVE  TypesInv'
<1>1. /\ JobTypes /\ CopyTypes /\ LinkTypes /\ HeldTypes /\ AccountTypes /\ CallsKnow
      /\ pc \in [Calls -> Pc]
  BY DEF TypesInv, AccountInv, AccountTypes
<1>2. JobTypes'
  <2>1. UNCHANGED importVars
    BY DEF LookUp, CreateIdentity, LinkAccount, DeleteIdentity, SendPassword, SetPassword,
           ClaimLink, SpendProof, RegisterIdentity, RegisterProfile, CompleteProfile,
           AccountCallFails
  <2>2. QED BY <1>1, <2>1 DEF JobTypes, importVars
<1>3. CopyTypes'
  <2>1. Idle(c) \/ (\E e : Next1(c, e)) \/ UNCHANGED copyVars
    BY DEF LookUp, CreateIdentity, LinkAccount, DeleteIdentity, SendPassword, SetPassword,
           ClaimLink, SpendProof, RegisterIdentity, RegisterProfile, CompleteProfile,
           AccountCallFails, Done
  <2>2. QED BY <1>1, <2>1, RestTypes DEF copyVars
<1>4. HeldTypes'
  <2>1. CASE LookUp(c)
    <3>1. \/ Done(c)
          \/ \E e : Next1(c, e)
          \/ \E e \in made[c] : \E p \in Mobiles :
                /\ account' = [account EXCEPT ![c] = Link(p, e.taxpayer, "imported_pending_claim")]
                /\ Goto(c, "creating")
      <4>1. \A v : NormalizeYemeniPhone(v) # Nothing => NormalizeYemeniPhone(v) \in Mobiles
        BY DEF NormalizeYemeniPhone
      <4>2. QED BY <2>1, <4>1 DEF LookUp
    <3>2. CASE \E e \in made[c] : \E p \in Mobiles :
                  /\ account' = [account EXCEPT ![c] = Link(p, e.taxpayer, "imported_pending_claim")]
                  /\ Goto(c, "creating")
      <4>1. PICK e \in made[c], p \in Mobiles :
                  /\ account' = [account EXCEPT ![c] = Link(p, e.taxpayer, "imported_pending_claim")]
                  /\ pc' = [pc EXCEPT ![c] = "creating"]
        BY <3>2 DEF Goto
      <4>2. e.taxpayer \in TaxpayerIds
        BY <1>1, <4>1 DEF CopyTypes, Entries
      <4>3. PICK l \in Links : account' = [account EXCEPT ![c] = l]
        BY <4>1, <4>2 DEF Link, Links
      <4>4. QED BY <1>1, <4>1, <4>3 DEF HeldTypes
    <3>3. QED BY <1>1, <3>1, <3>2, HoldingTypes
  <2>2. CASE ~LookUp(c)
    <3>1. \/ Done(c)
          \/ \E e : Next1(c, e)
          \/ UNCHANGED account /\ \E l \in Pc :
                Goto(c, l) /\ (l \in {"creating", "linking"} => pc[c] \in {"creating", "linking"})
      <4>1. CASE CreateIdentity(c) \/ LinkAccount(c) \/ DeleteIdentity(c)
        BY <4>1 DEF CreateIdentity, LinkAccount, DeleteIdentity, callVars, Pc
      <4>2. CASE SendPassword(c) \/ SetPassword(c) \/ ClaimLink(c)
        BY <4>2 DEF SendPassword, SetPassword, ClaimLink, callVars, Pc
      <4>3. CASE \/ SpendProof(c) \/ RegisterIdentity(c) \/ RegisterProfile(c) \/ CompleteProfile(c)
                 \/ AccountCallFails(c)
        BY <4>3 DEF SpendProof, RegisterIdentity, RegisterProfile, CompleteProfile,
                    AccountCallFails, callVars, Pc
      <4>4. QED BY <2>2, <4>1, <4>2, <4>3
    <3>2. QED BY <1>1, <3>1, HoldingTypes
  <2>3. QED BY <2>1, <2>2
<1>5. LinkTypes'
  <2>1. CASE LinkAccount(c)
    <3>1. UNCHANGED <<joined, cooling, spent>> /\ (links' = links \/ links' = links \cup {account[c]})
      BY <2>1 DEF LinkAccount, messageVars, proofVars
    <3>2. account[c] \in Links
      BY <1>1, <2>1 DEF LinkAccount, HeldTypes
    <3>3. QED BY <1>1, <3>1, <3>2 DEF LinkTypes
  <2>2. CASE ClaimLink(c)
    <3>1. /\ UNCHANGED <<joined, spent>> /\ cooling' = cooling \cup {phone[c]}
          /\ links' = {IF l.phone = account[c].phone /\ l.taxpayer = account[c].taxpayer
                       THEN [l EXCEPT !.status = "claimed"] ELSE l : l \in links}
      BY <2>2 DEF ClaimLink, proofVars
    <3>2. phone[c] \in Mobiles
      BY <1>1, <2>2 DEF ClaimLink, CallsKnow, Holds
    <3>3. \A l \in Links : [l EXCEPT !.status = "claimed"] \in Links
      BY DEF Links
    <3>4. links' \subseteq Links
      BY <1>1, <3>1, <3>3 DEF LinkTypes
    <3>5. QED BY <1>1, <3>1, <3>2, <3>4 DEF LinkTypes
  <2>3. CASE CompleteProfile(c)
    <3>1. /\ UNCHANGED <<cooling, spent>>
          /\ \/ UNCHANGED <<links, joined>>
             \/ \E t \in Known \cup {<<"own", phone[c]>>}, tax \in TaxNumbers \cup {Nothing},
                    reached \in BOOLEAN :
                   /\ links' = links \cup {Link(phone[c], t, "pending")}
                   /\ joined' = joined \cup NewContacts(t, phone[c], tax, reached)
      BY <2>3, Zenon DEF CompleteProfile, messageVars, proofVars
    <3>2. phone[c] \in Mobiles
      BY <1>1, <2>3 DEF CompleteProfile, CallsKnow, Holds
    <3>3. Known \cup {<<"own", phone[c]>>} \subseteq TaxpayerIds
      BY <1>1, <3>2, ContactTypes DEF TaxpayerIds
    <3>4. \A t \in TaxpayerIds, tax \in TaxNumbers \cup {Nothing}, reached \in BOOLEAN :
             NewContacts(t, phone[c], tax, reached) \subseteq
                [taxpayer : TaxpayerIds, type : {"phone", "tax_number"},
                 value : Spelt(Mobiles) \cup TaxNumbers]
      <4>1. Full(phone[c]) \in Spelt(Mobiles)
        BY <3>2 DEF Full, Spelt
      <4>2. QED BY <4>1 DEF NewContacts
    <3>5. \A t \in TaxpayerIds : Link(phone[c], t, "pending") \in Links
      BY <3>2 DEF Link, Links
    <3>6. QED BY <1>1, <3>1, <3>3, <3>4, <3>5 DEF LinkTypes
  <2>4. CASE SpendProof(c)
    <3>1. UNCHANGED <<links, joined, cooling>> /\ (spent' = spent \/ spent' = spent \cup {phone[c]})
      BY <2>4 DEF SpendProof, accountVars, messageVars
    <3>2. phone[c] \in Mobiles
      BY <1>1, <2>4 DEF SpendProof, CallsKnow, Holds
    <3>3. QED BY <1>1, <3>1, <3>2 DEF LinkTypes
  <2>5. CASE \/ LookUp(c) \/ CreateIdentity(c) \/ DeleteIdentity(c) \/ SendPassword(c)
             \/ SetPassword(c) \/ RegisterIdentity(c) \/ RegisterProfile(c) \/ AccountCallFails(c)
    <3>1. UNCHANGED <<links, joined, cooling, spent>>
      BY <2>5 DEF LookUp, CreateIdentity, DeleteIdentity, SendPassword, SetPassword,
                  RegisterIdentity, RegisterProfile, AccountCallFails,
                  accountVars, messageVars, proofVars
    <3>2. QED BY <1>1, <3>1 DEF LinkTypes
  <2>6. QED BY <2>1, <2>2, <2>3, <2>4, <2>5
<1>6. QED BY <1>2, <1>3, <1>4, <1>5 DEF TypesInv

LEMMA TypesStep == TypesInv /\ RowsInv /\ AccountInv /\ [Next]_vars => TypesInv'
<1> SUFFICES ASSUME TypesInv, RowsInv, AccountInv, [Next]_vars PROVE TypesInv'
  OBVIOUS
<1>1. /\ JobTypes /\ CopyTypes /\ LinkTypes /\ HeldTypes
      /\ pc \in [Calls -> Pc]
  BY DEF TypesInv, AccountInv, AccountTypes
<1>2. ASSUME NEW c \in Calls, NEW p \in Mobiles,
             RequestCredentials(c, p) \/ CheckProof(c, p) \/ ReadOwnLink(c, p)
      PROVE  TypesInv'
  <2>1. UNCHANGED <<importVars, copyVars, accountVars, cooling, spent>>
    BY <1>2 DEF RequestCredentials, CheckProof, ReadOwnLink, messageVars, proofVars
  <2>2. HeldTypes'
    <3>1. PICK l \in {"sending", "proved", "completing"} : Goto(c, l)
      BY <1>2 DEF RequestCredentials, CheckProof, ReadOwnLink
    <3>2. account' = account \/ \E k \in links : account' = [account EXCEPT ![c] = k]
      BY <1>2 DEF RequestCredentials, CheckProof, ReadOwnLink, Pending
    <3>3. QED BY <1>1, <3>1, <3>2 DEF HeldTypes, LinkTypes, Goto
  <2>3. JobTypes' /\ CopyTypes' /\ LinkTypes'
    BY <1>1, <2>1 DEF JobTypes, CopyTypes, LinkTypes, importVars, copyVars, accountVars
  <2>4. QED BY <2>2, <2>3 DEF TypesInv
<1>3. ASSUME NEW p \in Mobiles, CooldownEnds(p) \/ VerifyRegistrationOtp(p) \/ ProofExpires(p)
      PROVE  TypesInv'
  <2>1. /\ UNCHANGED <<importVars, pc, copyVars, accountVars, account>>
        /\ cooling' \subseteq cooling /\ spent' \subseteq spent
    BY <1>3 DEF CooldownEnds, VerifyRegistrationOtp, ProofExpires, callVars, messageVars, proofVars
  <2>2. QED BY <1>1, <2>1 DEF TypesInv, JobTypes, CopyTypes, LinkTypes, HeldTypes,
                              importVars, copyVars, accountVars
<1>4. CASE Restart
  <2>1. /\ UNCHANGED <<importVars, accountVars>> /\ cooling' = {} /\ spent' = {}
        /\ pc' = [c \in Calls |-> "idle"] /\ account' = [c \in Calls |-> Nothing]
        /\ todo' = [c \in Calls |-> {}] /\ made' = [c \in Calls |-> {}]
    BY <1>4 DEF Restart
  <2>2. QED BY <1>1, <2>1 DEF TypesInv, JobTypes, CopyTypes, LinkTypes, HeldTypes,
                              importVars, accountVars
<1>5. CASE UNCHANGED vars
  BY <1>1, <1>5 DEF vars, TypesInv, JobTypes, CopyTypes, LinkTypes, HeldTypes, importVars, copyVars,
                    accountVars, messageVars, proofVars, callVars
<1>6. CASE ProvisioningStep \/ CredentialsStep \/ RegistrationStep \/ \E c \in Calls : AccountCallFails(c)
  BY <1>2, <1>3, <1>6, CallTypes DEF ProvisioningStep, CredentialsStep, RegistrationStep
<1>7. QED BY <1>4, <1>5, <1>6, ImportTypes DEF Next

(* Every column and every variable of a call keeps its type: among others   *)
(* every import, link and contact names a taxpayer that exists.             *)
THEOREM TypeCorrect == Spec => []TypeOK
<1>1. Init => TypesInv
  BY DEF Init, ImportInit, TypesInv, JobTypes, CopyTypes, LinkTypes, HeldTypes
<1>2. Spec => []TypesInv
  BY <1>1, TypesStep, RowsInvariant, AccountsInvariant, PTL DEF Spec
<1>3. TypesInv /\ AccountInv => TypeOK
  BY DEF TypesInv, JobTypes, CopyTypes, LinkTypes, HeldTypes, AccountInv, AccountTypes, Passwords,
         TypeOK, ImportTypeOK
<1>4. QED BY <1>2, <1>3, AccountsInvariant, PTL
=============================================================================

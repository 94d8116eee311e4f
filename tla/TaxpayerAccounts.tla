-------------------------- MODULE TaxpayerAccounts --------------------------
(***************************************************************************)
(* How taxpayers come by an account: the import creates one for each       *)
(* taxpayer it copied, whose password nobody knows, and the taxpayer asks  *)
(* for a password by message; or a person registers with a phone that was  *)
(* proved, and completes a profile.                                        *)
(*                                                                         *)
(* An identity at the identity provider is known by its phone number,      *)
(* which the provider keeps unique.  The provider and the messaging        *)
(* service may fail, or do what they were asked and lose the answer; a     *)
(* COMMIT too.  identity.user_profiles references the provider's table     *)
(* with ON DELETE RESTRICT.                                                *)
(***************************************************************************)
EXTENDS ImportApproval

CONSTANTS
    Secrets,    \* bound: the passwords that may be generated and sent
    TaxNumbers  \* what may be entered as a tax number in a profile

ASSUME SecretAssumption == Secrets \cap {"none", "undisclosed", "chosen"} = {}

VARIABLES
    password,   \* of the identity of a number: "none" while there is no identity
    profiles,   \* identities with a row in identity.user_profiles
    links,      \* rows of registry.taxpayer_account_links
    joined,     \* taxpayers and contacts that completeProfile inserted
    delivered,  \* passwords the messaging service took for a number
    fresh,      \* passwords not generated yet
    cooling,    \* numbers in lastRequestAt, less than three minutes old
    proofs,     \* numbers with an unexpired registration proof
    spent,      \* numbers whose proof is in consumedJtis
    phone,      \* the number a call works for
    secret,     \* the password a call has generated
    account     \* the link a call works on, or is about to make

accountVars == <<password, profiles, links, joined>>
messageVars == <<delivered, fresh, cooling>>
proofVars == <<proofs, spent>>
callVars == <<phone, secret, account>>
vars == <<importVars, pc, copyVars, accountVars, messageVars, proofVars, callVars>>

Pc == {"idle", "storing", "deciding", "copying", "provisioning", "creating", "linking",
       "compensating", "sending", "setting", "claiming", "proved", "registering",
       "profiling", "completing"}

(* verification_status_code of a link is 'imported_pending_claim', 'claimed'
   or, for a profile the taxpayer completed, 'pending'. *)
Link(p, t, s) == [phone |-> p, taxpayer |-> t, status |-> s]

Contacts == Before \cup ContactsOf(landed) \cup joined
Known == Registered \cup Taxpayers(landed) \cup {k.taxpayer : k \in joined}

HasActiveLink(p) == \E l \in links : l.phone = p

(* The call answers, and what it held in its variables is gone. *)
Done(c) ==
    /\ Idle(c)
    /\ phone' = [phone EXCEPT ![c] = Nothing]
    /\ secret' = [secret EXCEPT ![c] = Nothing]
    /\ account' = [account EXCEPT ![c] = Nothing]

Init ==
    /\ ImportInit
    /\ password = [p \in Mobiles |-> "none"]
    /\ profiles = {} /\ links = {} /\ joined = {}
    /\ delivered = [p \in Mobiles |-> {}]
    /\ fresh = Secrets
    /\ cooling = {} /\ proofs = {} /\ spent = {}
    /\ phone = [c \in Calls |-> Nothing]
    /\ secret = [c \in Calls |-> Nothing]
    /\ account = [c \in Calls |-> Nothing]

-----------------------------------------------------------------------------
(***************************************************************************)
(* provisionImportedTaxpayer, for one taxpayer after the other that the    *)
(* approval has inserted.                                                  *)
(***************************************************************************)
(* The entry is done with: the next one, or the approval answers. *)
Next1(c, e) ==
    /\ made' = [made EXCEPT ![c] = @ \ {e}]
    /\ pc' = [pc EXCEPT ![c] = IF made[c] = {e} THEN "idle" ELSE "provisioning"]
    /\ at' = [at EXCEPT ![c] = IF made[c] = {e} THEN Nothing ELSE @]
    /\ phone' = [phone EXCEPT ![c] = Nothing]
    /\ account' = [account EXCEPT ![c] = Nothing]
    /\ UNCHANGED <<todo, secret>>

Provisioned(c) == CHOOSE e \in made[c] : e.taxpayer = account[c].taxpayer

(* The number is no mobile phone, the taxpayer has a link, or the identity
   is found: no account is made.  A search that the provider answers with
   an error finds nothing; one it does not answer ends the approval. *)
LookUp(c) ==
    /\ pc[c] = "provisioning"
    /\ \E e \in made[c] :
          LET p == NormalizeYemeniPhone(NormalizePhone(e.cells.phone))
              linked == \E l \in links : l.taxpayer = e.taxpayer
          IN \/ /\ \/ p = Nothing
                   \/ linked
                   \/ p # Nothing /\ password[p] # "none"
                /\ Next1(c, e)
             \/ /\ p # Nothing /\ ~linked
                /\ phone' = [phone EXCEPT ![c] = p]
                /\ account' = [account EXCEPT ![c] = Link(p, e.taxpayer, "imported_pending_claim")]
                /\ Goto(c, "creating")
                /\ UNCHANGED <<copyVars, secret>>
             \/ p # Nothing /\ ~linked /\ Done(c)
    /\ UNCHANGED <<importVars, accountVars, messageVars, proofVars>>

(* createIdentity: the provider refuses a number it has; a lost answer
   leaves the identity and counts as a failure. *)
CreateIdentity(c) ==
    /\ pc[c] = "creating"
    /\ \/ /\ password[phone[c]] = "none"
          /\ password' = [password EXCEPT ![phone[c]] = "undisclosed"]
          /\ \/ Goto(c, "linking") /\ UNCHANGED <<copyVars, callVars>>
             \/ Next1(c, Provisioned(c))
       \/ Next1(c, Provisioned(c)) /\ UNCHANGED password
    /\ UNCHANGED <<importVars, profiles, links, joined, messageVars, proofVars>>

(* The profile and the link, in one transaction. *)
LinkAccount(c) ==
    /\ pc[c] = "linking"
    /\ \/ /\ password[phone[c]] # "none" /\ phone[c] \notin profiles
          /\ profiles' = profiles \cup {phone[c]}
          /\ links' = links \cup {account[c]}
          /\ \/ Next1(c, Provisioned(c))
             \/ Goto(c, "compensating") /\ UNCHANGED <<copyVars, callVars>>
       \/ /\ Goto(c, "compensating")
          /\ UNCHANGED <<profiles, links, copyVars, callVars>>
    /\ UNCHANGED <<importVars, password, joined, messageVars, proofVars>>

(* Mutant: the identity goes although a profile refers to it. *)
BugDeleteIdentity(c) ==
    /\ pc[c] = "compensating"
    /\ password' = [password EXCEPT ![phone[c]] = "none"]
    /\ Next1(c, Provisioned(c))
    /\ UNCHANGED <<importVars, profiles, links, joined, messageVars, proofVars>>

(* deleteIdentity, whose failure is ignored: a profile that was committed
   after all keeps the identity in place. *)
DeleteIdentity(c) ==
    /\ pc[c] = "compensating"
    /\ password' \in {password} \cup
          (IF phone[c] \in profiles THEN {} ELSE {[password EXCEPT ![phone[c]] = "none"]})
    /\ Next1(c, Provisioned(c))
    /\ UNCHANGED <<importVars, profiles, links, joined, messageVars, proofVars>>

-----------------------------------------------------------------------------
(***************************************************************************)
(* requestCredentials: a password is generated, sent, set at the provider  *)
(* only after the message was taken, and then the link is claimed.         *)
(***************************************************************************)
(* pendingAccountOf: any pending link of a taxpayer with that number. *)
Pending(p) ==
    {l \in links :
        /\ l.status = "imported_pending_claim"
        /\ \E k \in Contacts :
              k.taxpayer = l.taxpayer /\ k.type = "phone" /\ SubscriberDigits(k.value) = p}

RequestCredentials(c, p) ==
    /\ pc[c] = "idle"
    /\ p \notin cooling
    /\ \E l \in Pending(p) : account' = [account EXCEPT ![c] = l]
    /\ phone' = [phone EXCEPT ![c] = p]
    /\ \E s \in fresh : secret' = [secret EXCEPT ![c] = s] /\ fresh' = fresh \ {s}
    /\ Goto(c, "sending")
    /\ UNCHANGED <<importVars, copyVars, accountVars, delivered, cooling, proofVars>>

(* Mutant: a refused message does not end the request. *)
BugSendPassword(c) ==
    /\ pc[c] = "sending"
    /\ delivered' \in {delivered, [delivered EXCEPT ![phone[c]] = @ \cup {secret[c]}]}
    /\ Goto(c, "setting")
    /\ UNCHANGED <<importVars, copyVars, callVars, accountVars, fresh, cooling, proofVars>>

(* The message is taken, taken without an answer, or refused. *)
SendPassword(c) ==
    /\ pc[c] = "sending"
    /\ \/ /\ delivered' = [delivered EXCEPT ![phone[c]] = @ \cup {secret[c]}]
          /\ \/ Goto(c, "setting") /\ UNCHANGED <<copyVars, callVars>>
             \/ Done(c)
       \/ Done(c) /\ UNCHANGED delivered
    /\ UNCHANGED <<importVars, accountVars, fresh, cooling, proofVars>>

(* Mutant: the link is claimed whether or not the password was set. *)
BugSetPassword(c) ==
    /\ pc[c] = "setting"
    /\ password' \in {password, [password EXCEPT ![account[c].phone] = secret[c]]}
    /\ Goto(c, "claiming")
    /\ UNCHANGED <<importVars, copyVars, callVars, profiles, links, joined, messageVars, proofVars>>

(* setIdentityPassword: done, done without an answer, or failed. *)
SetPassword(c) ==
    /\ pc[c] = "setting"
    /\ \/ /\ password' = [password EXCEPT ![account[c].phone] = secret[c]]
          /\ \/ Goto(c, "claiming") /\ UNCHANGED <<copyVars, callVars>>
             \/ Done(c)
       \/ Done(c) /\ UNCHANGED password
    /\ UNCHANGED <<importVars, profiles, links, joined, messageVars, proofVars>>

(* Mutant: the link gets a status that no query knows. *)
BugClaimLink(c) ==
    /\ pc[c] = "claiming"
    /\ links' = {IF l = account[c] THEN [l EXCEPT !.status = "verified"] ELSE l : l \in links}
    /\ cooling' = cooling \cup {phone[c]}
    /\ Done(c)
    /\ UNCHANGED <<importVars, password, profiles, joined, delivered, fresh, proofVars>>

(* UPDATE by the id of the link; the cooldown starts only now. *)
ClaimLink(c) ==
    /\ pc[c] = "claiming"
    /\ links' = {IF l.phone = account[c].phone /\ l.taxpayer = account[c].taxpayer
                 THEN [l EXCEPT !.status = "claimed"] ELSE l : l \in links}
    /\ cooling' = cooling \cup {phone[c]}
    /\ Done(c)
    /\ UNCHANGED <<importVars, password, profiles, joined, delivered, fresh, proofVars>>

CooldownEnds(p) ==
    /\ p \in cooling
    /\ cooling' = cooling \ {p}
    /\ UNCHANGED <<importVars, pc, copyVars, accountVars, delivered, fresh, proofVars, callVars>>

-----------------------------------------------------------------------------
(***************************************************************************)
(* Registration: a proof is issued for a verified number; register checks  *)
(* it, remembers that it is used, creates the identity, then the profile.  *)
(***************************************************************************)
VerifyRegistrationOtp(p) ==
    /\ p \notin proofs
    /\ proofs' = proofs \cup {p}
    /\ spent' = spent \ {p}
    /\ UNCHANGED <<importVars, pc, copyVars, accountVars, messageVars, callVars>>

ProofExpires(p) ==
    /\ p \in proofs
    /\ proofs' = proofs \ {p}
    /\ UNCHANGED <<importVars, pc, copyVars, accountVars, messageVars, spent, callVars>>

(* consumeProof, which marks nothing yet. *)
CheckProof(c, p) ==
    /\ pc[c] = "idle"
    /\ p \in proofs \ spent
    /\ phone' = [phone EXCEPT ![c] = p]
    /\ Goto(c, "proved")
    /\ UNCHANGED <<importVars, copyVars, accountVars, messageVars, proofVars, secret, account>>

(* A weak password ends the call and leaves the proof; else it is marked. *)
SpendProof(c) ==
    /\ pc[c] = "proved"
    /\ \/ Done(c) /\ UNCHANGED spent
       \/ /\ spent' = spent \cup {phone[c]}
          /\ Goto(c, "registering")
          /\ UNCHANGED <<copyVars, callVars>>
    /\ UNCHANGED <<importVars, accountVars, messageVars, proofs>>

RegisterIdentity(c) ==
    /\ pc[c] = "registering"
    /\ \/ /\ password[phone[c]] = "none"
          /\ password' = [password EXCEPT ![phone[c]] = "chosen"]
          /\ \/ Goto(c, "profiling") /\ UNCHANGED <<copyVars, callVars>>
             \/ Done(c)
       \/ Done(c) /\ UNCHANGED password
    /\ UNCHANGED <<importVars, profiles, links, joined, messageVars, proofVars>>

(* createUserProfile: nothing undoes the identity when it fails. *)
RegisterProfile(c) ==
    /\ pc[c] = "profiling"
    /\ profiles' \in {profiles, profiles \cup {phone[c]}}
    /\ Done(c)
    /\ UNCHANGED <<importVars, password, links, joined, messageVars, proofVars>>

(***************************************************************************)
(* completeProfile: the account has no active link when it is read; then,  *)
(* in one transaction, it is linked to a taxpayer whose tax number the     *)
(* caller knows or to a new one.  The index on active links of a profile   *)
(* refuses a second link, and with it everything else.                     *)
(***************************************************************************)
ReadOwnLink(c, p) ==
    /\ pc[c] = "idle"
    /\ p \in profiles
    /\ ~HasActiveLink(p)
    /\ phone' = [phone EXCEPT ![c] = p]
    /\ Goto(c, "completing")
    /\ UNCHANGED <<importVars, copyVars, accountVars, messageVars, proofVars, secret, account>>

(* The phone is asked of the provider, which may fail; a tax number is kept
   with a taxpayer who is new. *)
NewContacts(t, p, tax, reached) ==
    {[taxpayer |-> t, type |-> "phone", value |-> Full(q)] : q \in {x \in {p} : reached}}
    \cup {[taxpayer |-> t, type |-> "tax_number", value |-> n] :
             n \in {x \in {tax} \ {Nothing} : t \notin Known}}

CompleteProfile(c) ==
    /\ pc[c] = "completing"
    /\ IF HasActiveLink(phone[c]) THEN UNCHANGED <<links, joined>>
       ELSE \E t \in Known \cup {<<"own", phone[c]>>}, tax \in TaxNumbers \cup {Nothing},
               reached \in BOOLEAN :
               /\ links' = links \cup {Link(phone[c], t, "pending")}
               /\ joined' = joined \cup NewContacts(t, phone[c], tax, reached)
    /\ Done(c)
    /\ UNCHANGED <<importVars, password, profiles, messageVars, proofVars>>

-----------------------------------------------------------------------------
(* A statement of the account fails, or its connection is lost. *)
AccountCallFails(c) ==
    /\ pc[c] \notin {"idle", "storing", "deciding", "copying"}
    /\ Done(c)
    /\ UNCHANGED <<importVars, accountVars, messageVars, proofVars>>

(* The API process restarts: calls end, and what it kept in memory is lost. *)
Restart ==
    /\ \E c \in Calls : pc[c] # "idle"
    /\ pc' = [c \in Calls |-> "idle"]
    /\ at' = [c \in Calls |-> Nothing]
    /\ todo' = [c \in Calls |-> {}]
    /\ made' = [c \in Calls |-> {}]
    /\ phone' = [c \in Calls |-> Nothing]
    /\ secret' = [c \in Calls |-> Nothing]
    /\ account' = [c \in Calls |-> Nothing]
    /\ cooling' = {} /\ spent' = {}
    /\ UNCHANGED <<importVars, accountVars, delivered, fresh, proofs>>

OthersUnchanged == UNCHANGED <<accountVars, messageVars, proofVars, callVars>>

ImportStep ==
    /\ \/ \E c \in Calls, j \in Jobs : UploadImport(c, j, Contacts) \/ ReadJob(c, j)
       \/ \E c \in Calls :
             \/ StoreRow(c) \/ ReadRows(c) \/ CopyRow(c, Contacts)
             \/ CommitImport(c) \/ ImportCallFails(c)
       \/ \E j \in Jobs : RejectImport(j)
    /\ OthersUnchanged

ProvisioningStep ==
    \E c \in Calls : LookUp(c) \/ CreateIdentity(c) \/ LinkAccount(c) \/ DeleteIdentity(c)

CredentialsStep ==
    \/ \E c \in Calls, p \in Mobiles : RequestCredentials(c, p)
    \/ \E c \in Calls : SendPassword(c) \/ SetPassword(c) \/ ClaimLink(c)
    \/ \E p \in Mobiles : CooldownEnds(p)

RegistrationStep ==
    \/ \E p \in Mobiles : VerifyRegistrationOtp(p) \/ ProofExpires(p)
    \/ \E c \in Calls, p \in Mobiles : CheckProof(c, p) \/ ReadOwnLink(c, p)
    \/ \E c \in Calls :
          SpendProof(c) \/ RegisterIdentity(c) \/ RegisterProfile(c) \/ CompleteProfile(c)

Next ==
    \/ ImportStep
    \/ ProvisioningStep
    \/ CredentialsStep
    \/ RegistrationStep
    \/ \E c \in Calls : AccountCallFails(c)
    \/ Restart

Spec == Init /\ [][Next]_vars

-----------------------------------------------------------------------------
Cells == UNION {{u.rows[i] : i \in DOMAIN u.rows} : u \in Uploads}
Rows == [number : Nat, cells : Cells, valid : BOOLEAN]
TaxpayerIds == Registered \cup (Jobs \X Nat \X Calls) \cup ({"own"} \X Mobiles)
Entries == [job : Jobs, number : Nat, by : Calls, taxpayer : TaxpayerIds,
            cells : Cells, request : Requests \cup {Nothing}]
Links == [phone : Mobiles, taxpayer : TaxpayerIds,
          status : {"imported_pending_claim", "claimed", "pending"}]

(* The variables of the import hold jobs, rows and entries.               *)
ImportTypeOK ==
    /\ kind \in [Jobs -> Kinds \cup {Nothing}]
    /\ status \in [Jobs -> {"absent", "pending_review", "imported", "rejected"}]
    /\ stored \in [Jobs -> SUBSET Rows]
    /\ landed \subseteq Entries
    /\ pc \in [Calls -> Pc]
    /\ at \in [Calls -> Jobs \cup {Nothing}]
    /\ todo \in [Calls -> SUBSET Rows]
    /\ made \in [Calls -> SUBSET Entries]

(* Each variable holds what the column or the memory it stands for can     *)
(* hold: passwords, links and contacts of the accounts.                    *)
TypeOK ==
    /\ ImportTypeOK
    /\ password \in [Mobiles -> {"none", "undisclosed", "chosen"} \cup Secrets]
    /\ profiles \subseteq Mobiles
    /\ links \subseteq Links
    /\ joined \subseteq [taxpayer : TaxpayerIds, type : {"phone", "tax_number"},
                          value : Spelt(Mobiles) \cup TaxNumbers]
    /\ delivered \in [Mobiles -> SUBSET Secrets]
    /\ fresh \subseteq Secrets
    /\ cooling \subseteq Mobiles /\ proofs \subseteq Mobiles /\ spent \subseteq Mobiles
    /\ phone \in [Calls -> Mobiles \cup {Nothing}]
    /\ secret \in [Calls -> Secrets \cup {Nothing}]
    /\ account \in [Calls -> Links \cup {Nothing}]

(***************************************************************************)
(* Whatever approvals, rejections and uploads overlap, nothing is in the   *)
(* registry or the ledger but accepted rows of jobs that ended imported.   *)
(***************************************************************************)
OnlyReviewedRowsLand ==
    \A e \in landed :
        /\ status[e.job] = "imported"
        /\ \E row \in stored[e.job] :
              row.number = e.number /\ row.cells = e.cells /\ row.valid

(***************************************************************************)
(* Of the rows of taxpayers or activities that reviewers are shown as      *)
(* accepted, no two have the same phone number, however it is spelt in the *)
(* file, nor the same tax number.                                          *)
(***************************************************************************)
AcceptedRowsDiffer ==
    \A j \in Jobs : \A row, other \in stored[j] :
        kind[j] # "dues" /\ row # other /\ row.valid /\ other.valid
        => /\ Nothing \notin {row.cells.phone, other.cells.phone} =>
                 NormalizePhone(row.cells.phone) # NormalizePhone(other.cells.phone)
           /\ row.cells.tax # Nothing => row.cells.tax # other.cells.tax

(* Two approvals of one job may overlap, and then both copy its rows.  They *)
(* are the only way in which a row lands twice: while approvals of a job    *)
(* follow one another, every row lands once, also when a COMMIT loses its   *)
(* answer, when an approval dies half way and is repeated, and when uploads *)
(* and rejections run beside it.                                            *)
Approves(c, j) == pc[c] \in {"deciding", "copying"} /\ at[c] = j

ApprovalsApart ==
    \A c, d \in Calls : \A j \in Jobs : Approves(c, j) /\ Approves(d, j) => c = d

RowsLandOnce ==
    \A e, f \in landed : e.job = f.job /\ e.number = f.number => e = f

OnlyOverlapsRepeat == []ApprovalsApart => []RowsLandOnce

(***************************************************************************)
(* A profile always has its identity: the compensation of a provisioning   *)
(* whose COMMIT went unanswered cannot take it away.                       *)
(***************************************************************************)
ProfilesHaveIdentities == \A p \in profiles : password[p] # "none"

(***************************************************************************)
(* No account has a password its owner could not know: unless nobody knows *)
(* it, it was chosen at registration, or sent to a number of the taxpayer  *)
(* of the account before it was set.                                       *)
(***************************************************************************)
SetPasswordsWereSent ==
    \A p \in Mobiles : password[p] \in Secrets =>
        \E n \in Mobiles : \E l \in links, k \in Contacts :
            /\ l.phone = p
            /\ k.taxpayer = l.taxpayer /\ k.type = "phone" /\ SubscriberDigits(k.value) = n
            /\ password[p] \in delivered[n]

(***************************************************************************)
(* A claimed link belongs to an account that can be signed in to.          *)
(***************************************************************************)
ClaimedCanSignIn ==
    \A l \in links : l.status = "claimed" => password[l.phone] \in Secrets /\ l.phone \in profiles
=============================================================================

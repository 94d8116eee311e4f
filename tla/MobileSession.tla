--------------------------- MODULE MobileSession ---------------------------
(***************************************************************************)
(* The session of a taxpayer in the mobile application: the two tokens the *)
(* device stores, the calls of the screens that carry the access token,    *)
(* and the renewal they share when the token has expired.                  *)
(*                                                                         *)
(* The tokens of the n-th session or renewal are both the number n; 0 is   *)
(* no token.  The identity provider takes a refresh token once and gives   *)
(* the next pair for it.  Any answer may be lost on its way back, and the  *)
(* application may be killed at any step: the store of the device is all   *)
(* that is left of it.                                                     *)
(***************************************************************************)
EXTENDS Naturals, FiniteSets

CONSTANTS
    Calls,       \* bound: calls to the API the screens have open at a time
    User,        \* what the taxpayer does on the sign-in, lock and profile pages
    MaxToken     \* bound: sessions and renewals the provider issues

ASSUME UserAssumption == User \notin Calls /\ MaxToken \in Nat

VARIABLES
    issued,      \* pairs of tokens issued
    renewable,   \* refresh tokens the provider will take
    accepted,    \* access tokens that have not expired
    active,      \* is_active of the taxpayer's profile
    access,      \* SecureTokenStore: the access token,
    refresh,     \*   the refresh token,
    lockOn,      \*   and the preference to lock with a fingerprint
    status,      \* AuthController._status
    inFlight,    \* ApiClient._refreshInFlight: the call that renews, or User
    pc,          \* what a call, or the taxpayer's action, waits for
    held,        \* the token it sent, or received and has not stored
    retried,     \* calls sent again with allowRefresh = false
    told         \* ghost: what has befallen the session since the sign-in:
                 \* a "logout", an "outage" the API answered a renewal with, or
                 \* an "overlap" with calls that were open at the sign-in

providerVars == <<issued, renewable, accepted, active>>
storeVars == <<access, refresh, lockOn>>
taskVars == <<pc, held, retried>>
vars == <<providerVars, storeVars, status, inFlight, taskVars, told>>

Tasks == Calls \cup {User}
Tokens == 1 .. MaxToken
Statuses == {"unknown", "signedOut", "signedIn", "locked"}
Pc == {"idle", "signingIn", "reading", "sent", "waiting", "renewing", "refreshing",
       "writing", "storing", "clearing", "cleared"}

Renewing == {"renewing", "refreshing", "writing", "storing"}
NoFlight == User

Init ==
    /\ issued = 0 /\ renewable = {} /\ accepted = {} /\ active = TRUE
    /\ access = 0 /\ refresh = 0 /\ lockOn = FALSE
    /\ status = "unknown"
    /\ inFlight = NoFlight
    /\ pc = [p \in Tasks |-> "idle"]
    /\ held = [p \in Tasks |-> 0]
    /\ retried = {}
    /\ told = {}

Goto(p, where) == pc' = [pc EXCEPT ![p] = where]
HasSession == access # 0 \/ refresh # 0

-----------------------------------------------------------------------------
(***************************************************************************)
(* Renewal: refreshSession, run by the one call that has started it for    *)
(* all, or by the taxpayer who unlocks.                                    *)
(***************************************************************************)
(* Mutant: the waiting calls are not told. *)
BugSharing(p) == {p}

Sharing(p) == IF p = User THEN {User} ELSE {c \in Calls : c = p \/ pc[c] = "waiting"}

(* Mutant: whenComplete does not forget the renewal that has ended. *)
BugKeepsFlight(p, where) ==
    /\ pc' = [q \in Tasks |-> IF q \in Sharing(p) THEN where ELSE pc[q]]
    /\ held' = [q \in Tasks |-> IF q \in Sharing(p) THEN 0 ELSE held[q]]
    /\ retried' = IF where = "reading" THEN retried \cup (Sharing(p) \ {User}) ELSE retried
    /\ UNCHANGED inFlight

(* The renewal ends and everyone who waited for it goes on from where.  What
   is sent again may not renew again. *)
Settle(p, where) ==
    /\ pc' = [q \in Tasks |-> IF q \in Sharing(p) THEN where ELSE pc[q]]
    /\ inFlight' = IF p = User THEN inFlight ELSE NoFlight
    /\ held' = [q \in Tasks |-> IF q \in Sharing(p) THEN 0 ELSE held[q]]
    /\ retried' = IF where = "reading" THEN retried \cup (Sharing(p) \ {User}) ELSE retried

(* There is no new token: the calls end the session, the unlocking taxpayer
   is signed out. *)
Unrenewed(p) == Settle(p, "clearing")

(* Mutant: a failed connection counts as a void token. *)
BugNetworkError(p) == Settle(p, "clearing")

(* No status code came back: the exception passes through to the callers,
   and the stored session stays. *)
NetworkError(p) == Settle(p, "idle")

ReadRefreshToken(p) ==
    /\ pc[p] = "renewing"
    /\ \/ /\ refresh # 0
          /\ held' = [held EXCEPT ![p] = refresh]
          /\ Goto(p, "refreshing")
          /\ UNCHANGED <<inFlight, retried>>
       \/ refresh = 0 /\ Unrenewed(p)
    /\ UNCHANGED <<providerVars, storeVars, status, told>>

(* AuthnService.refreshSession after the provider has issued the next pair. *)
Renewed(p) ==
    /\ held[p] \in renewable
    /\ issued < MaxToken
    /\ issued' = issued + 1
    /\ renewable' = (renewable \ {held[p]}) \cup {issued'}
    /\ accepted' = accepted \cup {issued'}
    /\ \/ /\ active
          /\ held' = [held EXCEPT ![p] = issued']
          /\ Goto(p, "writing")
          /\ UNCHANGED <<inFlight, retried>>
       \/ NetworkError(p)      \* the answer is lost
       \/ Unrenewed(p)         \* inactive, or the profile is not read
    /\ UNCHANGED <<active, told>>

(* The provider refuses a void token.  If it is not reached or misconfigured,
   or the API fails, any status code, 503 too, is the same false to the
   application, whatever the token is worth. *)
NotRenewed(p) ==
    /\ \/ NetworkError(p) /\ UNCHANGED told
       \/ held[p] \notin renewable /\ Unrenewed(p) /\ UNCHANGED told
       \/ held[p] \in renewable /\ Unrenewed(p) /\ told' = told \cup {"outage"}
    /\ UNCHANGED providerVars

Refresh(p) ==
    /\ pc[p] = "refreshing"
    /\ Renewed(p) \/ NotRenewed(p)
    /\ UNCHANGED <<storeVars, status>>

-----------------------------------------------------------------------------
(***************************************************************************)
(* The store: two tokens, written and deleted one after the other.         *)
(***************************************************************************)
WriteAccess(p) ==
    /\ pc[p] = "writing"
    /\ access' = held[p]
    /\ Goto(p, "storing")
    /\ UNCHANGED <<providerVars, refresh, lockOn, status, inFlight, held, retried, told>>

(* The renewing call and those that waited are sent again.  The taxpayer is
   in, unless what was to follow the sign-in of a new account fails. *)
WriteRefresh(p) ==
    /\ pc[p] = "storing"
    /\ refresh' = held[p]
    /\ \/ p # User /\ Settle(p, "reading") /\ UNCHANGED <<status, told>>
       \/ /\ p = User /\ Settle(p, "idle")
          /\ status' = "signedIn"
          /\ told' = IF \E c \in Calls : pc[c] # "idle" THEN {"overlap"} ELSE {}
       \/ /\ p = User /\ status = "signedOut" /\ Settle(p, "idle")
          /\ UNCHANGED <<status, told>>
    /\ UNCHANGED <<providerVars, access, lockOn>>

ClearAccess(p) ==
    /\ pc[p] = "clearing"
    /\ access' = 0
    /\ Goto(p, "cleared")
    /\ UNCHANGED <<providerVars, refresh, lockOn, status, inFlight, held, retried, told>>

(* onSessionExpired for a call; logout also turns the lock off. *)
ClearRefresh(p) ==
    /\ pc[p] = "cleared"
    /\ refresh' = 0
    /\ lockOn' = (lockOn /\ p # User)
    /\ status' = "signedOut"
    /\ Goto(p, "idle")
    /\ retried' = retried \ {p}
    /\ UNCHANGED <<providerVars, access, inFlight, held, told>>

-----------------------------------------------------------------------------
(* A screen of the signed-in taxpayer calls the API. *)
StartCall(c) ==
    /\ pc[c] = "idle" /\ status = "signedIn"
    /\ Goto(c, "reading")
    /\ UNCHANGED <<providerVars, storeVars, status, inFlight, held, retried, told>>

Send(c) ==
    /\ pc[c] = "reading"
    /\ held' = [held EXCEPT ![c] = access]
    /\ Goto(c, "sent")
    /\ UNCHANGED <<providerVars, storeVars, status, inFlight, retried, told>>

(* The call has its answer, or none. *)
Answer(c) ==
    /\ pc[c] = "sent"
    /\ Goto(c, "idle")
    /\ held' = [held EXCEPT ![c] = 0]
    /\ retried' = retried \ {c}
    /\ UNCHANGED <<providerVars, storeVars, status, inFlight, told>>

(* Mutant: every call renews for itself. *)
BugTryRefresh(c) == Goto(c, "renewing") /\ inFlight' = c

(* _tryRefresh: whoever comes first renews, the others wait for it. *)
TryRefresh(c) ==
    /\ Goto(c, IF inFlight = NoFlight THEN "renewing" ELSE "waiting")
    /\ inFlight' = IF inFlight = NoFlight THEN c ELSE inFlight

(* BearerActorContextResolver: no valid token, or no active profile. *)
Unauthorized(c) ==
    /\ pc[c] = "sent"
    /\ held[c] \notin accepted \/ ~active
    /\ \/ c \notin retried /\ TryRefresh(c)
       \/ /\ c \in retried
          /\ Goto(c, "clearing") /\ UNCHANGED inFlight
    /\ held' = [held EXCEPT ![c] = 0]
    /\ UNCHANGED <<providerVars, storeVars, status, retried, told>>

-----------------------------------------------------------------------------
(* restoreSession; the lock needs a device that still has fingerprints. *)
RestoreSession ==
    /\ status = "unknown"
    /\ \/ ~HasSession /\ status' = "signedOut" /\ UNCHANGED lockOn
       \/ HasSession /\ lockOn /\ status' = "locked" /\ UNCHANGED lockOn
       \/ HasSession /\ status' = "signedIn" /\ lockOn' = FALSE
    /\ UNCHANGED <<providerVars, access, refresh, inFlight, taskVars, told>>

(* Deleting two keys takes less time than signing in by hand. *)
Login ==
    /\ pc[User] = "idle" /\ status = "signedOut"
    /\ \A c \in Calls : pc[c] \notin {"clearing", "cleared"}
    /\ Goto(User, "signingIn")
    /\ UNCHANGED <<providerVars, storeVars, status, inFlight, held, retried, told>>

LoginAnswer ==
    /\ pc[User] = "signingIn"
    /\ \/ /\ issued < MaxToken
          /\ issued' = issued + 1
          /\ renewable' = renewable \cup {issued'}
          /\ accepted' = accepted \cup {issued'}
          /\ held' = [held EXCEPT ![User] = issued']
          /\ Goto(User, "writing")
       \/ Goto(User, "idle") /\ UNCHANGED <<issued, renewable, accepted, held>>
    /\ UNCHANGED <<active, storeVars, status, inFlight, retried, told>>

(* From the profile page, or from the lock page with cancelLock. *)
Logout ==
    /\ pc[User] = "idle" /\ status \in {"signedIn", "locked"}
    /\ Goto(User, "clearing")
    /\ told' = told \cup {"logout"}
    /\ UNCHANGED <<providerVars, storeVars, status, inFlight, held, retried>>

(* Mutant: the fingerprint alone opens the account. *)
BugUnlock ==
    /\ pc[User] = "idle" /\ status = "locked"
    /\ status' = "signedIn"
    /\ UNCHANGED <<providerVars, storeVars, inFlight, taskVars, told>>

(* The fingerprint was right.  A session that cannot be renewed is opened
   as it is. *)
UnlockWithBiometrics ==
    /\ pc[User] = "idle" /\ status = "locked"
    /\ \/ refresh # 0 /\ Goto(User, "renewing") /\ UNCHANGED status
       \/ refresh = 0 /\ HasSession /\ status' = "signedIn" /\ UNCHANGED pc
    /\ UNCHANGED <<providerVars, storeVars, inFlight, held, retried, told>>

EnableBiometrics ==
    /\ pc[User] = "idle" /\ status = "signedIn"
    /\ ~lockOn /\ refresh # 0
    /\ lockOn' = TRUE
    /\ UNCHANGED <<providerVars, access, refresh, status, inFlight, taskVars, told>>

DisableBiometrics ==
    /\ pc[User] = "idle" /\ status = "signedIn"
    /\ lockOn' = FALSE
    /\ UNCHANGED <<providerVars, access, refresh, status, inFlight, taskVars, told>>

-----------------------------------------------------------------------------
(* The application is killed and started again. *)
Kill ==
    /\ status # "unknown"
    /\ status' = "unknown"
    /\ inFlight' = NoFlight
    /\ pc' = [p \in Tasks |-> "idle"]
    /\ held' = [p \in Tasks |-> 0]
    /\ retried' = {}
    /\ told' = {}
    /\ UNCHANGED <<providerVars, storeVars>>

(* An access token lives for an hour: longer than it takes to store it, and
   to send a call again with it. *)
Expire ==
    /\ retried = {} /\ \A p \in Tasks : pc[p] \notin {"writing", "storing"}
    /\ \E t \in accepted : accepted' = accepted \ {t}
    /\ UNCHANGED <<issued, renewable, active, storeVars, status, inFlight, taskVars, told>>

Deactivate ==
    /\ active
    /\ active' = FALSE
    /\ UNCHANGED <<issued, renewable, accepted, storeVars, status, inFlight, taskVars, told>>

TaskStep(p) ==
    \/ ReadRefreshToken(p) \/ Refresh(p)
    \/ WriteAccess(p) \/ WriteRefresh(p) \/ ClearAccess(p) \/ ClearRefresh(p)

CallStep(c) == Send(c) \/ Answer(c) \/ Unauthorized(c)

Next ==
    \/ \E p \in Tasks : TaskStep(p)
    \/ \E c \in Calls : StartCall(c) \/ CallStep(c)
    \/ RestoreSession \/ Login \/ LoginAnswer \/ Logout
    \/ UnlockWithBiometrics \/ EnableBiometrics \/ DisableBiometrics
    \/ Kill \/ Expire \/ Deactivate

(* A request has an answer or a timeout after AppConfig.requestTimeout, and
   the store of the device answers.  Nobody has to call or to sign in, and
   nothing has to expire. *)
Fairness ==
    /\ \A p \in Tasks : WF_vars(TaskStep(p))
    /\ \A c \in Calls : WF_vars(CallStep(c))

Spec == Init /\ [][Next]_vars /\ Fairness

-----------------------------------------------------------------------------
(* The type of every variable; a renewal in flight is run by a call. *)
TypeOK ==
    /\ issued \in 0 .. MaxToken
    /\ renewable \subseteq Tokens /\ accepted \subseteq Tokens
    /\ active \in BOOLEAN
    /\ access \in 0 .. MaxToken /\ refresh \in 0 .. MaxToken
    /\ lockOn \in BOOLEAN
    /\ status \in Statuses
    /\ inFlight \in Tasks
    /\ pc \in [Tasks -> Pc]
    /\ held \in [Tasks -> 0 .. MaxToken]
    /\ retried \subseteq Calls
    /\ inFlight # NoFlight => pc[inFlight] \in Renewing
    /\ told \subseteq {"logout", "outage", "overlap"}

(* However many calls meet the same 401, and whatever the taxpayer does
   meanwhile, no refresh token is on its way to the provider twice: the
   second request would void the pair the first one brings. *)
RenewalsDoNotCollide ==
    \A p, q \in Tasks :
        pc[p] = "refreshing" /\ pc[q] = "refreshing" /\ held[p] = held[q] => p = q

(* A call waits only while the renewal it waits for is under way. *)
WaitersAreServed ==
    \A c \in Calls : pc[c] = "waiting" =>
        inFlight # NoFlight /\ pc[inFlight] \in Renewing

(* The screens of the signed-in taxpayer have a session to call with, or the
   session is being cleared and the sign-in page follows. *)
SignedInHasSession ==
    status = "signedIn" => HasSession \/ \E p \in Tasks : pc[p] = "cleared"

(* The taxpayer goes to the sign-in page only by a logout, when the account
   is not active any more, or when the provider would not take the refresh
   token that is stored: never while it would renew the session, whatever
   connections and answers are lost, and whoever renews beside whom.  The
   code makes two exceptions: the API has answered a renewal with an outage,
   or calls of before the sign-in were still open when it was stored. *)
SessionsEndForAReason ==
    [][status' = "signedOut" /\ status \in {"signedIn", "locked"} =>
          told # {} \/ ~active \/ refresh \notin renewable]_vars

(* A fingerprint opens the account on a session that works, unless the
   device never had a token to renew it with. *)
UnlockOpensLiveSession ==
    [][status = "locked" /\ status' = "signedIn" => access' \in accepted' \/ refresh' = 0]_vars

(* Every call ends: with its answer, an error, or the end of the session. *)
CallsEnd == \A c \in Calls : pc[c] # "idle" ~> pc[c] = "idle"

(* Nothing is stored when the sign-in page shows, unless the taxpayer is
   signing in. *)
SignedOutHasNothing == status = "signedOut" /\ pc[User] # "storing" => ~HasSession

(* No new token is about to be written between the two deletes of a sign-out,
   and none by a renewal after it. *)
SignOutsApart ==
    /\ \A p, q \in Tasks : pc[p] = "cleared" => pc[q] # "writing"
    /\ \A c \in Calls : pc[c] \in {"writing", "storing"} => status # "signedOut"

(* What follows a sign-in that was answered does not fail. *)
SignInsFinish == pc[User] = "storing" /\ pc'[User] = "idle" => status' # "signedOut"

(* A sign-out during a renewal and a sign-in that fails half way are all that
   leaves a session behind the sign-in page: neither several sign-outs at
   once, nor late refusals, nor the end of the application does. *)
OnlyTheseStayBehind == []SignOutsApart /\ [][SignInsFinish]_vars => []SignedOutHasNothing
=============================================================================

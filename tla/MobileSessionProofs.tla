------------------------ MODULE MobileSessionProofs ------------------------
(***************************************************************************)
(* What the session of the mobile application guarantees for any number of *)
(* open calls and of sessions and renewals.                                *)
(*                                                                         *)
(* The properties are not inductive by themselves.  SessionInv adds why    *)
(* they hold: before the session is restored or unlocked no screen is      *)
(* shown and no call is open, so that the renewal of the taxpayer and that *)
(* of a call never meet; the renewal of a call is the one in flight; what  *)
(* a renewal has received is still good when it is stored; and whoever     *)
(* clears the session would not be renewed.                                *)
(***************************************************************************)
EXTENDS MobileSession, TLAPS

(* Where no screen is shown, no call is open. *)
ScreensAreClosed ==
    /\ status \in {"unknown", "locked"} => \A c \in Calls : pc[c] = "idle"
    /\ status = "unknown" => pc[User] = "idle"
    /\ pc[User] \in {"renewing", "refreshing"} => status = "locked"

(* There is one renewal in flight, and who waits, waits for it. *)
OneFlight ==
    /\ \A c \in Calls : pc[c] \in Renewing => inFlight = c
    /\ \A c \in Calls : pc[c] = "waiting" => inFlight # NoFlight

(* The tokens that are being stored are good. *)
FreshTokens ==
    /\ \A p \in Tasks : pc[p] \in {"writing", "storing"} => held[p] \in accepted
    /\ status = "locked" /\ pc[User] = "storing" => access = held[User]

SessionInv ==
    /\ TypeOK /\ ScreensAreClosed /\ OneFlight /\ FreshTokens /\ SignedInHasSession

-----------------------------------------------------------------------------
(* The application starts with an empty store and nothing under way. *)
LEMMA InitInv == Init => SessionInv
<1> SUFFICES ASSUME Init PROVE SessionInv
  OBVIOUS
<1> USE UserAssumption DEF Init, Tasks, NoFlight
<1>1. TypeOK
  <2>1. /\ issued \in 0 .. MaxToken /\ access \in 0 .. MaxToken /\ refresh \in 0 .. MaxToken
        /\ renewable \subseteq Tokens /\ accepted \subseteq Tokens
    BY DEF Tokens
  <2>2. active \in BOOLEAN /\ lockOn \in BOOLEAN
    OBVIOUS
  <2>3. /\ status \in Statuses /\ inFlight \in Tasks
        /\ pc \in [Tasks -> Pc] /\ held \in [Tasks -> 0 .. MaxToken]
        /\ retried \subseteq Calls /\ told \subseteq {"logout", "outage", "overlap"}
    BY DEF Statuses, Pc
  <2>4. QED BY <2>1, <2>2, <2>3 DEF TypeOK
<1>2. ScreensAreClosed /\ OneFlight
  BY DEF ScreensAreClosed, OneFlight, Renewing
<1>3. FreshTokens /\ SignedInHasSession
  BY DEF FreshTokens, SignedInHasSession
<1>4. QED BY <1>1, <1>2, <1>3 DEF SessionInv

(* What the end of a renewal does to the tasks: those that share it go on   *)
(* from where, the others are left alone, and nobody waits any longer for   *)
(* the renewal of a call.                                                   *)
LEMMA Settled ==
    ASSUME SessionInv, NEW p \in Tasks, pc[p] \in Renewing,
           NEW where \in {"idle", "reading", "clearing"}, Settle(p, where)
    PROVE  /\ pc' \in [Tasks -> Pc] /\ held' \in [Tasks -> 0 .. MaxToken]
           /\ inFlight' \in Tasks /\ retried' \subseteq Calls
           /\ pc'[p] = where
           /\ \A q \in Tasks : pc'[q] = where \/ (pc'[q] = pc[q] /\ held'[q] = held[q] /\ q # p)
           /\ p # User => /\ inFlight = p /\ inFlight' = NoFlight
                          /\ pc'[User] = pc[User] /\ held'[User] = held[User]
                          /\ \A c \in Calls : pc'[c] # "waiting"
           /\ p = User => inFlight' = inFlight /\ \A c \in Calls : pc'[c] = pc[c]
           /\ \A q \in Tasks : pc'[q] # pc[q] => q \in Sharing(p)
           /\ \A q \in Tasks : pc[q] = "cleared" => pc'[q] = "cleared"
<1> USE UserAssumption DEF SessionInv, TypeOK, Tasks
<1>1. p # User => inFlight = p
  BY DEF OneFlight
<1>2. /\ Sharing(p) \subseteq Tasks /\ p \in Sharing(p)
      /\ \A q \in Sharing(p) : q = p \/ pc[q] = "waiting"
      /\ (p # User => User \notin Sharing(p)
                     /\ \A c \in Calls : pc[c] = "waiting" => c \in Sharing(p))
      /\ (p = User => \A q \in Sharing(p) : q = User)
  BY DEF Sharing
<1>3. pc' = [q \in Tasks |-> IF q \in Sharing(p) THEN where ELSE pc[q]]
      /\ held' = [q \in Tasks |-> IF q \in Sharing(p) THEN 0 ELSE held[q]]
      /\ inFlight' = IF p = User THEN inFlight ELSE NoFlight
  BY DEF Settle
<1>4. pc' \in [Tasks -> Pc] /\ held' \in [Tasks -> 0 .. MaxToken]
  BY <1>3 DEF Pc
<1>5. inFlight' \in Tasks
  BY <1>3 DEF NoFlight
<1>6. retried' \subseteq Calls
  BY <1>2 DEF Settle
<1>7. pc[p] # "cleared"
  BY DEF Renewing
<1>8. \A q \in Tasks : pc'[q] = IF q \in Sharing(p) THEN where ELSE pc[q]
  BY <1>3
<1>9. \A q \in Tasks : held'[q] = IF q \in Sharing(p) THEN 0 ELSE held[q]
  BY <1>3
<1>10. pc'[p] = where
  BY <1>2, <1>8
<1>11. \A q \in Tasks : pc'[q] = where \/ (pc'[q] = pc[q] /\ held'[q] = held[q] /\ q # p)
  BY <1>2, <1>8, <1>9
<1>12. ASSUME p # User
       PROVE  /\ inFlight = p /\ inFlight' = NoFlight
              /\ pc'[User] = pc[User] /\ held'[User] = held[User]
              /\ \A c \in Calls : pc'[c] # "waiting"
  BY <1>1, <1>2, <1>3, <1>8, <1>9, <1>12
<1>13. ASSUME p = User
       PROVE  inFlight' = inFlight /\ \A c \in Calls : pc'[c] = pc[c]
  BY <1>2, <1>3, <1>8, <1>13
<1>14. \A q \in Tasks : pc'[q] # pc[q] => q \in Sharing(p)
  BY <1>8
<1>15. \A q \in Tasks : pc[q] = "cleared" => pc'[q] = "cleared"
  BY <1>2, <1>7, <1>8
<1>16. QED BY <1>4, <1>5, <1>6, <1>10, <1>11, <1>12, <1>13, <1>14, <1>15

(* A renewal that ends without a pair, or whose pair is stored, leaves the  *)
(* part of the invariant about calls and renewals intact.                   *)
LEMMA SettledInv ==
    ASSUME SessionInv, NEW p \in Tasks, pc[p] \in Renewing,
           NEW where \in {"idle", "reading", "clearing"}, Settle(p, where),
           p = User => where # "reading",
           accepted \subseteq accepted', accepted' \subseteq Tokens
    PROVE  /\ pc' \in [Tasks -> Pc] /\ held' \in [Tasks -> 0 .. MaxToken]
           /\ inFlight' \in Tasks /\ retried' \subseteq Calls
           /\ inFlight' # NoFlight => pc'[inFlight'] \in Renewing
           /\ OneFlight'
           /\ \A q \in Tasks : pc'[q] \in {"writing", "storing"} => held'[q] \in accepted'
<1> USE UserAssumption DEF SessionInv, TypeOK, Tasks
<1>1. /\ pc' \in [Tasks -> Pc] /\ held' \in [Tasks -> 0 .. MaxToken]
      /\ inFlight' \in Tasks /\ retried' \subseteq Calls
      /\ \A q \in Tasks : pc'[q] = where \/ (pc'[q] = pc[q] /\ held'[q] = held[q] /\ q # p)
      /\ p # User => /\ inFlight = p /\ inFlight' = NoFlight
                     /\ \A c \in Calls : pc'[c] # "waiting"
      /\ p = User => inFlight' = inFlight /\ \A c \in Calls : pc'[c] = pc[c]
      /\ \A q \in Tasks : pc'[q] # pc[q] => q \in Sharing(p)
  BY Settled
<1>2. inFlight' # NoFlight => pc'[inFlight'] \in Renewing
  BY <1>1 DEF NoFlight
<1>3. OneFlight'
  BY <1>1 DEF OneFlight, Renewing, NoFlight
<1>4. \A q \in Tasks : pc'[q] \in {"writing", "storing"} => held'[q] \in accepted'
  BY <1>1 DEF FreshTokens
<1>5. QED BY <1>1, <1>2, <1>3, <1>4

(* The steps of a renewal. *)
LEMMA RenewalInv ==
    ASSUME SessionInv, NEW p \in Tasks, ReadRefreshToken(p) \/ Refresh(p)
    PROVE  SessionInv'
<1> USE UserAssumption DEF SessionInv, TypeOK, Tasks, providerVars, storeVars, Renewing
<1>1. /\ pc[p] \in Renewing /\ UNCHANGED <<storeVars, status>>
      /\ p = User => status = "locked"
      /\ told' \in {told, told \cup {"outage"}}
  BY DEF ReadRefreshToken, Refresh, Renewed, NotRenewed, ScreensAreClosed
<1>2. /\ issued' \in 0 .. MaxToken /\ renewable' \subseteq Tokens /\ accepted' \subseteq Tokens
      /\ active' \in BOOLEAN /\ accepted \subseteq accepted'
  <2>1. CASE ReadRefreshToken(p)
    BY <2>1 DEF ReadRefreshToken
  <2>2. CASE Refresh(p) /\ Renewed(p)
    <3>1. issued' = issued + 1 /\ issued' \in 0 .. MaxToken /\ issued' \in Tokens
      BY <2>2 DEF Renewed, Tokens
    <3>2. UNCHANGED active
      BY <2>2 DEF Renewed
    <3>3. /\ renewable' = (renewable \ {held[p]}) \cup {issued'}
          /\ accepted' = accepted \cup {issued'}
      BY <2>2 DEF Renewed
    <3>4. QED BY <3>1, <3>2, <3>3
  <2>3. CASE Refresh(p) /\ NotRenewed(p)
    BY <2>3 DEF NotRenewed
  <2>4. QED BY <2>1, <2>2, <2>3 DEF Refresh
<1>3. CASE ~Unrenewed(p) /\ ~NetworkError(p)
  <2>1. PICK where \in {"refreshing", "writing"}, token \in 0 .. MaxToken :
          /\ pc' = [pc EXCEPT ![p] = where]
          /\ held' = [held EXCEPT ![p] = token]
          /\ where = "writing" => token \in accepted'
          /\ pc[p] \in {"renewing", "refreshing"}
          /\ UNCHANGED <<inFlight, retried>>
    BY <1>2, <1>3 DEF ReadRefreshToken, Refresh, Renewed, NotRenewed, Goto
  <2>2. TypeOK'
    BY <1>1, <1>2, <2>1 DEF Pc, Statuses
  <2>3. ScreensAreClosed' /\ OneFlight'
    BY <1>1, <2>1 DEF ScreensAreClosed, OneFlight
  <2>4. FreshTokens'
    BY <1>1, <1>2, <2>1 DEF FreshTokens
  <2>5. SignedInHasSession'
    BY <1>1, <2>1 DEF SignedInHasSession, HasSession
  <2>6. QED BY <2>2, <2>3, <2>4, <2>5
<1>4. CASE Unrenewed(p) \/ NetworkError(p)
  <2>1. PICK where \in {"idle", "clearing"} :
          Settle(p, where)
    BY <1>4 DEF Unrenewed, NetworkError
  <2>2. /\ pc' \in [Tasks -> Pc] /\ held' \in [Tasks -> 0 .. MaxToken]
        /\ inFlight' \in Tasks /\ retried' \subseteq Calls
        /\ inFlight' # NoFlight => pc'[inFlight'] \in Renewing
        /\ OneFlight'
        /\ \A q \in Tasks : pc'[q] \in {"writing", "storing"} => held'[q] \in accepted'
    <3>1. where \in {"idle", "reading", "clearing"} /\ where # "reading"
      OBVIOUS
    <3>2. QED BY <1>1, <1>2, <2>1, <3>1, SettledInv
  <2>3. /\ \A q \in Tasks : pc'[q] = where \/ (pc'[q] = pc[q] /\ held'[q] = held[q] /\ q # p)
        /\ \A q \in Tasks : pc[q] = "cleared" => pc'[q] = "cleared"
        /\ p = User => inFlight' = inFlight /\ \A c \in Calls : pc'[c] = pc[c]
    <3>1. where \in {"idle", "reading", "clearing"}
      OBVIOUS
    <3>2. QED BY <1>1, <2>1, <3>1, Settled
  <2>4. TypeOK'
    BY <1>1, <1>2, <2>2
  <2>5. p # User => status \notin {"unknown", "locked"}
    BY <1>1 DEF ScreensAreClosed
  <2>6. ScreensAreClosed'
    BY <1>1, <2>3, <2>5 DEF ScreensAreClosed
  <2>7. FreshTokens'
    BY <1>1, <2>2, <2>3, <2>5 DEF FreshTokens
  <2>8. SignedInHasSession'
    BY <1>1, <2>3 DEF SignedInHasSession, HasSession
  <2>9. QED BY <2>2, <2>4, <2>6, <2>7, <2>8
<1>5. QED BY <1>3, <1>4

(* What a renewal brings is stored, and a session that has ended is cleared. *)
LEMMA StoreInv ==
    ASSUME SessionInv, NEW p \in Tasks,
           WriteAccess(p) \/ WriteRefresh(p) \/ ClearAccess(p) \/ ClearRefresh(p)
    PROVE  SessionInv'
<1> USE UserAssumption DEF SessionInv, TypeOK, Tasks, providerVars, Renewing, Goto
<1>1. p # User /\ status \in {"unknown", "locked"} => pc[p] = "idle"
  BY DEF ScreensAreClosed
<1>2. pc[p] \in {"writing", "storing"} => held[p] # 0
  BY DEF FreshTokens, Tokens
<1>3. CASE WriteAccess(p)
  <2> USE <1>3 DEF WriteAccess
  <2>1. TypeOK'
    BY DEF Pc, Statuses
  <2>2. ScreensAreClosed' /\ OneFlight'
    BY DEF ScreensAreClosed, OneFlight
  <2>3. FreshTokens'
    BY <1>1 DEF FreshTokens
  <2>4. SignedInHasSession'
    BY <1>2 DEF SignedInHasSession, HasSession
  <2>5. QED BY <2>1, <2>2, <2>3, <2>4
<1>4. CASE WriteRefresh(p)
  <2> USE <1>4 DEF WriteRefresh
  <2>1. PICK where \in {"idle", "reading", "clearing"} :
          /\ Settle(p, where) /\ where # "clearing"
          /\ p = User => where # "reading"
    OBVIOUS
  <2>2. /\ pc' \in [Tasks -> Pc] /\ held' \in [Tasks -> 0 .. MaxToken]
        /\ inFlight' \in Tasks /\ retried' \subseteq Calls
        /\ inFlight' # NoFlight => pc'[inFlight'] \in Renewing
        /\ OneFlight'
        /\ \A q \in Tasks : pc'[q] \in {"writing", "storing"} => held'[q] \in accepted'
    BY <2>1, SettledInv
  <2>3. /\ pc'[p] = where
        /\ \A q \in Tasks : pc'[q] = where \/ (pc'[q] = pc[q] /\ held'[q] = held[q] /\ q # p)
        /\ p # User => pc'[User] = pc[User] /\ held'[User] = held[User]
        /\ p = User => inFlight' = inFlight /\ \A c \in Calls : pc'[c] = pc[c]
    BY <2>1, Settled
  <2>4. TypeOK'
    BY <2>2 DEF Statuses
  <2>5. ScreensAreClosed'
    BY <1>1, <2>1, <2>3 DEF ScreensAreClosed
  <2>6. FreshTokens'
    BY <1>1, <2>1, <2>2, <2>3 DEF FreshTokens
  <2>7. SignedInHasSession'
    BY <1>2 DEF SignedInHasSession, HasSession
  <2>8. QED BY <2>2, <2>4, <2>5, <2>6, <2>7
<1>5. CASE ClearAccess(p)
  <2> USE <1>5 DEF ClearAccess
  <2>1. TypeOK'
    BY DEF Pc, Statuses
  <2>2. ScreensAreClosed' /\ OneFlight'
    BY DEF ScreensAreClosed, OneFlight
  <2>3. FreshTokens'
    BY <1>1 DEF FreshTokens
  <2>4. SignedInHasSession'
    BY DEF SignedInHasSession
  <2>5. QED BY <2>1, <2>2, <2>3, <2>4
<1>6. CASE ClearRefresh(p)
  <2> USE <1>6 DEF ClearRefresh
  <2>1. TypeOK'
    BY DEF Pc, Statuses
  <2>2. ScreensAreClosed' /\ OneFlight'
    BY <1>1 DEF ScreensAreClosed, OneFlight
  <2>3. FreshTokens' /\ SignedInHasSession'
    BY DEF FreshTokens, SignedInHasSession
  <2>4. QED BY <2>1, <2>2, <2>3
<1>7. QED BY <1>3, <1>4, <1>5, <1>6

(* The calls of the screens. *)
LEMMA CallInv ==
    ASSUME SessionInv, NEW c \in Calls, StartCall(c) \/ CallStep(c)
    PROVE  SessionInv'
<1> USE UserAssumption DEF SessionInv, TypeOK, Tasks, providerVars, storeVars, Renewing, Goto
<1>1. status \notin {"unknown", "locked"}
  BY DEF ScreensAreClosed, StartCall, CallStep, Send, Answer, Unauthorized
<1>2. PICK where \in Pc, token \in 0 .. MaxToken :
        /\ pc' = [pc EXCEPT ![c] = where] /\ held' = [held EXCEPT ![c] = token]
        /\ pc[c] \in {"idle", "reading", "sent"}
        /\ where \notin {"writing", "storing", "refreshing", "cleared"}
        /\ where = "renewing" => inFlight' = c /\ inFlight = NoFlight
        /\ where # "renewing" => inFlight' = inFlight
        /\ where = "waiting" => inFlight # NoFlight
        /\ UNCHANGED told
        /\ retried' \subseteq Calls
        /\ UNCHANGED <<providerVars, storeVars, status>>
  <2>1. CASE StartCall(c)
    BY <2>1 DEF StartCall, Pc
  <2>2. CASE Send(c)
    BY <2>2 DEF Send, Pc
  <2>3. CASE Answer(c)
    <3>1. "idle" \in Pc /\ 0 \in 0 .. MaxToken
      BY DEF Pc
    <3>2. /\ pc' = [pc EXCEPT ![c] = "idle"] /\ held' = [held EXCEPT ![c] = 0]
          /\ pc[c] = "sent" /\ retried' \subseteq Calls
          /\ UNCHANGED <<inFlight, told, providerVars, storeVars, status>>
      BY <2>3 DEF Answer
    <3>3. QED BY <3>1, <3>2
  <2>4. CASE Unauthorized(c)
    <3>1. 0 \in 0 .. MaxToken
      OBVIOUS
    <3>2. PICK where \in {"renewing", "waiting", "clearing"} :
            /\ pc' = [pc EXCEPT ![c] = where]
            /\ where = "renewing" => inFlight' = c /\ inFlight = NoFlight
            /\ where # "renewing" => inFlight' = inFlight
            /\ where = "waiting" => inFlight # NoFlight
      BY <2>4 DEF Unauthorized, TryRefresh
    <3>3. /\ pc[c] = "sent" /\ held' = [held EXCEPT ![c] = 0]
          /\ UNCHANGED <<providerVars, storeVars, status, retried, told>>
      BY <2>4 DEF Unauthorized
    <3>4. where \in Pc
      BY DEF Pc
    <3>5. QED BY <3>1, <3>2, <3>3, <3>4
  <2>5. QED BY <2>1, <2>2, <2>3, <2>4 DEF CallStep
<1>3. TypeOK'
  BY <1>2
<1>4. ScreensAreClosed'
  BY <1>1, <1>2 DEF ScreensAreClosed
<1>5. OneFlight'
  BY <1>2 DEF OneFlight, NoFlight
<1>6. FreshTokens'
  BY <1>2 DEF FreshTokens
<1>7. SignedInHasSession'
  BY <1>2 DEF SignedInHasSession, HasSession
<1>8. QED BY <1>3, <1>4, <1>5, <1>6, <1>7

(* What the taxpayer does. *)
LEMMA UserInv ==
    ASSUME SessionInv,
           \/ RestoreSession \/ Login \/ LoginAnswer \/ Logout
           \/ UnlockWithBiometrics \/ EnableBiometrics \/ DisableBiometrics
    PROVE  SessionInv'
<1> USE UserAssumption DEF SessionInv, TypeOK, Tasks, Statuses, Pc, Renewing, Goto,
        providerVars, storeVars, taskVars
<1> USE DEF ScreensAreClosed, OneFlight, FreshTokens,
        SignedInHasSession, HasSession
<1>1. CASE RestoreSession
  <2>1. TypeOK'
    <3>1. lockOn' \in BOOLEAN /\ active' \in BOOLEAN
      BY <1>1 DEF RestoreSession
    <3>2. QED BY <1>1, <3>1 DEF RestoreSession
  <2>2. /\ status = "unknown" /\ pc[User] = "idle"
        /\ status' = "signedIn" => access # 0 \/ refresh # 0
        /\ UNCHANGED <<access, refresh, inFlight, pc, held, accepted>>
    BY <1>1 DEF RestoreSession
  <2>3. /\ ScreensAreClosed' /\ OneFlight' /\ FreshTokens'
        /\ SignedInHasSession'
    BY <1>1, <2>2 DEF RestoreSession
  <2>4. QED BY <2>1, <2>3
<1>2. CASE Login
  BY <1>2 DEF Login
<1>3. CASE LoginAnswer
  <2>1. \/ /\ issued' = issued + 1 /\ issued' \in 0 .. MaxToken /\ issued' \in Tokens
           /\ renewable' = renewable \cup {issued'}
           /\ accepted' = accepted \cup {issued'}
           /\ held' = [held EXCEPT ![User] = issued']
           /\ pc' = [pc EXCEPT ![User] = "writing"]
        \/ /\ pc' = [pc EXCEPT ![User] = "idle"]
           /\ UNCHANGED <<issued, renewable, accepted, held>>
    BY <1>3 DEF LoginAnswer, Tokens
  <2>2. /\ pc[User] = "signingIn"
        /\ UNCHANGED <<active, storeVars, status, inFlight, retried, told>>
    BY <1>3 DEF LoginAnswer
  <2>3. CASE issued' = issued + 1
    <3>1. /\ pc' = [pc EXCEPT ![User] = "writing"] /\ held' = [held EXCEPT ![User] = issued']
          /\ accepted' = accepted \cup {issued'} /\ renewable' = renewable \cup {issued'}
          /\ issued' \in 0 .. MaxToken /\ issued' \in Tokens
      BY <2>1, <2>3
    <3>2. TypeOK'
      BY <2>2, <3>1
    <3>3. FreshTokens'
      BY <2>2, <3>1
    <3>4. QED BY <2>2, <3>1, <3>2, <3>3
  <2>4. CASE pc' = [pc EXCEPT ![User] = "idle"] /\ UNCHANGED <<issued, renewable, accepted, held>>
    BY <2>2, <2>4
  <2>5. QED BY <2>1, <2>3, <2>4
<1>4. CASE Logout
  BY <1>4 DEF Logout
<1>5. CASE UnlockWithBiometrics
  BY <1>5 DEF UnlockWithBiometrics
<1>6. CASE EnableBiometrics
  BY <1>6 DEF EnableBiometrics
<1>7. CASE DisableBiometrics
  BY <1>7 DEF DisableBiometrics
<1>8. QED BY <1>1, <1>2, <1>3, <1>4, <1>5, <1>6, <1>7

(* What happens to the application and at the office. *)
LEMMA EnvironmentInv ==
    ASSUME SessionInv, Kill \/ Expire \/ Deactivate \/ UNCHANGED vars
    PROVE  SessionInv'
<1> USE UserAssumption DEF SessionInv, TypeOK, Tasks, Statuses, Pc, Renewing, NoFlight,
        providerVars, storeVars, taskVars
<1> USE DEF ScreensAreClosed, OneFlight, FreshTokens,
        SignedInHasSession, HasSession
<1>1. CASE Kill
  BY <1>1 DEF Kill
<1>2. CASE Expire
  BY <1>2 DEF Expire
<1>3. CASE Deactivate
  BY <1>3 DEF Deactivate
<1>4. CASE UNCHANGED vars
  BY <1>4 DEF vars
<1>5. QED BY <1>1, <1>2, <1>3, <1>4

LEMMA NextInv == SessionInv /\ [Next]_vars => SessionInv'
  BY RenewalInv, StoreInv, CallInv, UserInv, EnvironmentInv DEF Next, TaskStep

(* In every reachable state of the application SessionInv holds. *)
THEOREM SessionInvariant == Spec => []SessionInv
  BY InitInv, NextInv, PTL DEF Spec

-----------------------------------------------------------------------------
(* The variables always have their types, and a renewal in flight is run by *)
(* a call.                                                                  *)
THEOREM SessionTypes == Spec => []TypeOK
  BY SessionInvariant, PTL DEF SessionInv

(* No two requests take the same refresh token to the provider, whatever    *)
(* the number of calls that meet the 401.                                   *)
THEOREM OneRenewalAtATime == Spec => []RenewalsDoNotCollide
<1>1. SessionInv => RenewalsDoNotCollide
  BY UserAssumption
     DEF SessionInv, ScreensAreClosed, OneFlight, RenewalsDoNotCollide, Renewing, Tasks
<1>2. QED BY <1>1, SessionInvariant, PTL

(* No call waits for a renewal that has ended. *)
THEOREM NobodyWaitsInVain == Spec => []WaitersAreServed
<1>1. SessionInv => WaitersAreServed
  BY DEF SessionInv, OneFlight, TypeOK, WaitersAreServed
<1>2. QED BY <1>1, SessionInvariant, PTL

(* A signed-in taxpayer has a session, or is on the way out. *)
THEOREM ScreensHaveSession == Spec => []SignedInHasSession
  BY SessionInvariant, PTL DEF SessionInv

(* Why a session ends for a reason.  Tokens are numbered in the order they   *)
(* are issued,                                                              *)
Numbered ==
    /\ access <= issued /\ refresh <= issued
    /\ \A p \in Tasks : held[p] <= issued

(* the taxpayer signs in on the sign-in page only,                          *)
SignInPage ==
    /\ pc[User] = "signingIn" => status = "signedOut"
    /\ pc[User] \in {"writing", "storing"} => status # "signedIn"

(* and a call is sent again once.                                           *)
RetriedOnce == \A c \in retried : pc[c] \in {"reading", "sent", "clearing", "cleared"}

(* While nothing of the kind the code takes for the end of a session has    *)
(* befallen it,                                                             *)
Quiet == told = {} /\ active /\ status \in {"signedIn", "locked"}

(* and until the provider would not renew it, nor a call stores a pair,     *)
Void == refresh \notin renewable /\ \A c \in Calls : pc[c] \notin {"writing", "storing"}

(* nobody clears it: the token a renewal has sent is the one that is        *)
(* stored, and a call that is sent again carries a token the API takes.     *)
ClearsTheVoid ==
    Quiet =>
    /\ \A p \in Tasks : pc[p] \in {"clearing", "cleared"} => Void
    /\ \A p \in Tasks : pc[p] = "refreshing" => held[p] = refresh
    /\ \A c \in retried : pc[c] = "reading" => access \in accepted \/ Void
    /\ \A c \in retried : pc[c] = "sent" => held[c] \in accepted \/ Void
    /\ \A c \in Calls : pc[c] = "storing" => access \in accepted

EndInv == Numbered /\ SignInPage /\ RetriedOnce /\ ClearsTheVoid

(* The application starts signed out.                                       *)
LEMMA EndInit == Init => EndInv
  BY UserAssumption
     DEF Init, EndInv, Numbered, SignInPage, RetriedOnce, ClearsTheVoid, Quiet, Tasks

(* A renewal takes the stored token to the provider.                        *)
LEMMA EndReadToken ==
    ASSUME SessionInv, EndInv, NEW p \in Tasks, ReadRefreshToken(p)
    PROVE  EndInv'
<1> USE UserAssumption DEF SessionInv, TypeOK, Tasks, EndInv, Renewing
<1>1. /\ pc[p] = "renewing"
      /\ UNCHANGED <<issued, renewable, accepted, active, access, refresh, status, told>>
      /\ p = User => status = "locked"
  BY DEF ReadRefreshToken, providerVars, storeVars, ScreensAreClosed
<1>2. CASE refresh # 0 /\ held' = [held EXCEPT ![p] = refresh]
           /\ pc' = [pc EXCEPT ![p] = "refreshing"] /\ UNCHANGED retried
  <2>1. Numbered' /\ SignInPage' /\ RetriedOnce'
    BY <1>1, <1>2 DEF Numbered, SignInPage, RetriedOnce
  <2>2. Void => Void'
    BY <1>1, <1>2 DEF Void
  <2>3. ClearsTheVoid'
    BY <1>1, <1>2, <2>2 DEF ClearsTheVoid, Quiet
  <2>4. QED BY <2>1, <2>3
<1>3. CASE refresh = 0 /\ Unrenewed(p)
  <2>1. /\ pc' = [q \in Tasks |-> IF q \in Sharing(p) THEN "clearing" ELSE pc[q]]
        /\ held' = [q \in Tasks |-> IF q \in Sharing(p) THEN 0 ELSE held[q]]
        /\ UNCHANGED retried
    BY <1>3 DEF Unrenewed, Settle
  <2>2. \A q \in Sharing(p) : q \in Tasks /\ pc[q] \in {"renewing", "waiting"}
    BY <1>1 DEF Sharing
  <2>3. Numbered' /\ SignInPage' /\ RetriedOnce'
    BY <1>1, <2>1, <2>2 DEF Numbered, SignInPage, RetriedOnce
  <2>4. Void'
    BY <1>1, <1>3, <2>1, <2>2 DEF Void, Tokens, OneFlight, ScreensAreClosed
  <2>5. ClearsTheVoid'
    BY <1>1, <2>1, <2>2, <2>4 DEF ClearsTheVoid, Quiet
  <2>6. QED BY <2>3, <2>5
<1>4. QED BY <1>2, <1>3 DEF ReadRefreshToken, Goto

(* The provider and the API answer a renewal, or do not.                    *)
LEMMA EndRefresh ==
    ASSUME SessionInv, EndInv, NEW p \in Tasks, Refresh(p)
    PROVE  EndInv'
<1> USE UserAssumption DEF SessionInv, TypeOK, Tasks, EndInv, Renewing
<1>1. /\ pc[p] = "refreshing"
      /\ UNCHANGED <<active, access, refresh, status>>
      /\ p = User => status = "locked"
      /\ told \subseteq told'
  BY DEF Refresh, Renewed, NotRenewed, providerVars, storeVars, ScreensAreClosed
<1>2. Quiet' => Quiet
  BY <1>1 DEF Quiet
<1>3. /\ \A q \in Sharing(p) : q \in Tasks /\ pc[q] \in {"refreshing", "waiting"}
      /\ \A c \in Calls : pc[c] \notin {"writing", "storing"}
  BY <1>1 DEF Sharing, OneFlight, ScreensAreClosed
<1>4. \A q \in Tasks : pc[q] = "refreshing" => q = p
  BY <1>1 DEF OneFlight, ScreensAreClosed
<1>5. Quiet => held[p] = refresh
  BY <1>1 DEF ClearsTheVoid
<1>6. ASSUME NEW where \in {"idle", "clearing"}, Settle(p, where), issued' \in Nat, issued <= issued'
      PROVE  /\ pc' = [q \in Tasks |-> IF q \in Sharing(p) THEN where ELSE pc[q]]
             /\ held' = [q \in Tasks |-> IF q \in Sharing(p) THEN 0 ELSE held[q]]
             /\ UNCHANGED retried
             /\ Numbered' /\ SignInPage' /\ RetriedOnce'
  <2>1. /\ pc' = [q \in Tasks |-> IF q \in Sharing(p) THEN where ELSE pc[q]]
        /\ held' = [q \in Tasks |-> IF q \in Sharing(p) THEN 0 ELSE held[q]]
        /\ UNCHANGED retried
    BY <1>6 DEF Settle
  <2>2. Numbered'
    BY <1>1, <1>6, <2>1 DEF Numbered
  <2>3. SignInPage' /\ RetriedOnce'
    BY <1>1, <1>3, <2>1 DEF SignInPage, RetriedOnce
  <2>4. QED BY <2>1, <2>2, <2>3
<1>7. CASE Renewed(p)
  <2>1. /\ issued' = issued + 1 /\ accepted' = accepted \cup {issued'}
        /\ renewable' = (renewable \ {held[p]}) \cup {issued'}
        /\ held[p] \in renewable
    BY <1>7 DEF Renewed
  <2>2. ASSUME Quiet
        PROVE  /\ refresh \in renewable
               /\ \A q \in Tasks : pc[q] \notin {"clearing", "cleared"}
               /\ \A c \in retried : pc[c] = "reading" => access \in accepted
               /\ \A c \in retried : pc[c] = "sent" => held[c] \in accepted
    <3>1. refresh \in renewable
      BY <1>5, <2>1, <2>2
    <3>2. ~Void
      BY <3>1 DEF Void
    <3>3. QED BY <2>2, <3>1, <3>2 DEF ClearsTheVoid
  <2>3. CASE /\ held' = [held EXCEPT ![p] = issued']
             /\ pc' = [pc EXCEPT ![p] = "writing"] /\ UNCHANGED retried
    <3>1. Numbered'
      BY <1>1, <2>1, <2>3 DEF Numbered
    <3>2. SignInPage' /\ RetriedOnce'
      BY <1>1, <2>3 DEF SignInPage, RetriedOnce
    <3>3. ClearsTheVoid'
      BY <1>1, <1>2, <1>3, <1>4, <2>1, <2>2, <2>3 DEF ClearsTheVoid
    <3>4. QED BY <3>1, <3>2, <3>3
  <2>4. CASE NetworkError(p)
    <3>1. Settle(p, "idle")
      BY <2>4 DEF NetworkError
    <3>2. ClearsTheVoid'
      BY <1>1, <1>2, <1>3, <1>4, <1>6, <2>1, <2>2, <3>1 DEF ClearsTheVoid
    <3>3. QED BY <1>6, <2>1, <3>1, <3>2
  <2>5. CASE Unrenewed(p)
    <3>1. Settle(p, "clearing")
      BY <2>5 DEF Unrenewed
    <3>2. pc' = [q \in Tasks |-> IF q \in Sharing(p) THEN "clearing" ELSE pc[q]]
      BY <1>6, <2>1, <3>1
    <3>3. Quiet => refresh \notin renewable'
      BY <1>5, <2>1 DEF Numbered
    <3>4. Quiet => Void'
      BY <1>1, <1>3, <3>2, <3>3 DEF Void
    <3>5. ClearsTheVoid'
      BY <1>1, <1>2, <1>3, <1>4, <1>6, <2>1, <3>1, <3>4 DEF ClearsTheVoid
    <3>6. QED BY <1>6, <2>1, <3>1, <3>5
  <2>6. QED BY <1>7, <2>3, <2>4, <2>5 DEF Renewed, Goto
<1>8. CASE NotRenewed(p)
  <2>1. UNCHANGED <<issued, renewable, accepted>>
    BY <1>8 DEF NotRenewed, providerVars
  <2>2. CASE NetworkError(p)
    <3>1. Settle(p, "idle")
      BY <2>2 DEF NetworkError
    <3>2. pc' = [q \in Tasks |-> IF q \in Sharing(p) THEN "idle" ELSE pc[q]]
      BY <1>6, <2>1, <3>1
    <3>3. Void => Void'
      BY <1>1, <2>1, <3>2 DEF Void
    <3>4. ClearsTheVoid'
      BY <1>1, <1>2, <1>3, <1>4, <1>6, <2>1, <3>1, <3>3 DEF ClearsTheVoid
    <3>5. QED BY <1>6, <2>1, <3>1, <3>4
  <2>3. CASE Unrenewed(p) /\ (held[p] \notin renewable \/ told' # {})
    <3>1. Settle(p, "clearing")
      BY <2>3 DEF Unrenewed
    <3>2. pc' = [q \in Tasks |-> IF q \in Sharing(p) THEN "clearing" ELSE pc[q]]
      BY <1>6, <2>1, <3>1
    <3>3. Quiet' => refresh \notin renewable
      BY <1>2, <1>5, <2>3 DEF Quiet
    <3>4. Quiet' => Void'
      BY <1>1, <1>3, <2>1, <3>2, <3>3 DEF Void
    <3>5. ClearsTheVoid'
      BY <1>1, <1>2, <1>3, <1>4, <1>6, <2>1, <3>1, <3>4 DEF ClearsTheVoid
    <3>6. QED BY <1>6, <2>1, <3>1, <3>5
  <2>4. QED BY <1>8, <2>2, <2>3 DEF NotRenewed
<1>9. QED BY <1>7, <1>8 DEF Refresh

(* A pair is stored, or cleared.                                            *)
LEMMA EndWriteAccess ==
    ASSUME SessionInv, EndInv, NEW p \in Tasks, WriteAccess(p)
    PROVE  EndInv'
<1> USE UserAssumption DEF SessionInv, TypeOK, Tasks, EndInv, Renewing
<1>1. /\ pc[p] = "writing" /\ access' = held[p]
      /\ pc' = [pc EXCEPT ![p] = "storing"]
      /\ UNCHANGED <<issued, renewable, accepted, active, refresh, status, held, retried, told>>
  BY DEF WriteAccess, Goto, providerVars
<1>2. Numbered' /\ SignInPage' /\ RetriedOnce'
  BY <1>1 DEF Numbered, SignInPage, RetriedOnce
<1>3. held[p] \in accepted
  BY <1>1 DEF FreshTokens
<1>4. CASE p \in Calls
  <2>1. Quiet => \A q \in Tasks : pc[q] \notin {"clearing", "cleared"}
    BY <1>1, <1>4 DEF ClearsTheVoid, Void
  <2>2. Quiet => \A c \in retried : pc[c] = "sent" => held[c] \in accepted
    BY <1>1, <1>4 DEF ClearsTheVoid, Void
  <2>3. ClearsTheVoid'
    BY <1>1, <1>3, <1>4, <2>1, <2>2 DEF ClearsTheVoid, Quiet
  <2>4. QED BY <1>2, <2>3
<1>5. CASE p = User
  <2>1. Quiet => \A c \in Calls : pc[c] = "idle"
    BY <1>1, <1>5 DEF SignInPage, Quiet, ScreensAreClosed
  <2>2. ClearsTheVoid'
    BY <1>1, <1>5, <2>1 DEF ClearsTheVoid, Quiet
  <2>3. QED BY <1>2, <2>2
<1>6. QED BY <1>4, <1>5

LEMMA EndWriteRefresh ==
    ASSUME SessionInv, EndInv, NEW p \in Tasks, WriteRefresh(p)
    PROVE  EndInv'
<1> USE UserAssumption DEF SessionInv, TypeOK, Tasks, EndInv, Renewing
<1>1. /\ pc[p] = "storing" /\ refresh' = held[p]
      /\ UNCHANGED <<issued, renewable, accepted, active, access>>
  BY DEF WriteRefresh, providerVars
<1>2. CASE p \in Calls
  <2>1. Settle(p, "reading") /\ UNCHANGED <<status, told>>
    BY <1>2 DEF WriteRefresh
  <2>2. /\ pc' = [q \in Tasks |-> IF q \in Sharing(p) THEN "reading" ELSE pc[q]]
        /\ held' = [q \in Tasks |-> IF q \in Sharing(p) THEN 0 ELSE held[q]]
        /\ retried' = retried \cup (Sharing(p) \ {User})
    BY <2>1 DEF Settle
  <2>3. /\ \A q \in Sharing(p) : q \in Calls /\ pc[q] \in {"storing", "waiting"}
        /\ p \in Sharing(p)
    BY <1>1, <1>2 DEF Sharing
  <2>4. \A q \in Calls : pc[q] \in Renewing => q = p
    BY <1>1, <1>2 DEF OneFlight
  <2>5. Numbered' /\ SignInPage' /\ RetriedOnce'
    BY <1>1, <2>1, <2>2, <2>3 DEF Numbered, SignInPage, RetriedOnce
  <2>6. Quiet => /\ \A q \in Tasks : pc[q] \notin {"clearing", "cleared"}
                 /\ \A c \in retried : pc[c] = "sent" => held[c] \in accepted
                 /\ access \in accepted
    BY <1>1, <1>2 DEF ClearsTheVoid, Void
  <2>7. \A q \in Tasks : pc[q] # "refreshing" \/ ~Quiet
    BY <1>1, <1>2, <2>4 DEF ScreensAreClosed, Quiet
  <2>8. \A c \in Calls : pc'[c] # "storing"
    BY <2>2, <2>3, <2>4
  <2>9. ClearsTheVoid'
    BY <1>1, <2>1, <2>2, <2>3, <2>6, <2>7, <2>8 DEF ClearsTheVoid, Quiet
  <2>10. QED BY <2>5, <2>9
<1>3. CASE p = User
  <2>1. Settle(User, "idle") /\ Sharing(User) = {User}
    BY <1>3 DEF WriteRefresh, Sharing
  <2>2. /\ pc' = [q \in Tasks |-> IF q = User THEN "idle" ELSE pc[q]]
        /\ held' = [q \in Tasks |-> IF q = User THEN 0 ELSE held[q]]
        /\ UNCHANGED retried
    BY <2>1 DEF Settle
  <2>3. Numbered' /\ RetriedOnce'
    BY <1>1, <2>2 DEF Numbered, RetriedOnce
  <2>4. SignInPage'
    BY <2>2 DEF SignInPage
  <2>5. Quiet' => \A c \in Calls : pc[c] = "idle"
    BY <1>3 DEF WriteRefresh, Quiet
  <2>6. ClearsTheVoid'
    BY <2>2, <2>3, <2>5 DEF ClearsTheVoid, RetriedOnce
  <2>7. QED BY <2>3, <2>4, <2>6
<1>4. QED BY <1>2, <1>3

LEMMA EndClear ==
    ASSUME SessionInv, EndInv, NEW p \in Tasks, ClearAccess(p) \/ ClearRefresh(p)
    PROVE  EndInv'
<1> USE UserAssumption DEF SessionInv, TypeOK, Tasks, EndInv, Goto, providerVars
<1>1. CASE ClearAccess(p)
  <2>1. /\ pc[p] = "clearing" /\ access' = 0 /\ pc' = [pc EXCEPT ![p] = "cleared"]
        /\ UNCHANGED <<issued, renewable, accepted, active, refresh, status, held, retried, told>>
    BY <1>1 DEF ClearAccess
  <2>2. Numbered' /\ SignInPage' /\ RetriedOnce'
    BY <2>1 DEF Numbered, SignInPage, RetriedOnce
  <2>3. Quiet => Void
    BY <2>1 DEF ClearsTheVoid
  <2>4. Void => Void'
    BY <2>1 DEF Void
  <2>5. ClearsTheVoid'
    BY <2>1, <2>3, <2>4 DEF ClearsTheVoid, Quiet, Void
  <2>6. QED BY <2>2, <2>5
<1>2. CASE ClearRefresh(p)
  <2>1. /\ refresh' = 0 /\ status' = "signedOut" /\ pc' = [pc EXCEPT ![p] = "idle"]
        /\ retried' = retried \ {p} /\ UNCHANGED <<issued, access, held>>
    BY <1>2 DEF ClearRefresh
  <2>2. Numbered' /\ SignInPage' /\ RetriedOnce' /\ ClearsTheVoid'
    BY <2>1 DEF Numbered, SignInPage, RetriedOnce, ClearsTheVoid, Quiet
  <2>3. QED BY <2>2
<1>3. QED BY <1>1, <1>2

(* The calls of the screens.                                                *)
LEMMA EndCall ==
    ASSUME SessionInv, EndInv, NEW c \in Calls, StartCall(c) \/ CallStep(c)
    PROVE  EndInv'
<1> USE UserAssumption DEF SessionInv, TypeOK, Tasks, EndInv, Goto, providerVars, storeVars
<1>1. /\ UNCHANGED <<issued, renewable, accepted, active, access, refresh, status, told>>
      /\ pc[c] \in {"idle", "reading", "sent"}
  BY DEF StartCall, CallStep, Send, Answer, Unauthorized
<1>2. ASSUME NEW where \in {"idle", "reading", "sent", "clearing", "renewing", "waiting"},
             pc' = [pc EXCEPT ![c] = where]
      PROVE  /\ Void => Void'
             /\ SignInPage'
  BY <1>1, <1>2 DEF Void, SignInPage
<1>3. CASE StartCall(c)
  <2>1. /\ pc[c] = "idle" /\ pc' = [pc EXCEPT ![c] = "reading"] /\ UNCHANGED <<held, retried>>
    BY <1>3 DEF StartCall
  <2>2. c \notin retried
    BY <2>1 DEF RetriedOnce
  <2>3. Numbered' /\ RetriedOnce'
    BY <1>1, <2>1 DEF Numbered, RetriedOnce
  <2>4. ClearsTheVoid'
    BY <1>1, <1>2, <2>1, <2>2 DEF ClearsTheVoid, Quiet
  <2>5. QED BY <1>2, <2>1, <2>3, <2>4
<1>4. CASE Send(c)
  <2>1. /\ pc[c] = "reading" /\ pc' = [pc EXCEPT ![c] = "sent"]
        /\ held' = [held EXCEPT ![c] = access] /\ UNCHANGED retried
    BY <1>4 DEF Send
  <2>2. Numbered' /\ RetriedOnce'
    BY <1>1, <2>1 DEF Numbered, RetriedOnce
  <2>3. ClearsTheVoid'
    BY <1>1, <1>2, <2>1 DEF ClearsTheVoid, Quiet
  <2>4. QED BY <1>2, <2>1, <2>2, <2>3
<1>5. CASE Answer(c)
  <2>1. /\ pc[c] = "sent" /\ pc' = [pc EXCEPT ![c] = "idle"]
        /\ held' = [held EXCEPT ![c] = 0] /\ retried' = retried \ {c}
    BY <1>5 DEF Answer
  <2>2. Numbered' /\ RetriedOnce'
    BY <1>1, <2>1 DEF Numbered, RetriedOnce
  <2>3. ClearsTheVoid'
    BY <1>1, <1>2, <2>1 DEF ClearsTheVoid, Quiet
  <2>4. QED BY <1>2, <2>1, <2>2, <2>3
<1>6. CASE Unauthorized(c)
  <2>1. /\ pc[c] = "sent" /\ held' = [held EXCEPT ![c] = 0] /\ UNCHANGED retried
        /\ held[c] \notin accepted \/ ~active
    BY <1>6 DEF Unauthorized
  <2>2. PICK where \in {"clearing", "renewing", "waiting"} :
          /\ pc' = [pc EXCEPT ![c] = where]
          /\ c \in retried <=> where = "clearing"
    BY <1>6 DEF Unauthorized, TryRefresh
  <2>3. Numbered' /\ RetriedOnce'
    BY <1>1, <2>1, <2>2 DEF Numbered, RetriedOnce
  <2>4. where \in {"idle", "reading", "sent", "clearing", "renewing", "waiting"}
    OBVIOUS
  <2>5. Quiet /\ where = "clearing" => Void
    BY <2>1, <2>2 DEF ClearsTheVoid, Quiet
  <2>6. (Void => Void') /\ SignInPage'
    BY <1>2, <2>2, <2>4
  <2>7. ClearsTheVoid'
    BY <1>1, <2>1, <2>2, <2>5, <2>6 DEF ClearsTheVoid, Quiet
  <2>8. QED BY <2>3, <2>6, <2>7
<1>7. QED BY <1>3, <1>4, <1>5, <1>6 DEF CallStep

(* What the taxpayer does, and what happens to the application and at the   *)
(* office.                                                                  *)
LEMMA EndOthers ==
    ASSUME SessionInv, EndInv,
           \/ RestoreSession \/ Login \/ LoginAnswer \/ Logout
           \/ UnlockWithBiometrics \/ EnableBiometrics \/ DisableBiometrics
           \/ Kill \/ Expire \/ Deactivate \/ UNCHANGED vars
    PROVE  EndInv'
<1> USE UserAssumption DEF SessionInv, TypeOK, Tasks, EndInv, Goto, providerVars, storeVars, taskVars
<1>1. CASE RestoreSession
  <2>1. status = "unknown" /\ UNCHANGED <<issued, access, refresh, pc, held, retried>>
    BY <1>1 DEF RestoreSession
  <2>2. \A p \in Tasks : pc[p] = "idle"
    BY <2>1 DEF ScreensAreClosed
  <2>3. QED BY <2>1, <2>2 DEF Numbered, SignInPage, RetriedOnce, ClearsTheVoid
<1>2. CASE Login
  <2>1. /\ pc' = [pc EXCEPT ![User] = "signingIn"] /\ status = "signedOut"
        /\ UNCHANGED <<issued, access, refresh, status, held, retried>>
    BY <1>2 DEF Login
  <2>2. QED BY <2>1 DEF Numbered, SignInPage, RetriedOnce, ClearsTheVoid, Quiet
<1>3. CASE LoginAnswer
  <2>1. status = "signedOut" /\ UNCHANGED <<access, refresh, status, retried>>
    BY <1>3 DEF LoginAnswer, SignInPage
  <2>2. /\ issued' \in Nat /\ issued <= issued'
        /\ \A p \in Tasks : held'[p] = held[p] \/ held'[p] = issued'
    BY <1>3 DEF LoginAnswer
  <2>3. \A c \in Calls : pc'[c] = pc[c]
    BY <1>3 DEF LoginAnswer
  <2>4. pc'[User] # "signingIn"
    BY <1>3 DEF LoginAnswer
  <2>5. Numbered'
    BY <2>1, <2>2 DEF Numbered
  <2>6. SignInPage' /\ RetriedOnce' /\ ClearsTheVoid'
    BY <2>1, <2>3, <2>4 DEF SignInPage, RetriedOnce, ClearsTheVoid, Quiet
  <2>7. QED BY <2>5, <2>6
<1>4. CASE Logout
  <2>1. /\ told' # {} /\ pc' = [pc EXCEPT ![User] = "clearing"]
        /\ UNCHANGED <<issued, access, refresh, status, held, retried>>
    BY <1>4 DEF Logout
  <2>2. QED BY <2>1 DEF Numbered, SignInPage, RetriedOnce, ClearsTheVoid, Quiet
<1>5. CASE UnlockWithBiometrics
  <2>1. /\ pc[User] = "idle" /\ status = "locked"
        /\ pc' = [pc EXCEPT ![User] = "renewing"] \/ pc' = pc
        /\ UNCHANGED <<issued, renewable, accepted, active, access, refresh, held, retried, told>>
    BY <1>5 DEF UnlockWithBiometrics
  <2>2. (Void => Void') /\ (Quiet' => Quiet)
    BY <2>1 DEF Void, Quiet
  <2>3. QED BY <2>1, <2>2 DEF Numbered, SignInPage, RetriedOnce, ClearsTheVoid
<1>6. CASE EnableBiometrics \/ DisableBiometrics \/ UNCHANGED vars
  <2>1. UNCHANGED <<issued, renewable, accepted, active, access, refresh, status, pc, held,
                    retried, told>>
    BY <1>6 DEF EnableBiometrics, DisableBiometrics, vars
  <2>2. QED BY <2>1 DEF Numbered, SignInPage, RetriedOnce, ClearsTheVoid, Quiet, Void
<1>7. CASE Kill
  <2>1. /\ pc' = [p \in Tasks |-> "idle"] /\ held' = [p \in Tasks |-> 0] /\ retried' = {}
        /\ status' = "unknown" /\ UNCHANGED <<issued, access, refresh>>
    BY <1>7 DEF Kill
  <2>2. QED BY <2>1 DEF Numbered, SignInPage, RetriedOnce, ClearsTheVoid, Quiet
<1>8. CASE Expire
  <2>1. /\ retried = {} /\ \A p \in Tasks : pc[p] # "storing"
        /\ UNCHANGED <<issued, renewable, active, access, refresh, status, pc, held, retried, told>>
    BY <1>8 DEF Expire
  <2>2. QED BY <2>1 DEF Numbered, SignInPage, RetriedOnce, ClearsTheVoid, Quiet, Void
<1>9. CASE Deactivate
  <2>1. ~active' /\ UNCHANGED <<issued, access, refresh, status, pc, held, retried>>
    BY <1>9 DEF Deactivate
  <2>2. QED BY <2>1 DEF Numbered, SignInPage, RetriedOnce, ClearsTheVoid, Quiet
<1>10. QED BY <1>1, <1>2, <1>3, <1>4, <1>5, <1>6, <1>7, <1>8, <1>9

(* The taxpayer goes to the sign-in page by a logout, with an inactive      *)
(* account, with a session the provider would not renew, or in one of the   *)
(* two cases the ghost names: never with a session it would renew.          *)
THEOREM SessionsEndWithAReason == Spec => SessionsEndForAReason
<1>1. SessionInv /\ EndInv /\ [Next]_vars => EndInv'
  BY EndReadToken, EndRefresh, EndWriteAccess, EndWriteRefresh, EndClear, EndCall, EndOthers
     DEF Next, TaskStep
<1>2. ASSUME SessionInv, EndInv, [Next]_vars,
             status' = "signedOut", status \in {"signedIn", "locked"}
      PROVE  told # {} \/ ~active \/ refresh \notin renewable
  <2>1. PICK p \in Tasks : ClearRefresh(p)
    BY <1>2
       DEF Next, TaskStep, CallStep, ReadRefreshToken, Refresh, WriteAccess, WriteRefresh,
           ClearAccess, StartCall, Send, Answer, Unauthorized, RestoreSession, Login,
           LoginAnswer, Logout, UnlockWithBiometrics, EnableBiometrics, DisableBiometrics,
           Kill, Expire, Deactivate, vars
  <2>2. pc[p] = "cleared"
    BY <2>1 DEF ClearRefresh
  <2>3. Quiet => Void
    BY <1>2, <2>2 DEF EndInv, ClearsTheVoid
  <2>4. QED BY <1>2, <2>3 DEF Quiet, Void
<1>3. QED BY EndInit, <1>1, <1>2, SessionInvariant, PTL DEF Spec, SessionsEndForAReason

(* A fingerprint opens the account on a pair that has just been issued, or  *)
(* on a device that has none to renew.                                      *)
THEOREM UnlockedSessionWorks == Spec => UnlockOpensLiveSession
<1>1. ASSUME SessionInv, [Next]_vars, status = "locked", status' = "signedIn"
      PROVE  access' \in accepted' \/ refresh' = 0
  <2> USE UserAssumption DEF Tasks
  <2>1. UnlockWithBiometrics \/ \E p \in Tasks : WriteRefresh(p)
    BY <1>1
       DEF Next, TaskStep, CallStep, ReadRefreshToken, Refresh, WriteAccess, ClearAccess,
           ClearRefresh, StartCall, Send, Answer, Unauthorized, RestoreSession, Login,
           LoginAnswer, Logout, EnableBiometrics, DisableBiometrics, Kill, Expire,
           Deactivate, vars
  <2>2. CASE UnlockWithBiometrics
    BY <1>1, <2>2 DEF UnlockWithBiometrics, storeVars
  <2>3. CASE \E p \in Tasks : WriteRefresh(p)
    <3>1. PICK p \in Tasks : WriteRefresh(p)
      BY <2>3
    <3>2. p = User
      BY <1>1, <3>1 DEF SessionInv, ScreensAreClosed, WriteRefresh
    <3>3. pc[User] = "storing" /\ access' = access /\ accepted' = accepted
      BY <3>1, <3>2 DEF WriteRefresh, providerVars
    <3>4. access = held[User] /\ held[User] \in accepted
      BY <1>1, <3>3 DEF SessionInv, FreshTokens
    <3>5. QED BY <3>3, <3>4
  <2>4. QED BY <2>1, <2>2, <2>3
<1>2. QED BY <1>1, SessionInvariant, PTL DEF Spec, UnlockOpensLiveSession

-----------------------------------------------------------------------------
(* What a sign-out leaves while no token is stored beside it: between its   *)
(* two deletes there is no access token, and after them there is nothing.   *)
NothingKept ==
    /\ status = "signedOut" /\ pc[User] # "storing" => access = 0 /\ refresh = 0
    /\ \A p \in Tasks : pc[p] = "cleared" => access = 0

(* A step that leaves the store and the page, and neither reaches the       *)
(* second delete nor ends a sign-in.                                        *)
LEMMA NothingKeptFrame ==
    ASSUME NothingKept, UNCHANGED <<access, refresh>>, status' \in {status, "signedIn", "locked"},
           \A p \in Tasks : pc'[p] = "cleared" => pc[p] = "cleared",
           pc[User] = "storing" => pc'[User] = "storing"
    PROVE  NothingKept'
BY DEF NothingKept

(* The steps of a renewal before its tokens are stored. *)
LEMMA RenewalKeepsNothing ==
    ASSUME SessionInv, NothingKept, NEW p \in Tasks, ReadRefreshToken(p) \/ Refresh(p)
    PROVE  NothingKept'
<1> USE UserAssumption DEF Tasks
<1>1. pc \in [Tasks -> Pc] /\ pc[p] \in {"renewing", "refreshing"}
  BY DEF SessionInv, TypeOK, ReadRefreshToken, Refresh
<1>2. UNCHANGED <<access, refresh, status>>
  BY DEF ReadRefreshToken, Refresh, storeVars
<1>3. \/ \E where \in {"refreshing", "writing"} : pc' = [pc EXCEPT ![p] = where]
      \/ \E where \in {"idle", "clearing"} :
            pc' = [q \in Tasks |-> IF q \in Sharing(p) THEN where ELSE pc[q]]
  BY DEF ReadRefreshToken, Refresh, Renewed, NotRenewed, Unrenewed, NetworkError, Settle, Goto
<1>4. CASE \E where \in {"refreshing", "writing"} : pc' = [pc EXCEPT ![p] = where]
  BY <1>1, <1>2, <1>4, NothingKeptFrame
<1>5. CASE \E where \in {"idle", "clearing"} :
              pc' = [q \in Tasks |-> IF q \in Sharing(p) THEN where ELSE pc[q]]
  <2>1. User \in Sharing(p) => p = User
    BY DEF Sharing
  <2>2. QED BY <1>1, <1>2, <1>5, <2>1, NothingKeptFrame
<1>6. QED BY <1>3, <1>4, <1>5

(* The store is written and cleared. *)
LEMMA StoreKeepsNothing ==
    ASSUME SessionInv, NothingKept, SignOutsApart, SignInsFinish, NEW p \in Tasks,
           WriteAccess(p) \/ WriteRefresh(p) \/ ClearAccess(p) \/ ClearRefresh(p)
    PROVE  NothingKept'
<1> USE UserAssumption DEF Tasks, NothingKept
<1>1. pc \in [Tasks -> Pc]
  BY DEF SessionInv, TypeOK
<1>2. CASE WriteAccess(p)
  <2>1. pc' = [pc EXCEPT ![p] = "storing"] /\ pc[p] = "writing" /\ UNCHANGED <<refresh, status>>
    BY <1>2 DEF WriteAccess, Goto
  <2>2. \A q \in Tasks : pc'[q] # "cleared"
    BY <1>1, <2>1 DEF SignOutsApart
  <2>3. status = "signedOut" => p = User
    BY <2>1 DEF SignOutsApart
  <2>4. QED BY <1>1, <2>1, <2>2, <2>3
<1>3. CASE WriteRefresh(p)
  <2>1. access' = access /\ pc[p] = "storing"
    BY <1>3 DEF WriteRefresh
  <2>2. \A q \in Tasks : pc'[q] = "cleared" => pc[q] = "cleared"
    BY <1>1, <1>3 DEF WriteRefresh, Settle
  <2>3. status' # "signedOut"
    <3>1. CASE p = User
      <4>1. pc'[User] = "idle"
        BY <1>3, <3>1 DEF WriteRefresh, Settle, Sharing
      <4>2. QED BY <2>1, <3>1, <4>1 DEF SignInsFinish
    <3>2. CASE p # User
      BY <1>3, <2>1, <3>2 DEF SignOutsApart, WriteRefresh
    <3>3. QED BY <3>1, <3>2
  <2>4. QED BY <2>1, <2>2, <2>3
<1>4. CASE ClearAccess(p)
  BY <1>1, <1>4 DEF ClearAccess, Goto
<1>5. CASE ClearRefresh(p)
  BY <1>1, <1>5 DEF ClearRefresh, Goto
<1>6. QED BY <1>2, <1>3, <1>4, <1>5

(* The calls, the taxpayer and the environment. *)
LEMMA OthersKeepNothing ==
    ASSUME SessionInv, NothingKept,
           \/ \E c \in Calls : StartCall(c) \/ CallStep(c)
           \/ RestoreSession \/ Login \/ LoginAnswer \/ Logout
           \/ UnlockWithBiometrics \/ EnableBiometrics \/ DisableBiometrics
           \/ Kill \/ Expire \/ Deactivate \/ UNCHANGED vars
    PROVE  NothingKept'
<1> USE UserAssumption DEF Tasks, storeVars, taskVars
<1>1. pc \in [Tasks -> Pc]
  BY DEF SessionInv, TypeOK
<1>2. CASE \E c \in Calls : StartCall(c) \/ CallStep(c)
  BY <1>1, <1>2, NothingKeptFrame
     DEF StartCall, CallStep, Send, Answer, Unauthorized, TryRefresh, Goto
<1>3. CASE RestoreSession
  BY <1>3 DEF RestoreSession, HasSession, NothingKept
<1>4. CASE Login \/ LoginAnswer \/ Logout
  BY <1>1, <1>4, NothingKeptFrame DEF Login, LoginAnswer, Logout, Goto
<1>5. CASE UnlockWithBiometrics
  BY <1>1, <1>5, NothingKeptFrame DEF UnlockWithBiometrics, Goto
<1>6. CASE EnableBiometrics \/ DisableBiometrics \/ Expire \/ Deactivate
  BY <1>6, NothingKeptFrame DEF EnableBiometrics, DisableBiometrics, Expire, Deactivate
<1>7. CASE Kill
  BY <1>7 DEF Kill, NothingKept
<1>8. CASE UNCHANGED vars
  BY <1>8, NothingKeptFrame DEF vars
<1>9. QED BY <1>2, <1>3, <1>4, <1>5, <1>6, <1>7, <1>8

(* A session stays behind the sign-in page only where a token was stored    *)
(* beside or after a sign-out, or what follows a sign-in failed.            *)
THEOREM NothingElseStaysBehind == Spec => OnlyTheseStayBehind
<1>1. Init => NothingKept
  BY DEF Init, NothingKept
<1>2. SessionInv /\ NothingKept /\ SignOutsApart /\ [SignInsFinish]_vars /\ [Next]_vars
          => NothingKept'
  <2>1. SUFFICES ASSUME SessionInv, NothingKept, SignOutsApart, [SignInsFinish]_vars, [Next]_vars
                 PROVE  NothingKept'
    OBVIOUS
  <2>2. CASE UNCHANGED vars
    BY <2>1, <2>2, OthersKeepNothing
  <2>3. CASE SignInsFinish /\ Next
    BY <2>1, <2>3, RenewalKeepsNothing, StoreKeepsNothing, OthersKeepNothing DEF Next, TaskStep
  <2>4. QED BY <2>1, <2>2, <2>3
<1>3. NothingKept => SignedOutHasNothing
  BY DEF NothingKept, SignedOutHasNothing, HasSession
<1>4. QED BY <1>1, <1>2, <1>3, SessionInvariant, PTL DEF Spec, OnlyTheseStayBehind
=============================================================================

------------------------------ MODULE AuthSession ------------------------------
(***************************************************************************)
(* Login sessions.  A session is a key in Redis; an access token is a JWT  *)
(* with its own key, a refresh token an opaque string with its own key,    *)
(* and both keys name the session.  A refresh consumes the refresh token   *)
(* and issues a new pair; a logout consumes it and deletes the session;    *)
(* the gateway validates the access token of every request.                *)
(*                                                                         *)
(* Every call to Redis or to the database is a step, so requests of two    *)
(* browser tabs interleave at each of them.  The n-th pair of tokens has   *)
(* the number n, and a session the number of its first pair.  Signatures   *)
(* and passwords are taken to be right: a wrong one changes nothing.       *)
(***************************************************************************)
EXTENDS SystemDirectory

CONSTANTS
    Calls,          \* requests in flight
    MaxTokens,      \* bound on the pairs of tokens issued
    MaxAuthFaults,  \* bound on failed calls, lost answers and dead requests
    NoUser

ASSUME AuthAssumption ==
    /\ MaxTokens \in Nat
    /\ MaxAuthFaults \in Nat
    /\ NoUser \notin Users

VARIABLES
    session,        \* auth:session:*, the user of a session
    access,         \* auth:access:*, the session of an access token
    refresh,        \* auth:refresh:*, the session of a refresh token
    pair,           \* pairs a client was given, with the session in the claims
    expired,        \* sessions whose ExpiresAt has passed
    revoked,        \* sessions a logout has deleted
    signed,         \* pairs of tokens so far
    call,           \* the requests
    authFaults

authVars == <<session, access, refresh, pair, expired, revoked, signed, call,
              authFaults>>

Tokens == 1..MaxTokens
NoToken == 0

(* began and gone are ghosts of a validation: the edits when it began, and *)
(* its session if that had been logged out by then.                        *)
Call == [pc : {"idle", "session", "user", "roles", "setSession", "setAccess",
               "setRefresh", "revoke", "passed"},
         op : {"none", "login", "refresh", "logout", "validate"},
         user : Users \cup {NoUser}, session : 0..MaxTokens,
         token : 0..MaxTokens, began : 0..MaxEdits, gone : SUBSET Tokens]

NoCall == [pc |-> "idle", op |-> "none", user |-> NoUser, session |-> NoToken,
           token |-> NoToken, began |-> 0, gone |-> {}]

CallAt(c, pc) == call[c].pc = pc
CallGoes(c, r) == call' = [call EXCEPT ![c] = r]

AuthFault ==
    /\ authFaults < MaxAuthFaults
    /\ authFaults' = authFaults + 1

keys == <<session, access, refresh>>
notes == <<pair, expired, revoked, signed>>

-----------------------------------------------------------------------------
(* Requests arrive.                                                        *)

(* Login: the user is found, enabled, and has given the right password.    *)
Login(c, u) ==
    /\ serving
    /\ CallAt(c, "idle")
    /\ user[u] = "enabled"
    /\ CallGoes(c, [NoCall EXCEPT !.pc = "roles", !.op = "login", !.user = u])
    /\ UNCHANGED <<keys, notes, authFaults>>

(* Mutant of Consumed: GET instead of GETDEL.                              *)
ConsumedByGet(t) == refresh

(* ConsumeRefreshSessionID, one GETDEL.                                    *)
Consumed(t) == [refresh EXCEPT ![t] = NoToken]

RefreshToken(c, t) ==
    /\ serving
    /\ CallAt(c, "idle")
    /\ pair[t] # NoToken
    /\ refresh[t] # NoToken
    /\ refresh' = Consumed(t)
    /\ CallGoes(c, [NoCall EXCEPT !.pc = "session", !.op = "refresh",
                                  !.session = refresh[t]])
    /\ UNCHANGED <<session, access, notes, authFaults>>

(* A logout whose refresh token is unknown answers as if it had succeeded, *)
(* and leaves the session as it is.                                        *)
Logout(c, t) ==
    /\ serving
    /\ CallAt(c, "idle")
    /\ pair[t] # NoToken
    /\ refresh[t] # NoToken
    /\ refresh' = Consumed(t)
    /\ CallGoes(c, [NoCall EXCEPT !.pc = "revoke", !.op = "logout",
                                  !.session = refresh[t]])
    /\ UNCHANGED <<session, access, notes, authFaults>>

(* The answer of GETDEL is lost: the refresh or logout fails, the token is *)
(* gone.                                                                   *)
ConsumeLost(t) ==
    /\ serving
    /\ pair[t] # NoToken
    /\ refresh[t] # NoToken
    /\ AuthFault
    /\ refresh' = Consumed(t)
    /\ UNCHANGED <<session, access, notes, call>>

(* ValidateToken up to the comparison of the claims' session with the key. *)
ValidateToken(c, t) ==
    /\ serving
    /\ CallAt(c, "idle")
    /\ pair[t] # NoToken
    /\ access[t] = pair[t]
    /\ CallGoes(c, [NoCall EXCEPT !.pc = "session", !.op = "validate",
                                  !.session = access[t], !.token = t,
                                  !.began = edits,
                                  !.gone = revoked \cap {pair[t]}])
    /\ UNCHANGED <<keys, notes, authFaults>>

-----------------------------------------------------------------------------
(* The checks that refresh and validation share.                           *)

GetSession(c) ==
    /\ CallAt(c, "session")
    /\ session[call[c].session] # NoUser
    /\ CallGoes(c, [call[c] EXCEPT !.pc = "user",
                                   !.user = session[call[c].session]])
    /\ UNCHANGED <<keys, notes, authFaults>>

GetUser(c) ==
    /\ CallAt(c, "user")
    /\ user[call[c].user] = "enabled"
    /\ CallGoes(c, [call[c] EXCEPT !.pc = "roles"])
    /\ UNCHANGED <<keys, notes, authFaults>>

(* The session is gone, the user is not enabled or has no enabled role.    *)
Refuse(c) ==
    /\ \/ CallAt(c, "session") /\ session[call[c].session] = NoUser
       \/ CallAt(c, "user") /\ user[call[c].user] # "enabled"
       \/ CallAt(c, "roles") /\ ~ HasEnabledRole(call[c].user)
       \/ CallAt(c, "roles") /\ call[c].op = "refresh" /\ call[c].session \in expired
    /\ CallGoes(c, NoCall)
    /\ UNCHANGED <<keys, notes, authFaults>>

(* The gateway lets the request through as this user.                      *)
Pass(c) ==
    /\ CallAt(c, "roles")
    /\ call[c].op = "validate"
    /\ HasEnabledRole(call[c].user)
    /\ CallGoes(c, [call[c] EXCEPT !.pc = "passed"])
    /\ UNCHANGED <<keys, notes, authFaults>>

Served(c) ==
    /\ CallAt(c, "passed")
    /\ CallGoes(c, NoCall)
    /\ UNCHANGED <<keys, notes, authFaults>>

-----------------------------------------------------------------------------
(* Issuing tokens.                                                         *)

(* issueNewSessionTokens, up to CreateSession.                             *)
NewSession(c) ==
    /\ CallAt(c, "roles")
    /\ call[c].op = "login"
    /\ HasEnabledRole(call[c].user)
    /\ signed < MaxTokens
    /\ signed' = signed + 1
    /\ CallGoes(c, [call[c] EXCEPT !.pc = "setSession", !.session = signed + 1,
                                   !.token = signed + 1])
    /\ UNCHANGED <<keys, pair, expired, revoked, authFaults>>

(* issueRotatedTokens, up to SaveRotatedTokens.                            *)
Rotate(c) ==
    /\ CallAt(c, "roles")
    /\ call[c].op = "refresh"
    /\ HasEnabledRole(call[c].user)
    /\ call[c].session \notin expired
    /\ signed < MaxTokens
    /\ signed' = signed + 1
    /\ CallGoes(c, [call[c] EXCEPT !.pc = "setAccess", !.token = signed + 1])
    /\ UNCHANGED <<keys, pair, expired, revoked, authFaults>>

SetSession(c) ==
    /\ CallAt(c, "setSession")
    /\ session' = [session EXCEPT ![call[c].session] = call[c].user]
    /\ CallGoes(c, [call[c] EXCEPT !.pc = "setAccess"])
    /\ UNCHANGED <<access, refresh, notes, authFaults>>

SetAccess(c) ==
    /\ CallAt(c, "setAccess")
    /\ access' = [access EXCEPT ![call[c].token] = call[c].session]
    /\ CallGoes(c, [call[c] EXCEPT !.pc = "setRefresh"])
    /\ UNCHANGED <<session, refresh, notes, authFaults>>

(* The last key is written, and the client is given the pair.              *)
SetRefresh(c) ==
    /\ CallAt(c, "setRefresh")
    /\ refresh' = [refresh EXCEPT ![call[c].token] = call[c].session]
    /\ pair' = [pair EXCEPT ![call[c].token] = call[c].session]
    /\ CallGoes(c, NoCall)
    /\ UNCHANGED <<session, access, expired, revoked, signed, authFaults>>

(* A SET fails, after it was applied or not.  The keys written before it   *)
(* are deleted, if that succeeds: by a login the session and the access    *)
(* key, by a refresh the access key.                                       *)
SetFails(c, applied, undone) ==
    LET s == call[c].session
        t == call[c].token
        pc == call[c].pc
    IN /\ pc \in {"setSession", "setAccess", "setRefresh"}
       /\ AuthFault
       /\ session' = IF pc = "setSession"
                     THEN IF applied THEN [session EXCEPT ![s] = call[c].user]
                          ELSE session
                     ELSE IF undone /\ call[c].op = "login"
                          THEN [session EXCEPT ![s] = NoUser] ELSE session
       /\ access' = CASE pc = "setAccess" /\ applied -> [access EXCEPT ![t] = s]
                      [] pc = "setRefresh" /\ undone -> [access EXCEPT ![t] = NoToken]
                      [] OTHER -> access
       /\ refresh' = IF pc = "setRefresh" /\ applied
                     THEN [refresh EXCEPT ![t] = s] ELSE refresh
       /\ CallGoes(c, NoCall)
       /\ UNCHANGED notes

(* Mutant of RevokeSession: a logout only forgets the refresh token.       *)
RevokeSessionKept(c) ==
    /\ CallAt(c, "revoke")
    /\ revoked' = revoked \cup {call[c].session}
    /\ CallGoes(c, NoCall)
    /\ UNCHANGED <<session, access, refresh, pair, expired, signed, authFaults>>

RevokeSession(c) ==
    /\ CallAt(c, "revoke")
    /\ session' = [session EXCEPT ![call[c].session] = NoUser]
    /\ revoked' = revoked \cup {call[c].session}
    /\ CallGoes(c, NoCall)
    /\ UNCHANGED <<access, refresh, pair, expired, signed, authFaults>>

(* A read fails, DEL fails, or the request is given up or its process dies. *)
CallDies(c) ==
    /\ call[c].pc \notin {"idle", "passed"}
    /\ AuthFault
    /\ CallGoes(c, NoCall)
    /\ UNCHANGED <<keys, notes>>

-----------------------------------------------------------------------------
(* Times to live.  Access tokens live no longer than their session, and a  *)
(* refresh key is written after its session's, for as long.                *)

SessionExpires(s) ==
    /\ s <= signed
    /\ s \notin expired
    /\ session[s] # NoUser
    /\ expired' = expired \cup {s}
    /\ session' = [session EXCEPT ![s] = NoUser]
    /\ UNCHANGED <<access, refresh, pair, revoked, signed, call, authFaults>>

AccessExpires(t) ==
    /\ access[t] # NoToken
    /\ access' = [access EXCEPT ![t] = NoToken]
    /\ UNCHANGED <<session, refresh, notes, call, authFaults>>

RefreshExpires(t) ==
    /\ refresh[t] # NoToken
    /\ session[refresh[t]] = NoUser
    /\ refresh' = [refresh EXCEPT ![t] = NoToken]
    /\ UNCHANGED <<session, access, notes, call, authFaults>>

-----------------------------------------------------------------------------
(* A restart of the service ends the requests; the keys stay in Redis.     *)
AuthRestarts ==
    /\ call' = [c \in Calls |-> NoCall]
    /\ UNCHANGED <<keys, notes, authFaults>>

AuthInit ==
    /\ session = [s \in Tokens |-> NoUser]
    /\ access = [t \in Tokens |-> NoToken]
    /\ refresh = [t \in Tokens |-> NoToken]
    /\ pair = [t \in Tokens |-> NoToken]
    /\ expired = {}
    /\ revoked = {}
    /\ signed = 0
    /\ call = [c \in Calls |-> NoCall]
    /\ authFaults \in 0..MaxAuthFaults

AuthStep ==
    \/ \E c \in Calls :
           \/ \E u \in Users : Login(c, u)
           \/ \E t \in Tokens :
                  RefreshToken(c, t) \/ Logout(c, t) \/ ValidateToken(c, t)
           \/ GetSession(c) \/ GetUser(c) \/ Refuse(c) \/ Pass(c) \/ Served(c)
           \/ NewSession(c) \/ Rotate(c)
           \/ SetSession(c) \/ SetAccess(c) \/ SetRefresh(c)
           \/ \E applied, undone \in BOOLEAN : SetFails(c, applied, undone)
           \/ RevokeSession(c) \/ CallDies(c)
    \/ \E t \in Tokens :
           ConsumeLost(t) \/ SessionExpires(t) \/ AccessExpires(t) \/ RefreshExpires(t)

(* Requests, edits of users and roles, and restarts.                       *)
AuthNext ==
    \/ AuthStep /\ UNCHANGED directoryVars
    \/ (UserEdits \/ RoleEdits) /\ UNCHANGED authVars
    \/ Seed /\ AuthRestarts

AuthSpec == DirectoryInit /\ AuthInit /\ [][AuthNext]_<<directoryVars, authVars>>

-----------------------------------------------------------------------------
AuthTypeOK ==
    /\ session \in [Tokens -> Users \cup {NoUser}]
    /\ access \in [Tokens -> 0..MaxTokens]
    /\ refresh \in [Tokens -> 0..MaxTokens]
    /\ pair \in [Tokens -> 0..MaxTokens]
    /\ expired \subseteq Tokens
    /\ revoked \subseteq Tokens
    /\ signed \in 0..MaxTokens
    /\ call \in [Calls -> Call]
    /\ authFaults \in 0..MaxAuthFaults

(* Requests that may still extend the session, or are ending it.           *)
Renews(c) == call[c].op \in {"login", "refresh", "logout"} /\ call[c].session # NoToken

(* A session can be extended by at most one party at a time, the holder of *)
(* its one refresh token or the request that consumed it: two tabs that    *)
(* refresh with the same token never end up with two pairs, and once a     *)
(* logout has deleted the session nobody is left who could extend it.      *)
OneRenewal ==
    /\ \A t1, t2 \in Tokens :
           refresh[t1] # NoToken /\ refresh[t1] = refresh[t2] => t1 = t2
    /\ \A t \in Tokens, c \in Calls : Renews(c) => call[c].session # refresh[t]
    /\ \A c1, c2 \in Calls :
           Renews(c1) /\ Renews(c2) /\ call[c1].session = call[c2].session => c1 = c2
    /\ \A s \in revoked :
           /\ \A t \in Tokens : refresh[t] # s
           /\ \A c \in Calls : Renews(c) => call[c].session # s

(* The gateway lets a request in only if, at some moment since the request *)
(* came, its user was enabled, and at some moment had an enabled role; and *)
(* never after the session had been logged out, although a logout deletes  *)
(* no access key.                                                          *)
NoLateEntry ==
    \A c \in Calls : CallAt(c, "passed") =>
        /\ call[c].gone = {}
        /\ lastEnabled[call[c].user] >= call[c].began
        /\ lastRoled[call[c].user] >= call[c].began
=============================================================================

--------------------------- MODULE AuthSessionProofs ---------------------------
(***************************************************************************)
(* OneRenewal and NoLateEntry for any number of users, roles, tokens and   *)
(* requests, faults and restarts included, and that sessions and tokens    *)
(* never change hands.                                                     *)
(*                                                                         *)
(* NoLateEntry needs to know that a session that was logged out stays      *)
(* gone.  Only a login writes a session key, and it writes that of its own *)
(* new session; so what is needed is that no request is left that could    *)
(* write under a session a logout has deleted, which is OneRenewal.        *)
(***************************************************************************)
EXTENDS AuthSession, TLAPS

(* What the tables say now is what the three readings say last.            *)
Readings ==
    /\ edits \in 0..MaxEdits
    /\ lastEnabled \in [Users -> Int]
    /\ lastRoled \in [Users -> Int]
    /\ \A u \in Users :
           /\ lastEnabled[u] <= edits
           /\ lastRoled[u] <= edits
           /\ user[u] = "enabled" => lastEnabled[u] = edits
           /\ HasEnabledRole(u) => lastRoled[u] = edits

(* Nothing refers to a session that was not created yet.                   *)
Created ==
    /\ \A t \in Tokens : refresh[t] <= signed /\ access[t] <= signed
    /\ \A s \in revoked : s <= signed
    /\ \A c \in Calls : call[c].session <= signed

(* What a request has in hand at each of its steps.                        *)
Shape(r) ==
    /\ r.pc = "idle" => r.op = "none"
    /\ r.pc = "revoke" => r.op = "logout" /\ r.session # NoToken
    /\ r.pc = "setSession" => r.op = "login"
    /\ r.pc \in {"setSession", "setAccess", "setRefresh"} =>
           /\ r.op \in {"login", "refresh"}
           /\ r.session # NoToken
           /\ r.token # NoToken
           /\ r.user \in Users
    /\ r.pc \in {"session", "user"} => r.op \in {"refresh", "validate"}
    /\ r.op \in {"refresh", "validate"} => r.session # NoToken
    /\ r.pc \in {"user", "roles", "passed"} => r.user \in Users
    /\ r.pc = "passed" => r.op = "validate"
    /\ r.pc = "roles" => r.op \in {"login", "refresh", "validate"}
    /\ r.pc = "roles" /\ r.op = "login" => r.session = NoToken

Shaped == \A c \in Calls : Shape(call[c])

(* A session that was logged out has no key.                               *)
Dead == \A s \in revoked : session[s] = NoUser

(* A validation that came too late gets no further than its session, and   *)
(* one that went further has seen its user enabled, and then an enabled    *)
(* role, since it began.                                                   *)
Witness(r) ==
    r.op = "validate" =>
        /\ r.began <= edits
        /\ r.gone # {} => r.pc = "session" /\ r.session \in revoked
        /\ r.pc \in {"roles", "passed"} => lastEnabled[r.user] >= r.began
        /\ r.pc = "passed" => lastRoled[r.user] >= r.began

Witnessed == \A c \in Calls : Witness(call[c])

AuthInv ==
    /\ AuthTypeOK
    /\ Readings
    /\ Created
    /\ OneRenewal
    /\ Shaped
    /\ Dead
    /\ Witnessed

-----------------------------------------------------------------------------
(* Edits and restarts.                                                     *)

LEMMA EditsNote ==
    ASSUME UserEdits \/ RoleEdits \/ Seed
    PROVE  /\ MayEdit
           /\ edits' = edits + 1
           /\ Noted
<1>1. CASE UserEdits
  BY <1>1 DEF UserEdits, CreateUser, SetUserStatus, UpdateUser, DeleteUser,
              SetUserRoles, Edited
<1>2. CASE RoleEdits
  BY <1>2 DEF RoleEdits, CreateRole, SetRoleStatus, UpdateRole, DeleteRole, Edited
<1>3. CASE Seed
  BY <1>3 DEF Seed
<1> QED BY <1>1, <1>2, <1>3

LEMMA NotedReads ==
    ASSUME Readings, MayEdit, edits' = edits + 1, Noted
    PROVE  /\ Readings'
           /\ \A u \in Users : /\ lastEnabled'[u] >= lastEnabled[u]
                               /\ lastRoled'[u] >= lastRoled[u]
<1>1. edits \in Int /\ edits' \in 0..MaxEdits
  BY DirectoryAssumption DEF Readings, MayEdit
<1>2. /\ lastEnabled' \in [Users -> Int]
      /\ \A u \in Users : /\ user'[u] = "enabled" => lastEnabled'[u] = edits'
                          /\ lastEnabled'[u] \in {edits', lastEnabled[u]}
  BY <1>1 DEF Noted, Readings
<1>3. /\ lastRoled' \in [Users -> Int]
      /\ \A u \in Users : /\ HasEnabledRole(u)' => lastRoled'[u] = edits'
                          /\ lastRoled'[u] \in {edits', lastRoled[u]}
  BY <1>1 DEF Noted, Readings, HasEnabledRole
<1>4. \A u \in Users : /\ lastEnabled[u] \in Int /\ lastEnabled[u] <= edits
                       /\ lastRoled[u] \in Int /\ lastRoled[u] <= edits
  BY DEF Readings
<1> QED BY <1>1, <1>2, <1>3, <1>4 DEF Readings

LEMMA EditKeeps ==
    ASSUME AuthInv, UserEdits \/ RoleEdits, UNCHANGED authVars
    PROVE  AuthInv'
<1>1. MayEdit /\ edits' = edits + 1 /\ Noted
  BY EditsNote
<1>2. /\ Readings'
      /\ \A u \in Users : /\ lastEnabled'[u] >= lastEnabled[u]
                          /\ lastRoled'[u] >= lastRoled[u]
  BY <1>1, NotedReads DEF AuthInv
<1>3. AuthTypeOK' /\ Created' /\ OneRenewal' /\ Shaped' /\ Dead'
  BY DEF AuthInv, AuthTypeOK, Created, OneRenewal, Shaped, Shape, Dead, Renews,
         authVars
<1>4. Witnessed'
  <2> SUFFICES ASSUME NEW c \in Calls, call[c].op = "validate"
               PROVE  Witness(call[c])'
    BY DEF authVars, Witnessed, Witness
  <2>1. call' = call /\ revoked' = revoked
    BY DEF authVars
  <2>2. Witness(call[c]) /\ Shape(call[c]) /\ call[c] \in Call
    BY DEF AuthInv, Witnessed, Shaped, AuthTypeOK
  <2>3. call[c].began \in Int /\ edits \in Int
    BY <2>2 DEF Call, AuthInv, Readings
  <2>4. call[c].pc \in {"roles", "passed"} => call[c].user \in Users
    BY <2>2 DEF Shape
  <2>5. \A u \in Users : /\ lastEnabled[u] \in Int /\ lastEnabled'[u] \in Int
                         /\ lastRoled[u] \in Int /\ lastRoled'[u] \in Int
    BY <1>2 DEF AuthInv, Readings
  <2> QED BY <1>1, <1>2, <2>1, <2>2, <2>3, <2>4, <2>5 DEF Witness
<1> QED BY <1>2, <1>3, <1>4 DEF AuthInv

LEMMA RestartKeeps ==
    ASSUME AuthInv, Seed, AuthRestarts
    PROVE  AuthInv'
<1>1. Readings'
  BY EditsNote, NotedReads DEF AuthInv
<1>2. /\ call' = [c \in Calls |-> NoCall]
      /\ UNCHANGED <<session, access, refresh, pair, expired, revoked, signed,
                     authFaults>>
  BY DEF AuthRestarts, keys, notes
<1>3. NoCall \in Call
  BY AuthAssumption, DirectoryAssumption DEF NoCall, Call, NoToken
<1>4. signed \in Int
  BY DEF AuthInv, AuthTypeOK
<1>5. AuthTypeOK'
  BY <1>2, <1>3 DEF AuthInv, AuthTypeOK
<1>6. Created' /\ OneRenewal' /\ Dead'
  BY <1>2, <1>4 DEF AuthInv, AuthTypeOK, Created, OneRenewal, Dead, Renews, NoCall,
                    NoToken
<1>7. Shaped' /\ Witnessed'
  BY <1>2 DEF Shaped, Shape, Witnessed, Witness, NoCall
<1> QED BY <1>1, <1>5, <1>6, <1>7 DEF AuthInv

-----------------------------------------------------------------------------
(* Steps of requests.  A step that writes no key and leaves the request    *)
(* with the session it had, with none, or as a validation.                 *)

LEMMA QuietKeeps ==
    ASSUME AuthInv, NEW c \in Calls, NEW r \in Call,
           call' = [call EXCEPT ![c] = r],
           UNCHANGED <<directoryVars, session, access, refresh, pair, expired,
                       revoked, signed>>,
           authFaults' \in 0..MaxAuthFaults,
           r.session <= signed,
           \/ r.op \in {"none", "validate"}
           \/ r.session = NoToken
           \/ r.op = call[c].op /\ r.session = call[c].session,
           Shape(r), Witness(r)
    PROVE  AuthInv'
<1>1. /\ \A d \in Calls : call'[d] = IF d = c THEN r ELSE call[d]
      /\ call' \in [Calls -> Call]
  BY DEF AuthInv, AuthTypeOK
<1>2. AuthTypeOK'
  BY <1>1 DEF AuthInv, AuthTypeOK
<1>3. Readings'
  BY DEF AuthInv, Readings, HasEnabledRole, directoryVars, tables, moments
<1>4. Created' /\ Dead'
  BY <1>1 DEF AuthInv, Created, Dead
<1>5. \A d \in Calls : Renews(d)' =>
         Renews(d) /\ call'[d].session = call[d].session
  BY <1>1 DEF Renews
<1>6. OneRenewal'
  BY <1>5 DEF AuthInv, OneRenewal
<1>7. Shaped'
  BY <1>1 DEF AuthInv, Shaped
<1>8. Witnessed'
  BY <1>1 DEF AuthInv, Witnessed, Witness, directoryVars, moments
<1> QED BY <1>2, <1>3, <1>4, <1>6, <1>7, <1>8 DEF AuthInv

(* What an arbitrary request is known to be.                               *)
LEMMA CallFacts ==
    ASSUME AuthInv, NEW c \in Calls
    PROVE  /\ call[c] \in Call
           /\ Shape(call[c])
           /\ Witness(call[c])
           /\ call[c].session <= signed
           /\ authFaults \in 0..MaxAuthFaults
           /\ 0 <= signed
           /\ NoCall \in Call
           /\ Shape(NoCall)
           /\ Witness(NoCall)
           /\ NoCall.session = NoToken
           /\ NoCall.op = "none"
<1>1. NoCall \in Call
  BY AuthAssumption, DirectoryAssumption DEF NoCall, Call, NoToken
<1>2. Shape(NoCall) /\ Witness(NoCall) /\ NoCall.session = NoToken /\ NoCall.op = "none"
  BY DEF NoCall, Shape, Witness
<1> QED BY <1>1, <1>2 DEF AuthInv, AuthTypeOK, Shaped, Witnessed, Created

LEMMA EndKeeps ==
    ASSUME AuthInv, NEW c \in Calls, CallGoes(c, NoCall),
           UNCHANGED <<directoryVars, keys, notes>>,
           authFaults' \in 0..MaxAuthFaults
    PROVE  AuthInv'
BY CallFacts, QuietKeeps DEF CallGoes, keys, notes, NoToken

LEMMA FaultBound ==
    ASSUME AuthInv, AuthFault
    PROVE  authFaults' \in 0..MaxAuthFaults
BY AuthAssumption DEF AuthInv, AuthTypeOK, AuthFault

LEMMA LoginKeeps ==
    ASSUME AuthInv, NEW c \in Calls, NEW u \in Users, Login(c, u),
           UNCHANGED directoryVars
    PROVE  AuthInv'
<1> DEFINE r == [NoCall EXCEPT !.pc = "roles", !.op = "login", !.user = u]
<1>1. r \in Call /\ r.session = NoToken
  BY CallFacts DEF Call, NoCall
<1>2. Shape(r) /\ Witness(r)
  BY DEF Shape, Witness, NoCall
<1>3. /\ call' = [call EXCEPT ![c] = r]
      /\ authFaults' = authFaults
      /\ UNCHANGED <<session, access, refresh, pair, expired, revoked, signed>>
  BY DEF Login, CallGoes, keys, notes
<1> HIDE DEF r
<1> QED BY <1>1, <1>2, <1>3, CallFacts, QuietKeeps DEF NoToken

LEMMA ValidateKeeps ==
    ASSUME AuthInv, NEW c \in Calls, NEW t \in Tokens, ValidateToken(c, t),
           UNCHANGED directoryVars
    PROVE  AuthInv'
<1> DEFINE r == [NoCall EXCEPT !.pc = "session", !.op = "validate",
                               !.session = access[t], !.token = t,
                               !.began = edits,
                               !.gone = revoked \cap {pair[t]}]
<1>1. /\ access[t] \in 0..MaxTokens /\ access[t] = pair[t] /\ pair[t] # NoToken
      /\ edits \in 0..MaxEdits
      /\ t \in 0..MaxTokens
  BY DEF AuthInv, AuthTypeOK, ValidateToken, Readings, Tokens
<1>2. r \in Call
  BY <1>1, CallFacts DEF Call, NoCall, AuthInv, AuthTypeOK
<1>3. r.session = access[t] /\ r.op = "validate"
  BY DEF NoCall
<1>4. Shape(r)
  BY <1>1 DEF Shape, NoCall
<1>5. Witness(r)
  BY <1>1 DEF Witness, NoCall
<1>6. /\ call' = [call EXCEPT ![c] = r]
      /\ authFaults' = authFaults
      /\ UNCHANGED <<session, access, refresh, pair, expired, revoked, signed>>
  BY DEF ValidateToken, CallGoes, keys, notes
<1>7. r.session <= signed
  BY <1>1 DEF AuthInv, Created, NoCall
<1> HIDE DEF r
<1> QED BY <1>2, <1>3, <1>4, <1>5, <1>6, <1>7, CallFacts, QuietKeeps

LEMMA EndingKeeps ==
    ASSUME AuthInv, NEW c \in Calls, Refuse(c) \/ Served(c) \/ CallDies(c),
           UNCHANGED directoryVars
    PROVE  AuthInv'
<1>1. CASE Refuse(c) \/ Served(c)
  BY <1>1, EndKeeps, CallFacts DEF Refuse, Served
<1>2. CASE CallDies(c)
  BY <1>2, EndKeeps, FaultBound DEF CallDies
<1> QED BY <1>1, <1>2

LEMMA GetSessionKeeps ==
    ASSUME AuthInv, NEW c \in Calls, GetSession(c), UNCHANGED directoryVars
    PROVE  AuthInv'
<1> DEFINE s == call[c].session
<1> DEFINE r == [call[c] EXCEPT !.pc = "user", !.user = session[s]]
<1>1. call[c].pc = "session" /\ session[s] # NoUser
  BY DEF GetSession, CallAt
<1>2. /\ s \in 1..MaxTokens
      /\ call[c].op \in {"refresh", "validate"}
  BY <1>1, CallFacts DEF Shape, Call, NoToken
<1>3. session[s] \in Users
  BY <1>1, <1>2 DEF AuthInv, AuthTypeOK, Tokens
<1>4. r \in Call /\ r.session = s /\ r.op = call[c].op
  BY <1>3, CallFacts DEF Call
<1>5. Shape(r)
  BY <1>2, <1>3, CallFacts DEF Shape, Call
<1>6. call[c].op = "validate" => call[c].gone = {}
  BY <1>1, CallFacts DEF Witness, AuthInv, Dead
<1>7. Witness(r)
  BY <1>6, CallFacts DEF Witness, Call
<1>8. /\ call' = [call EXCEPT ![c] = r]
      /\ authFaults' = authFaults
      /\ UNCHANGED <<session, access, refresh, pair, expired, revoked, signed>>
  BY DEF GetSession, CallGoes, keys, notes
<1> HIDE DEF r
<1> QED BY <1>4, <1>5, <1>7, <1>8, CallFacts, QuietKeeps

LEMMA GetUserKeeps ==
    ASSUME AuthInv, NEW c \in Calls, GetUser(c), UNCHANGED directoryVars
    PROVE  AuthInv'
<1> DEFINE r == [call[c] EXCEPT !.pc = "roles"]
<1>1. call[c].pc = "user" /\ user[call[c].user] = "enabled"
  BY DEF GetUser, CallAt
<1>2. call[c].op \in {"refresh", "validate"} /\ call[c].user \in Users
  BY <1>1, CallFacts DEF Shape
<1>3. lastEnabled[call[c].user] = edits
  BY <1>1, <1>2 DEF AuthInv, Readings
<1>4. r \in Call /\ r.session = call[c].session /\ r.op = call[c].op
  BY CallFacts DEF Call
<1>5. Shape(r)
  BY <1>1, <1>2, CallFacts DEF Shape, Call
<1>6. Witness(r)
  <2>1. call[c].began \in Int /\ edits \in Int
    BY CallFacts DEF Call, AuthInv, Readings
  <2> QED BY <1>1, <1>3, <2>1, CallFacts DEF Witness, Call
<1>7. /\ call' = [call EXCEPT ![c] = r]
      /\ authFaults' = authFaults
      /\ UNCHANGED <<session, access, refresh, pair, expired, revoked, signed>>
  BY DEF GetUser, CallGoes, keys, notes
<1> HIDE DEF r
<1> QED BY <1>4, <1>5, <1>6, <1>7, CallFacts, QuietKeeps

LEMMA PassKeeps ==
    ASSUME AuthInv, NEW c \in Calls, Pass(c), UNCHANGED directoryVars
    PROVE  AuthInv'
<1> DEFINE r == [call[c] EXCEPT !.pc = "passed"]
<1>1. call[c].pc = "roles" /\ call[c].op = "validate" /\ HasEnabledRole(call[c].user)
  BY DEF Pass, CallAt
<1>2. call[c].user \in Users
  BY <1>1, CallFacts DEF Shape
<1>3. lastRoled[call[c].user] = edits
  BY <1>1, <1>2 DEF AuthInv, Readings
<1>4. r \in Call /\ r.session = call[c].session /\ r.op = call[c].op
  BY CallFacts DEF Call
<1>5. Shape(r)
  BY <1>1, <1>2, CallFacts DEF Shape, Call
<1>6. Witness(r)
  <2>1. call[c].began \in Int /\ edits \in Int
    BY CallFacts DEF Call, AuthInv, Readings
  <2> QED BY <1>1, <1>3, <2>1, CallFacts DEF Witness, Call
<1>7. /\ call' = [call EXCEPT ![c] = r]
      /\ authFaults' = authFaults
      /\ UNCHANGED <<session, access, refresh, pair, expired, revoked, signed>>
  BY DEF Pass, CallGoes, keys, notes
<1> HIDE DEF r
<1> QED BY <1>4, <1>5, <1>6, <1>7, CallFacts, QuietKeeps

-----------------------------------------------------------------------------
(* Steps that consume a refresh token.                                     *)

(* The key is gone: a token that had another session still has it.         *)
LEMMA ConsumedOne ==
    ASSUME AuthInv, NEW t \in Tokens, refresh' = Consumed(t)
    PROVE  /\ refresh' \in [Tokens -> 0..MaxTokens]
           /\ refresh'[t] = NoToken
           /\ \A u \in Tokens : u # t => refresh'[u] = refresh[u]
           /\ refresh[t] \in 0..MaxTokens
BY AuthAssumption DEF AuthInv, AuthTypeOK, Consumed, NoToken

LEMMA ConsumeKeeps ==
    ASSUME AuthInv, NEW c \in Calls, NEW t \in Tokens, NEW r \in Call,
           refresh[t] # NoToken, refresh' = Consumed(t),
           call' = [call EXCEPT ![c] = r],
           r.op \in {"refresh", "logout"}, r.session = refresh[t], Shape(r),
           UNCHANGED <<directoryVars, session, access, pair, expired, revoked,
                       signed, authFaults>>
    PROVE  AuthInv'
<1>1. /\ \A d \in Calls : call'[d] = IF d = c THEN r ELSE call[d]
      /\ call' \in [Calls -> Call]
  BY DEF AuthInv, AuthTypeOK
<1>2. AuthTypeOK'
  BY <1>1, ConsumedOne DEF AuthInv, AuthTypeOK
<1>3. Readings'
  BY DEF AuthInv, Readings, HasEnabledRole, directoryVars, tables, moments
<1>4. Created' /\ Dead'
  <2>1. signed \in Int /\ 0 <= signed
    BY DEF AuthInv, AuthTypeOK
  <2> QED BY <1>1, <2>1, ConsumedOne DEF AuthInv, Created, Dead, NoToken
<1>5. \A d \in Calls : Renews(d)' =>
         \/ d = c /\ call'[d].session = refresh[t]
         \/ d # c /\ Renews(d) /\ call'[d].session = call[d].session
  BY <1>1 DEF Renews
<1>6. OneRenewal'
  <2>1. \A t1, t2 \in Tokens :
            refresh'[t1] # NoToken /\ refresh'[t1] = refresh'[t2] => t1 = t2
    BY ConsumedOne DEF AuthInv, OneRenewal
  <2>2. \A u \in Tokens, d \in Calls : Renews(d)' => call'[d].session # refresh'[u]
    <3> SUFFICES ASSUME NEW u \in Tokens, NEW d \in Calls, Renews(d)'
                 PROVE  call'[d].session # refresh'[u]
      OBVIOUS
    <3>1. CASE u = t
      BY <3>1, ConsumedOne DEF Renews
    <3>2. CASE u # t
      BY <3>2, <1>5, ConsumedOne DEF AuthInv, OneRenewal
    <3> QED BY <3>1, <3>2
  <2>3. \A c1, c2 \in Calls :
            Renews(c1)' /\ Renews(c2)' /\ call'[c1].session = call'[c2].session
                => c1 = c2
    BY <1>5 DEF AuthInv, OneRenewal
  <2>4. \A s \in revoked :
            /\ \A u \in Tokens : refresh'[u] # s
            /\ \A d \in Calls : Renews(d)' => call'[d].session # s
    <3>1. \A s \in revoked : s # NoToken
      BY DEF AuthInv, AuthTypeOK, Tokens, NoToken
    <3> QED BY <3>1, <1>5, ConsumedOne DEF AuthInv, OneRenewal
  <2> QED BY <2>1, <2>2, <2>3, <2>4 DEF OneRenewal
<1>7. Shaped'
  BY <1>1 DEF AuthInv, Shaped
<1>8. Witnessed'
  BY <1>1 DEF AuthInv, Witnessed, Witness, directoryVars, moments
<1> QED BY <1>2, <1>3, <1>4, <1>6, <1>7, <1>8 DEF AuthInv

LEMMA RefreshTokenKeeps ==
    ASSUME AuthInv, NEW c \in Calls, NEW t \in Tokens, RefreshToken(c, t),
           UNCHANGED directoryVars
    PROVE  AuthInv'
<1> DEFINE r == [NoCall EXCEPT !.pc = "session", !.op = "refresh",
                               !.session = refresh[t]]
<1>1. refresh[t] # NoToken /\ refresh[t] \in 0..MaxTokens /\ refresh' = Consumed(t)
  BY ConsumedOne DEF RefreshToken
<1>2. r \in Call /\ r.op = "refresh" /\ r.session = refresh[t]
  BY <1>1, CallFacts DEF Call, NoCall
<1>3. Shape(r)
  BY <1>1 DEF Shape, NoCall
<1>4. /\ call' = [call EXCEPT ![c] = r]
      /\ UNCHANGED <<session, access, pair, expired, revoked, signed, authFaults>>
  BY DEF RefreshToken, CallGoes, notes
<1> HIDE DEF r
<1> QED BY <1>1, <1>2, <1>3, <1>4, ConsumeKeeps

LEMMA LogoutKeeps ==
    ASSUME AuthInv, NEW c \in Calls, NEW t \in Tokens, Logout(c, t),
           UNCHANGED directoryVars
    PROVE  AuthInv'
<1> DEFINE r == [NoCall EXCEPT !.pc = "revoke", !.op = "logout",
                               !.session = refresh[t]]
<1>1. refresh[t] # NoToken /\ refresh[t] \in 0..MaxTokens /\ refresh' = Consumed(t)
  BY ConsumedOne DEF Logout
<1>2. r \in Call /\ r.op = "logout" /\ r.session = refresh[t]
  BY <1>1, CallFacts DEF Call, NoCall
<1>3. Shape(r)
  BY <1>1 DEF Shape, NoCall
<1>4. /\ call' = [call EXCEPT ![c] = r]
      /\ UNCHANGED <<session, access, pair, expired, revoked, signed, authFaults>>
  BY DEF Logout, CallGoes, notes
<1> HIDE DEF r
<1> QED BY <1>1, <1>2, <1>3, <1>4, ConsumeKeeps

(* Keys only disappear: nobody gains a session.                            *)
LEMMA FewerKeysKeep ==
    ASSUME AuthInv,
           session' \in [Tokens -> Users \cup {NoUser}],
           \A s \in Tokens : session'[s] \in {session[s], NoUser},
           access' \in [Tokens -> 0..MaxTokens],
           \A t \in Tokens : access'[t] \in {access[t], NoToken},
           refresh' \in [Tokens -> 0..MaxTokens],
           \A t \in Tokens : refresh'[t] \in {refresh[t], NoToken},
           expired' \subseteq Tokens, authFaults' \in 0..MaxAuthFaults,
           UNCHANGED <<directoryVars, pair, revoked, signed, call>>
    PROVE  AuthInv'
<1>1. AuthTypeOK'
  BY DEF AuthInv, AuthTypeOK
<1>2. Readings'
  BY DEF AuthInv, Readings, HasEnabledRole, directoryVars, tables, moments
<1>3. Created'
  <2>1. signed \in Int /\ 0 <= signed
    BY DEF AuthInv, AuthTypeOK
  <2> QED BY <2>1 DEF AuthInv, Created, NoToken
<1>4. Dead'
  <2>1. revoked \subseteq Tokens
    BY DEF AuthInv, AuthTypeOK
  <2> QED BY <2>1 DEF AuthInv, Dead
<1>5. OneRenewal'
  <2>1. \A c \in Calls : /\ Renews(c)' <=> Renews(c)
                         /\ Renews(c) => call[c].session # NoToken
    BY DEF Renews
  <2>2. \A s \in revoked : s # NoToken
    BY DEF AuthInv, AuthTypeOK, Tokens, NoToken
  <2> QED BY <2>1, <2>2 DEF AuthInv, OneRenewal
<1>6. Shaped' /\ Witnessed'
  BY DEF AuthInv, Shaped, Shape, Witnessed, Witness, directoryVars, moments
<1> QED BY <1>1, <1>2, <1>3, <1>4, <1>5, <1>6 DEF AuthInv

LEMMA LossesKeep ==
    ASSUME AuthInv, NEW t \in Tokens,
           \/ ConsumeLost(t)
           \/ SessionExpires(t)
           \/ AccessExpires(t)
           \/ RefreshExpires(t),
           UNCHANGED directoryVars
    PROVE  AuthInv'
<1> USE AuthAssumption DEF AuthInv, AuthTypeOK, NoToken
<1>1. CASE ConsumeLost(t)
  BY <1>1, FaultBound, ConsumedOne, FewerKeysKeep DEF ConsumeLost, notes
<1>2. CASE SessionExpires(t)
  BY <1>2, FewerKeysKeep DEF SessionExpires
<1>3. CASE AccessExpires(t)
  BY <1>3, FewerKeysKeep DEF AccessExpires, notes
<1>4. CASE RefreshExpires(t)
  BY <1>4, FewerKeysKeep DEF RefreshExpires, notes
<1> QED BY <1>1, <1>2, <1>3, <1>4

-----------------------------------------------------------------------------
(* Steps that issue tokens.  The request keeps the session it renews, or   *)
(* gets one that nothing refers to yet; it writes that session's key, or   *)
(* an access key, or none.                                                 *)

LEMMA IssueKeeps ==
    ASSUME AuthInv, NEW c \in Calls, NEW r \in Call,
           call' = [call EXCEPT ![c] = r],
           call[c].op \in {"login", "refresh"}, r.op = call[c].op, Shape(r),
           r.session # NoToken,
           \/ r.session = call[c].session
           \/ r.session = signed + 1 /\ signed' = signed + 1,
           signed' \in {signed, signed + 1}, signed' \in 0..MaxTokens,
           session' \in [Tokens -> Users \cup {NoUser}],
           \A s \in Tokens : s # call[c].session => session'[s] = session[s],
           access' \in [Tokens -> 0..MaxTokens],
           \A t \in Tokens : access'[t] \in {access[t], call[c].session},
           UNCHANGED <<directoryVars, refresh, pair, expired, revoked, authFaults>>
    PROVE  AuthInv'
<1>1. /\ \A d \in Calls : call'[d] = IF d = c THEN r ELSE call[d]
      /\ call' \in [Calls -> Call]
  BY DEF AuthInv, AuthTypeOK
<1>2. AuthTypeOK'
  BY <1>1 DEF AuthInv, AuthTypeOK
<1>3. Readings'
  BY DEF AuthInv, Readings, HasEnabledRole, directoryVars, tables, moments
<1>4. /\ signed \in Int /\ signed <= signed' /\ signed' \in Int
      /\ \A t \in Tokens : refresh[t] \in Int /\ access[t] \in Int
      /\ \A s \in revoked : s \in Int
      /\ \A d \in Calls : call[d].session \in Int
  <2>1. signed \in 0..MaxTokens /\ revoked \subseteq 1..MaxTokens
    BY DEF AuthInv, AuthTypeOK, Tokens
  <2>2. \A t \in Tokens : refresh[t] \in 0..MaxTokens /\ access[t] \in 0..MaxTokens
    BY DEF AuthInv, AuthTypeOK
  <2>3. \A d \in Calls : call[d].session \in 0..MaxTokens
    BY DEF AuthInv, AuthTypeOK, Call
  <2>4. signed' \in Int /\ signed <= signed'
    BY <2>1
  <2> QED BY <2>1, <2>2, <2>3, <2>4
<1>5. Created'
  <2>1. \A t \in Tokens : refresh'[t] <= signed' /\ access'[t] <= signed'
    BY <1>4 DEF AuthInv, Created
  <2>2. \A s \in revoked' : s <= signed'
    BY <1>4 DEF AuthInv, Created
  <2>3. \A d \in Calls : call'[d].session <= signed'
    BY <1>1, <1>4 DEF AuthInv, Created
  <2> QED BY <2>1, <2>2, <2>3 DEF Created
<1>6. Renews(c) \/ call[c].session = NoToken
  BY DEF Renews
<1>7. Dead'
  BY <1>6 DEF AuthInv, AuthTypeOK, Dead, OneRenewal, Tokens, NoToken
<1>8. \A d \in Calls : Renews(d)' =>
         \/ Renews(d) /\ call'[d].session = call[d].session
         \/ d = c /\ call'[d].session = signed + 1
  BY <1>1, <1>6 DEF Renews
<1>9. OneRenewal'
  <2>1. \A d \in Calls : Renews(d)' => \A t \in Tokens : call'[d].session # refresh[t]
    BY <1>4, <1>8 DEF AuthInv, OneRenewal, Created
  <2>2. \A d \in Calls : Renews(d)' => \A s \in revoked : call'[d].session # s
    BY <1>4, <1>8 DEF AuthInv, OneRenewal, Created
  <2>3. \A c1, c2 \in Calls :
            Renews(c1)' /\ Renews(c2)' /\ call'[c1].session = call'[c2].session
                => c1 = c2
    BY <1>4, <1>8 DEF AuthInv, OneRenewal, Created
  <2> QED BY <2>1, <2>2, <2>3 DEF AuthInv, OneRenewal
<1>10. Shaped'
  BY <1>1 DEF AuthInv, Shaped
<1>11. Witnessed'
  BY <1>1 DEF AuthInv, Witnessed, Witness, directoryVars, moments
<1> QED BY <1>2, <1>3, <1>5, <1>7, <1>9, <1>10, <1>11 DEF AuthInv

LEMMA NewSessionKeeps ==
    ASSUME AuthInv, NEW c \in Calls, NewSession(c), UNCHANGED directoryVars
    PROVE  AuthInv'
<1> DEFINE r == [call[c] EXCEPT !.pc = "setSession", !.session = signed + 1,
                                !.token = signed + 1]
<1>1. call[c].pc = "roles" /\ call[c].op = "login"
  BY DEF NewSession, CallAt
<1>2. signed \in 0..MaxTokens /\ signed < MaxTokens /\ signed' = signed + 1
  BY DEF NewSession, AuthInv, AuthTypeOK
<1>3. signed + 1 \in 0..MaxTokens /\ signed + 1 # NoToken
  BY <1>2, AuthAssumption DEF NoToken
<1>4. r \in Call /\ r.op = "login" /\ r.session = signed + 1
  BY <1>1, <1>3, CallFacts DEF Call
<1>5. Shape(r)
  BY <1>1, <1>3, CallFacts DEF Shape, Call
<1>6. /\ call' = [call EXCEPT ![c] = r]
      /\ UNCHANGED <<session, access, refresh, pair, expired, revoked, authFaults>>
  BY DEF NewSession, CallGoes, keys
<1>7. /\ session \in [Tokens -> Users \cup {NoUser}]
      /\ access \in [Tokens -> 0..MaxTokens]
  BY DEF AuthInv, AuthTypeOK
<1> HIDE DEF r
<1> QED BY <1>1, <1>2, <1>3, <1>4, <1>5, <1>6, <1>7, IssueKeeps

LEMMA RotateKeeps ==
    ASSUME AuthInv, NEW c \in Calls, Rotate(c), UNCHANGED directoryVars
    PROVE  AuthInv'
<1> DEFINE r == [call[c] EXCEPT !.pc = "setAccess", !.token = signed + 1]
<1>1. call[c].pc = "roles" /\ call[c].op = "refresh"
  BY DEF Rotate, CallAt
<1>2. signed \in 0..MaxTokens /\ signed < MaxTokens /\ signed' = signed + 1
  BY DEF Rotate, AuthInv, AuthTypeOK
<1>3. signed + 1 \in 0..MaxTokens /\ signed + 1 # NoToken
  BY <1>2, AuthAssumption DEF NoToken
<1>4. call[c].session # NoToken
  BY <1>1, CallFacts DEF Shape
<1>5. r \in Call /\ r.op = "refresh" /\ r.session = call[c].session
  BY <1>1, <1>3, CallFacts DEF Call
<1>6. Shape(r)
  BY <1>1, <1>3, <1>4, CallFacts DEF Shape, Call
<1>7. /\ call' = [call EXCEPT ![c] = r]
      /\ UNCHANGED <<session, access, refresh, pair, expired, revoked, authFaults>>
  BY DEF Rotate, CallGoes, keys
<1>8. /\ session \in [Tokens -> Users \cup {NoUser}]
      /\ access \in [Tokens -> 0..MaxTokens]
  BY DEF AuthInv, AuthTypeOK
<1> HIDE DEF r
<1> QED BY <1>1, <1>2, <1>3, <1>4, <1>5, <1>6, <1>7, <1>8, IssueKeeps

(* A request that writes keys renews the session it writes them for.       *)
LEMMA WriterFacts ==
    ASSUME AuthInv, NEW c \in Calls,
           call[c].pc \in {"setSession", "setAccess", "setRefresh"}
    PROVE  /\ Renews(c)
           /\ call[c].op \in {"login", "refresh"}
           /\ call[c].session \in Tokens /\ call[c].session # NoToken
           /\ call[c].token \in Tokens
           /\ call[c].user \in Users
           /\ signed \in 0..MaxTokens
BY CallFacts DEF Shape, Renews, Call, Tokens, NoToken, AuthInv, AuthTypeOK

LEMMA SetSessionKeeps ==
    ASSUME AuthInv, NEW c \in Calls, SetSession(c), UNCHANGED directoryVars
    PROVE  AuthInv'
<1> DEFINE r == [call[c] EXCEPT !.pc = "setAccess"]
<1>1. call[c].pc = "setSession"
  BY DEF SetSession, CallAt
<1>2. r \in Call /\ r.op = call[c].op /\ r.session = call[c].session
  BY CallFacts DEF Call
<1>3. Shape(r)
  BY <1>1, WriterFacts, CallFacts DEF Shape, Call
<1>4. /\ call' = [call EXCEPT ![c] = r]
      /\ session' = [session EXCEPT ![call[c].session] = call[c].user]
      /\ UNCHANGED <<access, refresh, pair, expired, revoked, signed, authFaults>>
  BY DEF SetSession, CallGoes, notes
<1>5. /\ session' \in [Tokens -> Users \cup {NoUser}]
      /\ \A s \in Tokens : s # call[c].session => session'[s] = session[s]
      /\ access \in [Tokens -> 0..MaxTokens]
  BY <1>1, <1>4, WriterFacts DEF AuthInv, AuthTypeOK
<1> HIDE DEF r
<1> QED BY <1>1, <1>2, <1>3, <1>4, <1>5, WriterFacts, IssueKeeps

LEMMA SetAccessKeeps ==
    ASSUME AuthInv, NEW c \in Calls, SetAccess(c), UNCHANGED directoryVars
    PROVE  AuthInv'
<1> DEFINE r == [call[c] EXCEPT !.pc = "setRefresh"]
<1>1. call[c].pc = "setAccess"
  BY DEF SetAccess, CallAt
<1>2. r \in Call /\ r.op = call[c].op /\ r.session = call[c].session
  BY CallFacts DEF Call
<1>3. Shape(r)
  BY <1>1, WriterFacts, CallFacts DEF Shape, Call
<1>4. /\ call' = [call EXCEPT ![c] = r]
      /\ access' = [access EXCEPT ![call[c].token] = call[c].session]
      /\ UNCHANGED <<session, refresh, pair, expired, revoked, signed, authFaults>>
  BY DEF SetAccess, CallGoes, notes
<1>5. /\ access' \in [Tokens -> 0..MaxTokens]
      /\ \A t \in Tokens : access'[t] \in {access[t], call[c].session}
      /\ session \in [Tokens -> Users \cup {NoUser}]
  BY <1>1, <1>4, WriterFacts DEF AuthInv, AuthTypeOK, Tokens
<1> HIDE DEF r
<1> QED BY <1>1, <1>2, <1>3, <1>4, <1>5, WriterFacts, IssueKeeps

-----------------------------------------------------------------------------
(* Steps that hand the session on, and the request is over: to the new     *)
(* refresh token, or to nobody.                                            *)

LEMMA HandOverKeeps ==
    ASSUME AuthInv, NEW c \in Calls, Renews(c),
           call[c].session \in Tokens, CallGoes(c, NoCall),
           session' \in [Tokens -> Users \cup {NoUser}],
           \A s \in Tokens : s # call[c].session => session'[s] = session[s],
           access' \in [Tokens -> 0..MaxTokens],
           \A t \in Tokens : access'[t] \in {access[t], NoToken, call[c].session},
           refresh' \in [Tokens -> 0..MaxTokens],
           NEW k \in Tokens,
           refresh'[k] \in {refresh[k], call[c].session},
           \A t \in Tokens : t # k => refresh'[t] = refresh[t],
           pair' \in [Tokens -> 0..MaxTokens],
           authFaults' \in 0..MaxAuthFaults,
           UNCHANGED <<directoryVars, expired, revoked, signed>>
    PROVE  AuthInv'
<1>1. /\ \A d \in Calls : call'[d] = IF d = c THEN NoCall ELSE call[d]
      /\ call' \in [Calls -> Call]
  BY CallFacts DEF AuthInv, AuthTypeOK, CallGoes
<1>2. AuthTypeOK'
  BY <1>1 DEF AuthInv, AuthTypeOK
<1>3. Readings'
  BY DEF AuthInv, Readings, HasEnabledRole, directoryVars, tables, moments
<1>4. Created'
  BY <1>1, CallFacts DEF AuthInv, Created, NoToken
<1>5. Dead'
  BY DEF AuthInv, AuthTypeOK, Dead, OneRenewal
<1>6. \A d \in Calls : Renews(d)' =>
          d # c /\ Renews(d) /\ call'[d].session = call[d].session
  BY <1>1, CallFacts DEF Renews
<1>7. OneRenewal'
  BY <1>6 DEF AuthInv, OneRenewal
<1>8. Shaped'
  BY <1>1, CallFacts DEF AuthInv, Shaped
<1>9. Witnessed'
  BY <1>1, CallFacts DEF AuthInv, Witnessed, Witness, directoryVars, moments
<1> QED BY <1>2, <1>3, <1>4, <1>5, <1>7, <1>8, <1>9 DEF AuthInv

LEMMA SetRefreshKeeps ==
    ASSUME AuthInv, NEW c \in Calls, SetRefresh(c), UNCHANGED directoryVars
    PROVE  AuthInv'
<1> DEFINE k == call[c].token
<1>1. call[c].pc = "setRefresh" /\ CallGoes(c, NoCall)
  BY DEF SetRefresh, CallAt
<1>2. Renews(c) /\ k \in Tokens /\ call[c].session \in 0..MaxTokens
      /\ call[c].session \in Tokens
  BY <1>1, WriterFacts DEF Tokens
<1>3. /\ refresh' = [refresh EXCEPT ![k] = call[c].session]
      /\ pair' = [pair EXCEPT ![k] = call[c].session]
      /\ UNCHANGED <<session, access, expired, revoked, signed, authFaults>>
  BY DEF SetRefresh
<1>4. /\ refresh' \in [Tokens -> 0..MaxTokens]
      /\ refresh'[k] = call[c].session
      /\ \A t \in Tokens : t # k => refresh'[t] = refresh[t]
      /\ pair' \in [Tokens -> 0..MaxTokens]
  BY <1>2, <1>3 DEF AuthInv, AuthTypeOK
<1>5. /\ session \in [Tokens -> Users \cup {NoUser}]
      /\ access \in [Tokens -> 0..MaxTokens]
      /\ authFaults \in 0..MaxAuthFaults
  BY DEF AuthInv, AuthTypeOK
<1> HIDE DEF k
<1> QED BY <1>1, <1>2, <1>3, <1>4, <1>5, HandOverKeeps

LEMMA SetFailsKeeps ==
    ASSUME AuthInv, NEW c \in Calls, NEW applied \in BOOLEAN,
           NEW undone \in BOOLEAN, SetFails(c, applied, undone),
           UNCHANGED directoryVars
    PROVE  AuthInv'
<1> DEFINE s == call[c].session
<1> DEFINE k == call[c].token
<1>1. /\ call[c].pc \in {"setSession", "setAccess", "setRefresh"}
      /\ CallGoes(c, NoCall)
      /\ authFaults' \in 0..MaxAuthFaults
      /\ UNCHANGED <<pair, expired, revoked, signed>>
  BY FaultBound DEF SetFails, notes
<1>2. Renews(c) /\ k \in Tokens /\ s \in 0..MaxTokens /\ s \in Tokens
      /\ call[c].user \in Users /\ NoToken \in 0..MaxTokens
  BY <1>1, WriterFacts, AuthAssumption DEF Tokens, NoToken
<1>3. /\ session \in [Tokens -> Users \cup {NoUser}]
      /\ access \in [Tokens -> 0..MaxTokens]
      /\ refresh \in [Tokens -> 0..MaxTokens]
      /\ pair \in [Tokens -> 0..MaxTokens]
  BY DEF AuthInv, AuthTypeOK
<1>4. \/ session' = session
      \/ session' = [session EXCEPT ![s] = call[c].user]
      \/ session' = [session EXCEPT ![s] = NoUser]
  BY DEF SetFails
<1>5. /\ session' \in [Tokens -> Users \cup {NoUser}]
      /\ \A x \in Tokens : x # s => session'[x] = session[x]
  <2> HIDE DEF s
  <2> QED BY <1>2, <1>3, <1>4
<1>6. \/ access' = access
      \/ access' = [access EXCEPT ![k] = s]
      \/ access' = [access EXCEPT ![k] = NoToken]
  BY <1>1 DEF SetFails
<1>7. /\ access' \in [Tokens -> 0..MaxTokens]
      /\ \A t \in Tokens : access'[t] \in {access[t], NoToken, s}
  <2> HIDE DEF s, k
  <2> QED BY <1>2, <1>3, <1>6
<1>8. refresh' = refresh \/ refresh' = [refresh EXCEPT ![k] = s]
  BY DEF SetFails
<1>9. /\ refresh' \in [Tokens -> 0..MaxTokens]
      /\ refresh'[k] \in {refresh[k], s}
      /\ \A t \in Tokens : t # k => refresh'[t] = refresh[t]
  <2> HIDE DEF s, k
  <2> QED BY <1>2, <1>3, <1>8
<1> HIDE DEF k
<1> QED BY <1>1, <1>2, <1>3, <1>5, <1>7, <1>9, HandOverKeeps

LEMMA RevokeSessionKeeps ==
    ASSUME AuthInv, NEW c \in Calls, RevokeSession(c), UNCHANGED directoryVars
    PROVE  AuthInv'
<1> DEFINE s == call[c].session
<1>1. call[c].pc = "revoke" /\ CallGoes(c, NoCall)
  BY DEF RevokeSession, CallAt
<1>2. Renews(c) /\ s \in Tokens /\ s <= signed
  BY <1>1, CallFacts DEF Shape, Renews, Call, Tokens, NoToken
<1>3. /\ session' = [session EXCEPT ![s] = NoUser]
      /\ revoked' = revoked \cup {s}
      /\ UNCHANGED <<access, refresh, pair, expired, signed, authFaults>>
  BY DEF RevokeSession
<1> HIDE DEF s
<1>4. /\ \A d \in Calls : call'[d] = IF d = c THEN NoCall ELSE call[d]
      /\ call' \in [Calls -> Call]
  BY <1>1, CallFacts DEF AuthInv, AuthTypeOK, CallGoes
<1>5. AuthTypeOK'
  BY <1>2, <1>3, <1>4 DEF AuthInv, AuthTypeOK
<1>6. Readings'
  BY DEF AuthInv, Readings, HasEnabledRole, directoryVars, tables, moments
<1>7. Created'
  BY <1>2, <1>3, <1>4, CallFacts DEF AuthInv, Created, NoToken
<1>8. Dead'
  <2>1. session \in [Tokens -> Users \cup {NoUser}] /\ revoked \subseteq Tokens
    BY DEF AuthInv, AuthTypeOK
  <2> QED BY <1>2, <1>3, <2>1 DEF AuthInv, Dead
<1>9. \A d \in Calls : Renews(d)' =>
          /\ d # c /\ Renews(d)
          /\ call'[d].session = call[d].session
          /\ call[d].session # s
  BY <1>2, <1>4, CallFacts DEF Renews, AuthInv, OneRenewal, s
<1>10. \A t \in Tokens : refresh[t] # s
  BY <1>2 DEF AuthInv, OneRenewal, s
<1>11. OneRenewal'
  BY <1>3, <1>9, <1>10 DEF AuthInv, OneRenewal
<1>12. Shaped'
  BY <1>4, CallFacts DEF AuthInv, Shaped
<1>13. Witnessed'
  BY <1>3, <1>4, CallFacts DEF AuthInv, Witnessed, Witness, directoryVars, moments
<1> QED BY <1>5, <1>6, <1>7, <1>8, <1>11, <1>12, <1>13 DEF AuthInv

-----------------------------------------------------------------------------

LEMMA InitHolds ==
    ASSUME DirectoryInit, AuthInit
    PROVE  AuthInv
<1> USE AuthAssumption, DirectoryAssumption
<1>1. NoCall \in Call /\ Shape(NoCall) /\ Witness(NoCall)
      /\ NoCall.op = "none" /\ NoCall.session = NoToken
  BY DEF NoCall, Call, Shape, Witness, NoToken
<1>2. AuthTypeOK
  BY <1>1 DEF AuthInit, AuthTypeOK, NoToken
<1>3. Readings
  <2>1. edits \in 0..MaxEdits /\ edits \in Int /\ Never \in Int /\ Never <= edits
    BY DEF DirectoryInit, Never
  <2>2. lastEnabled \in [Users -> Int] /\ lastRoled \in [Users -> Int]
    BY <2>1 DEF DirectoryInit
  <2>3. \A u \in Users :
            /\ lastEnabled[u] <= edits
            /\ lastRoled[u] <= edits
            /\ user[u] = "enabled" => lastEnabled[u] = edits
            /\ HasEnabledRole(u) => lastRoled[u] = edits
    BY <2>1 DEF DirectoryInit, HasEnabledRole
  <2> QED BY <2>1, <2>2, <2>3 DEF Readings
<1>4. Created /\ OneRenewal /\ Shaped /\ Dead /\ Witnessed
  BY <1>1 DEF AuthInit, Created, OneRenewal, Renews, Shaped, Dead, Witnessed, NoToken
<1> QED BY <1>2, <1>3, <1>4 DEF AuthInv

LEMMA StepKeeps ==
    ASSUME AuthInv, [AuthNext]_<<directoryVars, authVars>>
    PROVE  AuthInv'
<1>1. CASE AuthStep /\ UNCHANGED directoryVars
  <2> USE <1>1
  <2>1. CASE \E t \in Tokens : \/ ConsumeLost(t) \/ SessionExpires(t)
                              \/ AccessExpires(t) \/ RefreshExpires(t)
    BY <2>1, LossesKeep
  <2>2. ASSUME NEW c \in Calls, NEW u \in Users, Login(c, u)  PROVE AuthInv'
    BY <2>2, LoginKeeps
  <2>3. ASSUME NEW c \in Calls, NEW t \in Tokens,
               RefreshToken(c, t) \/ Logout(c, t) \/ ValidateToken(c, t)
        PROVE  AuthInv'
    BY <2>3, RefreshTokenKeeps, LogoutKeeps, ValidateKeeps
  <2>4. ASSUME NEW c \in Calls, GetSession(c) \/ GetUser(c) \/ Pass(c)
        PROVE  AuthInv'
    BY <2>4, GetSessionKeeps, GetUserKeeps, PassKeeps
  <2>5. ASSUME NEW c \in Calls, Refuse(c) \/ Served(c) \/ CallDies(c)
        PROVE  AuthInv'
    BY <2>5, EndingKeeps
  <2>6. ASSUME NEW c \in Calls, NewSession(c) \/ Rotate(c)  PROVE AuthInv'
    BY <2>6, NewSessionKeeps, RotateKeeps
  <2>7. ASSUME NEW c \in Calls, SetSession(c) \/ SetAccess(c) \/ SetRefresh(c)
        PROVE  AuthInv'
    BY <2>7, SetSessionKeeps, SetAccessKeeps, SetRefreshKeeps
  <2>8. ASSUME NEW c \in Calls, NEW applied \in BOOLEAN, NEW undone \in BOOLEAN,
               SetFails(c, applied, undone)
        PROVE  AuthInv'
    BY <2>8, SetFailsKeeps
  <2>9. ASSUME NEW c \in Calls, RevokeSession(c)  PROVE AuthInv'
    BY <2>9, RevokeSessionKeeps
  <2> QED BY <2>1, <2>2, <2>3, <2>4, <2>5, <2>6, <2>7, <2>8, <2>9 DEF AuthStep
<1>2. CASE (UserEdits \/ RoleEdits) /\ UNCHANGED authVars
  BY <1>2, EditKeeps
<1>3. CASE Seed /\ AuthRestarts
  BY <1>3, RestartKeeps
<1>4. CASE UNCHANGED <<directoryVars, authVars>>
  BY <1>4 DEF AuthInv, AuthTypeOK, Readings, HasEnabledRole, Created, OneRenewal,
              Renews, Shaped, Shape, Dead, Witnessed, Witness, directoryVars, tables,
              moments, authVars
<1> QED BY <1>1, <1>2, <1>3, <1>4 DEF AuthNext

(* The inductive invariant of login, refresh, logout and validation        *)
(* (user.go, auth_token.go), whatever is edited and restarted meanwhile.   *)
THEOREM AuthInvariant == AuthSpec => []AuthInv
<1>1. DirectoryInit /\ AuthInit => AuthInv
  BY InitHolds
<1>2. AuthInv /\ [AuthNext]_<<directoryVars, authVars>> => AuthInv'
  BY StepKeeps
<1> QED BY <1>1, <1>2, PTL DEF AuthSpec

(* Type correctness of the keys in Redis and of the requests.              *)
THEOREM AuthTypeHolds == AuthSpec => []AuthTypeOK
<1>1. AuthInv => AuthTypeOK
  BY DEF AuthInv
<1> QED BY <1>1, AuthInvariant, PTL

(* A refresh token is good for one refresh or one logout, and a session    *)
(* that was logged out cannot be extended (user.go RefreshToken, Logout).  *)
THEOREM OneRenewalHolds == AuthSpec => []OneRenewal
<1>1. AuthInv => OneRenewal
  BY DEF AuthInv
<1> QED BY <1>1, AuthInvariant, PTL

(* The gateway lets in nobody whose session was logged out before the      *)
(* request came, and nobody who was not in good standing since             *)
(* (user.go ValidateToken).                                                *)
THEOREM NoLateEntryHolds == AuthSpec => []NoLateEntry
<1>1. AuthInv => NoLateEntry
  <2> SUFFICES ASSUME AuthInv, NEW c \in Calls, call[c].pc = "passed"
               PROVE  /\ call[c].gone = {}
                      /\ lastEnabled[call[c].user] >= call[c].began
                      /\ lastRoled[call[c].user] >= call[c].began
    BY DEF NoLateEntry, CallAt
  <2> QED BY CallFacts DEF Shape, Witness
<1> QED BY <1>1, AuthInvariant, PTL

-----------------------------------------------------------------------------
(***************************************************************************)
(* Sessions and pairs never change hands.  Every pair has a number of its  *)
(* own from the moment it is signed, and a session key is written by the   *)
(* login that signed it, before any client holds a pair of the session.    *)
(***************************************************************************)

Writes(r) == r.pc \in {"setSession", "setAccess", "setRefresh"}

(* What was given to clients, and what requests are about to write.        *)
Issued ==
    /\ \A t \in Tokens : pair[t] <= signed /\ (pair[t] # NoToken => t <= signed)
    /\ \A s \in Tokens : session[s] # NoUser => s <= signed
    /\ \A c \in Calls : Writes(call[c]) =>
           call[c].token <= signed /\ pair[call[c].token] = NoToken
    /\ \A c, d \in Calls :
           Writes(call[c]) /\ Writes(call[d]) /\ call[c].token = call[d].token
             => c = d
    /\ \A c \in Calls : call[c].pc = "setSession" =>
           /\ session[call[c].session] = NoUser
           /\ \A t \in Tokens : pair[t] # call[c].session

(* A pair stays with its session, a session with its user, and a session   *)
(* that has ended under a client's pair stays ended.                       *)
HandsStay ==
    /\ \A t \in Tokens : pair[t] # NoToken => pair'[t] = pair[t]
    /\ \A s \in Tokens :
           session[s] # NoUser => session'[s] \in {session[s], NoUser}
    /\ \A t \in Tokens : (pair[t] # NoToken /\ session[pair[t]] = NoUser) =>
           session'[pair[t]] = NoUser

(* Steps that sign nothing, hand out nothing and write no session key.     *)
LEMMA QuietHands ==
    ASSUME AuthInv, Issued, UNCHANGED <<pair, signed>>,
           \A s \in Tokens : session'[s] \in {session[s], NoUser},
           \A c \in Calls : Writes(call'[c]) =>
               /\ Writes(call[c])
               /\ call'[c].token = call[c].token
               /\ call'[c].session = call[c].session
               /\ call'[c].pc = "setSession" => call[c].pc = "setSession"
    PROVE  Issued' /\ HandsStay
<1>1. \A c \in Calls : Writes(call[c]) => call[c].session \in Tokens
  BY WriterFacts DEF Writes
<1>2. \A t \in Tokens : pair[t] # NoToken => pair[t] \in Tokens
  BY DEF AuthInv, AuthTypeOK, Tokens, NoToken
<1>3. HandsStay
  BY <1>2 DEF HandsStay
<1>4. /\ \A c \in Calls : Writes(call'[c]) =>
             call'[c].token <= signed /\ pair[call'[c].token] = NoToken
      /\ \A c, d \in Calls :
             Writes(call'[c]) /\ Writes(call'[d]) /\ call'[c].token = call'[d].token
               => c = d
  BY DEF Issued
<1>5. ASSUME NEW c \in Calls, call'[c].pc = "setSession"
      PROVE  /\ session'[call'[c].session] = NoUser
             /\ \A t \in Tokens : pair[t] # call'[c].session
  <2>1. /\ call[c].pc = "setSession" /\ Writes(call[c])
        /\ call'[c].session = call[c].session
    BY <1>5 DEF Writes
  <2>2. session[call[c].session] = NoUser
    BY <2>1 DEF Issued
  <2> QED BY <1>1, <2>1, <2>2 DEF Issued
<1> QED BY <1>3, <1>4, <1>5 DEF Issued, Writes

(* One request moves on, and the keys stay.                                *)
LEMMA MoveHands ==
    ASSUME AuthInv, Issued, UNCHANGED <<pair, signed>>,
           \A s \in Tokens : session'[s] \in {session[s], NoUser},
           NEW c \in Calls, NEW r, CallGoes(c, r),
           Writes(r) => /\ Writes(call[c]) /\ r.pc # "setSession"
                        /\ r.token = call[c].token
                        /\ r.session = call[c].session
    PROVE  Issued' /\ HandsStay
<1>1. \A d \in Calls : call'[d] = IF d = c THEN r ELSE call[d]
  BY DEF CallGoes, AuthInv, AuthTypeOK
<1> QED BY <1>1, QuietHands

(* A number is signed that nothing refers to yet.                          *)
LEMMA SignHands ==
    ASSUME AuthInv, Issued, NEW c \in Calls, NewSession(c) \/ Rotate(c)
    PROVE  Issued' /\ HandsStay
<1>1. PICK r : /\ CallGoes(c, r) /\ r.token = signed + 1
               /\ r.pc = "setSession" => r.session = signed + 1
  <2>1. CASE NewSession(c)
    <3> DEFINE r == [call[c] EXCEPT !.pc = "setSession", !.session = signed + 1,
                                    !.token = signed + 1]
    <3>1. CallGoes(c, r)
      BY <2>1 DEF NewSession
    <3>2. r.token = signed + 1 /\ r.session = signed + 1
      BY CallFacts DEF Call
    <3> HIDE DEF r
    <3> QED BY <3>1, <3>2
  <2>2. CASE Rotate(c)
    <3> DEFINE r == [call[c] EXCEPT !.pc = "setAccess", !.token = signed + 1]
    <3>1. CallGoes(c, r)
      BY <2>2 DEF Rotate
    <3>2. r.token = signed + 1 /\ r.pc = "setAccess"
      BY CallFacts DEF Call
    <3> HIDE DEF r
    <3> QED BY <3>1, <3>2
  <2> QED BY <2>1, <2>2
<1>2. /\ signed' = signed + 1 /\ signed \in 0..MaxTokens /\ signed < MaxTokens
      /\ UNCHANGED <<session, pair>>
  BY DEF NewSession, Rotate, keys, AuthInv, AuthTypeOK
<1>3. /\ \A d \in Calls : call'[d] = IF d = c THEN r ELSE call[d]
      /\ signed + 1 \in Tokens
      /\ pair \in [Tokens -> 0..MaxTokens]
      /\ session \in [Tokens -> Users \cup {NoUser}]
  BY <1>1, <1>2, AuthAssumption DEF CallGoes, AuthInv, AuthTypeOK, Tokens
<1>4. /\ pair[signed + 1] = NoToken /\ session[signed + 1] = NoUser
      /\ \A t \in Tokens : pair[t] # signed + 1
      /\ \A d \in Calls : Writes(call[d]) => call[d].token # signed + 1
  <2>1. ~ (signed + 1 <= signed)
    BY <1>2
  <2> QED BY <1>3, <2>1 DEF Issued
<1>5. HandsStay
  BY <1>2 DEF HandsStay
<1>6. /\ \A t \in Tokens : pair'[t] <= signed' /\ (pair'[t] # NoToken => t <= signed')
      /\ \A s \in Tokens : session'[s] # NoUser => s <= signed'
  BY <1>2, <1>3 DEF Issued, Tokens
<1>7. ASSUME NEW d \in Calls, Writes(call'[d])
      PROVE  call'[d].token <= signed' /\ pair'[call'[d].token] = NoToken
  <2>1. CASE d = c
    BY <1>1, <1>2, <1>3, <1>4, <2>1
  <2>2. CASE d # c
    <3>1. /\ Writes(call[d]) /\ call'[d] = call[d]
          /\ call[d].token <= signed /\ pair[call[d].token] = NoToken
      BY <1>3, <1>7, <2>2 DEF Issued
    <3>2. call[d].token \in Int
      BY CallFacts, AuthAssumption DEF Call
    <3> QED BY <1>2, <3>1, <3>2
  <2> QED BY <2>1, <2>2
<1>8. ASSUME NEW d \in Calls, NEW e \in Calls, Writes(call'[d]),
             Writes(call'[e]), call'[d].token = call'[e].token
      PROVE  d = e
  BY <1>1, <1>3, <1>4, <1>8 DEF Issued
<1>9. ASSUME NEW d \in Calls, call'[d].pc = "setSession"
      PROVE  /\ session'[call'[d].session] = NoUser
             /\ \A t \in Tokens : pair'[t] # call'[d].session
  BY <1>1, <1>2, <1>3, <1>4, <1>9 DEF Issued
<1> QED BY <1>5, <1>6, <1>7, <1>8, <1>9 DEF Issued

(* The session key of a login, written or left by a failed write, is of a  *)
(* session nobody else writes and no client has.                           *)
LEMMA SessionHands ==
    ASSUME AuthInv, Issued, NEW c \in Calls, call[c].pc = "setSession",
           NEW r, CallGoes(c, r), r.pc # "setSession",
           Writes(r) => r.token = call[c].token /\ r.session = call[c].session,
           session' = [session EXCEPT ![call[c].session] = call[c].user],
           UNCHANGED <<pair, signed>>
    PROVE  Issued' /\ HandsStay
<1>1. /\ Writes(call[c]) /\ Renews(c) /\ call[c].session \in Tokens
      /\ call[c].session <= signed
  BY WriterFacts, CallFacts DEF Writes
<1>2. /\ \A d \in Calls : call'[d] = IF d = c THEN r ELSE call[d]
      /\ \A s \in Tokens : s # call[c].session => session'[s] = session[s]
  BY <1>1 DEF CallGoes, AuthInv, AuthTypeOK
<1>3. /\ session[call[c].session] = NoUser
      /\ \A t \in Tokens : pair[t] # call[c].session
      /\ \A t \in Tokens : pair[t] # NoToken => pair[t] \in Tokens
  BY DEF Issued, AuthInv, AuthTypeOK, Tokens, NoToken
<1>4. HandsStay
  BY <1>2, <1>3 DEF HandsStay
<1>5. \A s \in Tokens : session'[s] # NoUser => s <= signed
  BY <1>1, <1>2 DEF Issued
<1>6. /\ \A d \in Calls : Writes(call'[d]) =>
             call'[d].token <= signed /\ pair[call'[d].token] = NoToken
      /\ \A d, e \in Calls :
             Writes(call'[d]) /\ Writes(call'[e]) /\ call'[d].token = call'[e].token
               => d = e
  BY <1>1, <1>2 DEF Issued
<1>7. ASSUME NEW d \in Calls, call'[d].pc = "setSession"
      PROVE  /\ session'[call'[d].session] = NoUser
             /\ \A t \in Tokens : pair[t] # call'[d].session
  <2>1. d # c /\ call'[d] = call[d] /\ call[d].pc = "setSession"
    BY <1>2, <1>7
  <2>2. Renews(d) /\ call[d].session \in Tokens
    BY <2>1, WriterFacts
  <2>3. call[d].session # call[c].session
    BY <1>1, <2>1, <2>2 DEF AuthInv, OneRenewal
  <2> QED BY <1>2, <2>1, <2>2, <2>3 DEF Issued
<1> QED BY <1>4, <1>5, <1>6, <1>7 DEF Issued, Writes

(* The client is given a pair that nobody had.                             *)
LEMMA HandOverHands ==
    ASSUME AuthInv, Issued, NEW c \in Calls, SetRefresh(c)
    PROVE  Issued' /\ HandsStay
<1>1. /\ call[c].pc = "setRefresh" /\ CallGoes(c, NoCall)
      /\ pair' = [pair EXCEPT ![call[c].token] = call[c].session]
      /\ UNCHANGED <<session, signed>>
  BY DEF SetRefresh, CallAt
<1>2. /\ Writes(call[c]) /\ Renews(c) /\ call[c].session \in Tokens
      /\ call[c].token \in Tokens /\ call[c].session <= signed
      /\ pair[call[c].token] = NoToken /\ call[c].token <= signed
  BY <1>1, WriterFacts, CallFacts DEF Writes, Issued
<1>3. /\ \A d \in Calls : call'[d] = IF d = c THEN NoCall ELSE call[d]
      /\ ~ Writes(NoCall) /\ NoCall.pc # "setSession"
      /\ \A t \in Tokens : t # call[c].token => pair'[t] = pair[t]
      /\ pair'[call[c].token] = call[c].session
  BY <1>1, <1>2 DEF CallGoes, AuthInv, AuthTypeOK, Writes, NoCall
<1>4. HandsStay
  BY <1>1, <1>2, <1>3 DEF HandsStay
<1>5. \A t \in Tokens : pair'[t] <= signed /\ (pair'[t] # NoToken => t <= signed)
  BY <1>2, <1>3 DEF Issued
<1>6. ASSUME NEW d \in Calls, Writes(call'[d])
      PROVE  /\ d # c /\ call'[d] = call[d] /\ Writes(call[d]) /\ Renews(d)
             /\ call[d].token \in Tokens /\ call[d].token # call[c].token
             /\ call[d].session # call[c].session
  <2>1. d # c /\ call'[d] = call[d] /\ Writes(call[d])
    BY <1>3, <1>6
  <2>2. Renews(d) /\ call[d].token \in Tokens
    BY <2>1, WriterFacts DEF Writes
  <2> QED BY <1>2, <2>1, <2>2 DEF Issued, AuthInv, OneRenewal
<1>7. ASSUME NEW d \in Calls, call'[d].pc = "setSession"
      PROVE  /\ session[call'[d].session] = NoUser
             /\ \A t \in Tokens : pair'[t] # call'[d].session
  BY <1>3, <1>6, <1>7 DEF Issued, Writes
<1>8. /\ \A d \in Calls : Writes(call'[d]) =>
             call'[d].token <= signed /\ pair'[call'[d].token] = NoToken
      /\ \A d, e \in Calls :
             Writes(call'[d]) /\ Writes(call'[e]) /\ call'[d].token = call'[e].token
               => d = e
  BY <1>3, <1>6 DEF Issued
<1> QED BY <1>1, <1>4, <1>5, <1>7, <1>8 DEF Issued

(* A failed write ends the request; what it may have written of a session  *)
(* is its own.                                                             *)
LEMMA SetFailsHands ==
    ASSUME AuthInv, Issued, NEW c \in Calls, NEW applied \in BOOLEAN,
           NEW undone \in BOOLEAN, SetFails(c, applied, undone)
    PROVE  Issued' /\ HandsStay
<1>1. CallGoes(c, NoCall) /\ UNCHANGED <<pair, signed>>
  BY DEF SetFails, notes
<1>2. ~ Writes(NoCall) /\ NoCall.pc # "setSession"
  BY DEF Writes, NoCall
<1>3. CASE call[c].pc = "setSession" /\ applied
  <2>1. session' = [session EXCEPT ![call[c].session] = call[c].user]
    BY <1>3 DEF SetFails
  <2> QED BY <1>1, <1>2, <1>3, <2>1, SessionHands
<1>4. CASE ~ (call[c].pc = "setSession" /\ applied)
  <2>1. session' \in {session, [session EXCEPT ![call[c].session] = NoUser]}
    BY <1>4 DEF SetFails
  <2>2. \A s \in Tokens : session'[s] \in {session[s], NoUser}
    BY <2>1 DEF AuthInv, AuthTypeOK
  <2> QED BY <1>1, <1>2, <2>2, MoveHands
<1> QED BY <1>3, <1>4

(* Every step of a request, and every key that expires.                    *)
LEMMA StepHands ==
    ASSUME AuthInv, Issued, AuthStep
    PROVE  Issued' /\ HandsStay
<1>0. /\ ~ Writes(NoCall)
      /\ \A s \in Tokens : session[s] \in {session[s], NoUser}
      /\ session \in [Tokens -> Users \cup {NoUser}]
  BY DEF Writes, NoCall, AuthInv, AuthTypeOK
<1>1. CASE \E t \in Tokens : \/ ConsumeLost(t) \/ SessionExpires(t)
                            \/ AccessExpires(t) \/ RefreshExpires(t)
  <2>1. /\ UNCHANGED <<pair, signed, call>>
        /\ \A s \in Tokens : session'[s] \in {session[s], NoUser}
    BY <1>0, <1>1 DEF ConsumeLost, SessionExpires, AccessExpires,
         RefreshExpires, notes
  <2> QED BY <2>1, QuietHands
<1>2. ASSUME NEW c \in Calls,
             \/ \E u \in Users : Login(c, u)
             \/ \E t \in Tokens :
                    RefreshToken(c, t) \/ Logout(c, t) \/ ValidateToken(c, t)
      PROVE  Issued' /\ HandsStay
  <2>1. PICK r : CallGoes(c, r) /\ ~ Writes(r)
    <3>1. \A u : ~ Writes([NoCall EXCEPT !.pc = "roles", !.op = "login",
                                         !.user = u])
      BY DEF Writes, NoCall
    <3>2. \A k : /\ ~ Writes([NoCall EXCEPT !.pc = "session", !.op = "refresh",
                                            !.session = k])
                 /\ ~ Writes([NoCall EXCEPT !.pc = "revoke", !.op = "logout",
                                            !.session = k])
      BY DEF Writes, NoCall
    <3>3. \A k, t, b, g :
              ~ Writes([NoCall EXCEPT !.pc = "session", !.op = "validate",
                                      !.session = k, !.token = t,
                                      !.began = b, !.gone = g])
      BY DEF Writes, NoCall
    <3>4. CASE \E u \in Users : Login(c, u)
      BY <3>1, <3>4 DEF Login
    <3>5. CASE \E t \in Tokens : RefreshToken(c, t) \/ Logout(c, t)
      BY <3>2, <3>5 DEF RefreshToken, Logout
    <3>6. CASE \E t \in Tokens : ValidateToken(c, t)
      BY <3>3, <3>6 DEF ValidateToken
    <3> QED BY <1>2, <3>4, <3>5, <3>6
  <2>2. UNCHANGED <<pair, signed, session>>
    BY <1>2 DEF Login, RefreshToken, Logout, ValidateToken, keys, notes
  <2> QED BY <1>0, <2>1, <2>2, MoveHands
<1>3. ASSUME NEW c \in Calls, GetSession(c) \/ GetUser(c) \/ Pass(c)
      PROVE  Issued' /\ HandsStay
  <2>1. PICK r : CallGoes(c, r) /\ ~ Writes(r)
    <3>1. /\ \A u : ~ Writes([call[c] EXCEPT !.pc = "user", !.user = u])
          /\ ~ Writes([call[c] EXCEPT !.pc = "roles"])
          /\ ~ Writes([call[c] EXCEPT !.pc = "passed"])
      BY CallFacts DEF Call, Writes
    <3>2. CASE GetSession(c)
      BY <3>1, <3>2 DEF GetSession
    <3>3. CASE GetUser(c)
      BY <3>1, <3>3 DEF GetUser
    <3>4. CASE Pass(c)
      BY <3>1, <3>4 DEF Pass
    <3> QED BY <1>3, <3>2, <3>3, <3>4
  <2>2. UNCHANGED <<pair, signed, session>>
    BY <1>3 DEF GetSession, GetUser, Pass, keys, notes
  <2> QED BY <1>0, <2>1, <2>2, MoveHands
<1>4. ASSUME NEW c \in Calls,
             Refuse(c) \/ Served(c) \/ CallDies(c) \/ RevokeSession(c)
      PROVE  Issued' /\ HandsStay
  <2>1. /\ CallGoes(c, NoCall) /\ UNCHANGED <<pair, signed>>
        /\ \A s \in Tokens : session'[s] \in {session[s], NoUser}
    BY <1>0, <1>4 DEF Refuse, Served, CallDies, RevokeSession, keys, notes
  <2> QED BY <1>0, <2>1, MoveHands
<1>5. ASSUME NEW c \in Calls, SetSession(c)
      PROVE  Issued' /\ HandsStay
  <2> DEFINE r == [call[c] EXCEPT !.pc = "setAccess"]
  <2>1. /\ call[c].pc = "setSession" /\ CallGoes(c, r)
        /\ session' = [session EXCEPT ![call[c].session] = call[c].user]
        /\ UNCHANGED <<pair, signed>>
    BY <1>5 DEF SetSession, CallAt, notes
  <2>2. /\ r.pc = "setAccess" /\ r.token = call[c].token
        /\ r.session = call[c].session
    BY CallFacts DEF Call
  <2> HIDE DEF r
  <2> QED BY <2>1, <2>2, SessionHands
<1>6. ASSUME NEW c \in Calls, SetAccess(c)
      PROVE  Issued' /\ HandsStay
  <2> DEFINE r == [call[c] EXCEPT !.pc = "setRefresh"]
  <2>1. /\ call[c].pc = "setAccess" /\ CallGoes(c, r)
        /\ UNCHANGED <<pair, signed, session>>
    BY <1>6 DEF SetAccess, CallAt, notes
  <2>2. /\ r.pc = "setRefresh" /\ r.token = call[c].token
        /\ r.session = call[c].session
    BY CallFacts DEF Call
  <2> HIDE DEF r
  <2> QED BY <1>0, <2>1, <2>2, MoveHands DEF Writes
<1> QED BY <1>1, <1>2, <1>3, <1>4, <1>5, <1>6, SignHands, HandOverHands,
           SetFailsHands DEF AuthStep

(* However logins, refreshes, logouts, failed writes, expiries and         *)
(* restarts interleave, a pair of tokens stays with the session it was     *)
(* signed for, a session with the user who logged in, and a session that   *)
(* was logged out or has expired never comes back to life under a pair a   *)
(* client still holds (auth_token.go CreateSession, SaveRotatedTokens).    *)
THEOREM SessionsNeverChangeHands ==
    AuthSpec => [][HandsStay]_<<directoryVars, authVars>>
<1>1. DirectoryInit /\ AuthInit => Issued
  BY AuthAssumption DEF AuthInit, Issued, Writes, NoCall, NoToken
<1>2. AuthInv /\ Issued /\ [AuthNext]_<<directoryVars, authVars>>
        => Issued' /\ HandsStay
  <2> SUFFICES ASSUME AuthInv, Issued, [AuthNext]_<<directoryVars, authVars>>
               PROVE  Issued' /\ HandsStay
    OBVIOUS
  <2>1. CASE AuthStep
    BY <2>1, StepHands
  <2>2. CASE UNCHANGED authVars
    <3>1. UNCHANGED <<pair, signed, session, call>>
      BY <2>2 DEF authVars
    <3> QED BY <3>1, QuietHands
  <2>3. CASE AuthRestarts
    <3>1. UNCHANGED <<pair, signed, session>> /\ \A c \in Calls : call'[c] = NoCall
      BY <2>3 DEF AuthRestarts, keys, notes
    <3>2. ~ Writes(NoCall)
      BY DEF Writes, NoCall
    <3> QED BY <3>1, <3>2, QuietHands
  <2> QED BY <2>1, <2>2, <2>3 DEF AuthNext
<1> QED BY <1>1, <1>2, AuthInvariant, PTL DEF AuthSpec
=============================================================================

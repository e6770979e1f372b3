------------------------------ MODULE Sessions ------------------------------
(***************************************************************************)
(* auth-service (AuthService.register, login, refresh, logout and          *)
(* changePassword) and the front ends that hold its tokens: the middleware *)
(* that keeps a session alive, the sign-in and the sign-out actions.       *)
(*                                                                         *)
(* Every await ends a step; a transaction is one step. A call is a request *)
(* on its way through a front end, the gateway and a handler. The front    *)
(* end stops listening after its time limit and the handler runs on; what  *)
(* the handler answered reaches a front end that still listens. Clocks are *)
(* steps of their own: an access token runs out, a refresh token lapses, a *)
(* lock ends. Passwords are right or wrong; hashes, roles and addresses    *)
(* are left out.                                                           *)
(***************************************************************************)
EXTENDS Integers, Sequences, FiniteSets

CONSTANTS
    Browsers,        \* front ends of one user, each with a cookie of its own
    Calls,           \* requests on their way at once
    MaxFailedLogins, \* MAX_FAILED_LOGINS
    MaxCalls,        \* bound on requests: MaxCalls[q] of a user who is quiet, or not
    NoAccount, NoCookie

ASSUME SessionsAssumption ==
    /\ MaxFailedLogins \in Nat /\ MaxCalls \in [BOOLEAN -> Nat]
    /\ NoAccount \notin [failures : Nat, locked : BOOLEAN, active : BOOLEAN]
    /\ NoCookie \notin [token : Nat, session : Nat, fresh : BOOLEAN]

VARIABLES
    account,        \* the row of the user in the users table, or NoAccount
    identityOutbox, \* the events about the user, oldest first
    session,        \* rows of the sessions table; a row is named by its place
    token,          \* rows of the refresh_tokens table, likewise
    cookie,         \* cookie[b]: what the session cookie holds, or NoCookie
    call,           \* call[c]: where request c is, and what it has read
    calls,          \* requests begun so far
    streak,         \* wrong passwords since the last sign-in
    quiet           \* do the user's requests never overlap and all get an answer?

vars == <<account, identityOutbox, session, token, cookie, call, calls, streak, quiet>>

Idle == [pc |-> "IDLE"]

Init ==
    /\ account = NoAccount
    /\ identityOutbox = <<>>
    /\ session = <<>>
    /\ token = <<>>
    /\ cookie = [b \in Browsers |-> NoCookie]
    /\ call = [c \in Calls |-> Idle]
    /\ calls = 0
    /\ streak = 0
    /\ quiet \in BOOLEAN

-----------------------------------------------------------------------------
(* Requests and their answers. *)

inFlight == \E c \in Calls : call[c] # Idle

request(pc, b) ==
    [pc |-> pc, browser |-> b, heard |-> TRUE, token |-> 0, session |-> 0, failures |-> 0]

begin(c, r) ==
    /\ call[c] = Idle
    /\ quiet => ~ inFlight
    /\ calls < MaxCalls[quiet]
    /\ calls' = calls + 1
    /\ call' = [call EXCEPT ![c] = r]

goto(c, pc) == call' = [call EXCEPT ![c].pc = pc]

(* The handler answers; nobody takes the answer when nobody listens.       *)
answer(c, r) == call' = [call EXCEPT ![c] = IF r.heard THEN r ELSE Idle]

done(c) == call' = [call EXCEPT ![c] = Idle]

-----------------------------------------------------------------------------
(* register *)

ReadForRegister(c) ==
    /\ \E b \in Browsers :
          /\ account = NoAccount
          /\ begin(c, request("REGISTER", b))
    /\ UNCHANGED <<account, identityOutbox, session, token, cookie, streak>>

(* One transaction; the unique index on email refuses the second of two.   *)
Register(c) ==
    /\ call[c].pc = "REGISTER"
    /\ IF account = NoAccount
       THEN /\ account' = [failures |-> 0, locked |-> FALSE, active |-> TRUE]
            /\ identityOutbox' = Append(identityOutbox, "USER_REGISTERED")
            /\ goto(c, "START")
       ELSE done(c) /\ UNCHANGED <<account, identityOutbox>>
    /\ UNCHANGED <<session, token, cookie, calls, streak>>

-----------------------------------------------------------------------------
(* login *)

(* A locked account is refused unread; otherwise the password is compared, *)
(* right or wrong, with the row that was read.                             *)
ReadForLogin(c) ==
    /\ \E b \in Browsers, right \in BOOLEAN :
          /\ account # NoAccount
          /\ ~ account.locked
          /\ IF ~ right
             THEN /\ begin(c, [request("FAILURE", b) EXCEPT !.failures = account.failures])
                  /\ streak' = streak + 1
             ELSE /\ account.active
                  /\ begin(c, request("SUCCESS", b))
                  /\ UNCHANGED streak
    /\ UNCHANGED <<account, identityOutbox, session, token, cookie>>

(* Mutant: the comparison counts the failure twice.                        *)
registerFailure_early(failures) ==
    [failures |-> failures + 1, locked |-> failures + 2 >= MaxFailedLogins]

(* lockout.ts *)
registerFailure(failures) ==
    [failures |-> failures + 1, locked |-> failures + 1 >= MaxFailedLogins]

RecordFailure(c) ==
    /\ call[c].pc = "FAILURE"
    /\ LET next == registerFailure(call[c].failures) IN
       account' = [account EXCEPT !.failures = next.failures, !.locked = next.locked]
    /\ done(c)
    /\ UNCHANGED <<identityOutbox, session, token, cookie, calls, streak>>

RecordSuccess(c) ==
    /\ call[c].pc = "SUCCESS"
    /\ account' = [account EXCEPT !.failures = 0, !.locked = FALSE]
    /\ streak' = 0
    /\ goto(c, "START")
    /\ UNCHANGED <<identityOutbox, session, token, cookie, calls>>

(* startSession: the session first, its refresh token in a write after it. *)
CreateSession(c) ==
    /\ call[c].pc = "START"
    /\ session' = Append(session, [userAgent |-> call[c].browser, revokeReason |-> "NONE"])
    /\ call' = [call EXCEPT ![c].pc = "ISSUE", ![c].session = Len(session) + 1]
    /\ UNCHANGED <<account, identityOutbox, token, cookie, calls, streak>>

newToken(s, from) ==
    [session |-> s, from |-> from, rotated |-> FALSE, revoked |-> FALSE, expired |-> FALSE]

StoreToken(c) ==
    /\ call[c].pc = "ISSUE"
    /\ token' = Append(token, newToken(call[c].session, 0))
    /\ answer(c, [call[c] EXCEPT !.pc = "GRANTED", !.token = Len(token) + 1])
    /\ UNCHANGED <<account, identityOutbox, session, cookie, calls, streak>>

-----------------------------------------------------------------------------
(* refresh *)

(* The middleware sends the token of the cookie the request arrived with.  *)
AskToRefresh(c) ==
    /\ \E b \in Browsers :
          /\ cookie[b] # NoCookie
          /\ ~ cookie[b].fresh
          /\ begin(c, [request("LOOKUP", b) EXCEPT !.token = cookie[b].token])
    /\ UNCHANGED <<account, identityOutbox, session, token, cookie, streak>>

evaluateRefresh(row) ==
    IF row.revoked \/ row.expired THEN "SPENT"
    ELSE IF row.rotated THEN "REFRESH_TOKEN_REUSE"
    ELSE "CHECK_USER"

ReadToken(c) ==
    /\ call[c].pc = "LOOKUP"
    /\ LET row == token[call[c].token] IN
       answer(c, [call[c] EXCEPT !.pc = evaluateRefresh(row), !.session = row.session])
    /\ UNCHANGED <<account, identityOutbox, session, token, cookie, calls, streak>>

CheckUser(c) ==
    /\ call[c].pc = "CHECK_USER"
    /\ goto(c, IF account.active THEN "ROTATE" ELSE "ACCOUNT_INACTIVE")
    /\ UNCHANGED <<account, identityOutbox, session, token, cookie, calls, streak>>

(* One transaction, by token hash: it does not look at the row again.      *)
Rotate(c) ==
    /\ call[c].pc = "ROTATE"
    /\ token' = Append([token EXCEPT ![call[c].token].rotated = TRUE],
                       newToken(call[c].session, call[c].token))
    /\ answer(c, [call[c] EXCEPT !.pc = "GRANTED", !.token = Len(token) + 1])
    /\ UNCHANGED <<account, identityOutbox, session, cookie, calls, streak>>

-----------------------------------------------------------------------------
(* Revocation: revokeSession, logout, changePassword. *)

(* Mutant: only the session is marked.                                     *)
tokensAfterRevoking_kept(revoked) == token

tokensAfterRevoking(revoked) ==
    [t \in DOMAIN token |->
        IF token[t].session \in revoked THEN [token[t] EXCEPT !.revoked = TRUE] ELSE token[t]]

sessionsAfterRevoking(revoked, reason) ==
    [s \in DOMAIN session |->
        IF s \in revoked /\ session[s].revokeReason = "NONE"
        THEN [session[s] EXCEPT !.revokeReason = reason]
        ELSE session[s]]

(* A replay and an inactive account are answered after the revocation, a   *)
(* sign-out is not waited for.                                             *)
RevokeSession(c) ==
    /\ call[c].pc \in {"REFRESH_TOKEN_REUSE", "ACCOUNT_INACTIVE", "USER_SIGNED_OUT"}
    /\ session' = sessionsAfterRevoking({call[c].session}, call[c].pc)
    /\ token' = tokensAfterRevoking({call[c].session})
    /\ IF call[c].pc = "USER_SIGNED_OUT"
       THEN done(c)
       ELSE answer(c, [call[c] EXCEPT !.pc = "SPENT"])
    /\ UNCHANGED <<account, identityOutbox, cookie, calls, streak>>

(* The cookie goes first; the server is told when the access token of the  *)
(* cookie is still good.                                                   *)
SignOut(c) ==
    /\ \E b \in Browsers :
          /\ cookie[b] # NoCookie
          /\ cookie' = [cookie EXCEPT ![b] = NoCookie]
          /\ IF cookie[b].fresh
             THEN begin(c, [request("USER_SIGNED_OUT", b) EXCEPT !.session = cookie[b].session])
             ELSE UNCHANGED <<call, calls>>
    /\ UNCHANGED <<account, identityOutbox, session, token, streak>>

ReadForPassword(c) ==
    /\ \E b \in Browsers :
          /\ cookie[b] # NoCookie
          /\ cookie[b].fresh
          /\ begin(c, request("PASSWORD_CHANGED", b))
    /\ UNCHANGED <<account, identityOutbox, session, token, cookie, streak>>

ChangePassword(c) ==
    /\ call[c].pc = "PASSWORD_CHANGED"
    /\ session' = sessionsAfterRevoking(DOMAIN session, "PASSWORD_CHANGED")
    /\ token' = tokensAfterRevoking(DOMAIN session)
    /\ done(c)
    /\ UNCHANGED <<account, identityOutbox, cookie, calls, streak>>

-----------------------------------------------------------------------------
(* The browser's end, the clocks, and what may go wrong. *)

(* Mutant: the middleware renders with the new token and keeps the old.    *)
cookieAfter_notSet(b, r) ==
    IF r.pc = "SPENT" THEN NoCookie
    ELSE IF cookie[b] = NoCookie
         THEN [token |-> r.token, session |-> r.session, fresh |-> TRUE]
         ELSE [cookie[b] EXCEPT !.fresh = TRUE]

cookieAfter(b, r) ==
    IF r.pc = "SPENT" THEN NoCookie
    ELSE [token |-> r.token, session |-> r.session, fresh |-> TRUE]

Deliver(c) ==
    /\ call[c].pc \in {"GRANTED", "SPENT"}
    /\ LET b == call[c].browser IN cookie' = [cookie EXCEPT ![b] = cookieAfter(b, call[c])]
    /\ done(c)
    /\ UNCHANGED <<account, identityOutbox, session, token, calls, streak>>

(* The front end gives up, or the way back fails: the cookie stays.        *)
StopListening(c) ==
    /\ call[c] # Idle
    /\ call[c].heard
    /\ ~ quiet
    /\ call' = [call EXCEPT ![c] =
          IF @.pc \in {"GRANTED", "SPENT"} THEN Idle ELSE [@ EXCEPT !.heard = FALSE]]
    /\ UNCHANGED <<account, identityOutbox, session, token, cookie, calls, streak>>

(* The handler dies, or a write of it is refused.                          *)
Crash(c) ==
    /\ call[c] # Idle
    /\ call[c].pc \notin {"GRANTED", "SPENT"}
    /\ done(c)
    /\ UNCHANGED <<account, identityOutbox, session, token, cookie, calls, streak>>

AccessTokenExpires(b) ==
    /\ cookie[b] # NoCookie
    /\ cookie[b].fresh
    /\ cookie' = [cookie EXCEPT ![b].fresh = FALSE]
    /\ UNCHANGED <<account, identityOutbox, session, token, call, calls, streak>>

(* Of a revoked token, and of one that no front end holds, nobody asks     *)
(* whether it has expired.                                                 *)
RefreshTokenExpires(t) ==
    /\ \/ \E b \in Browsers : cookie[b] # NoCookie /\ cookie[b].token = t
       \/ \E c \in Calls : call[c] # Idle /\ call[c].token = t
    /\ ~ token[t].expired
    /\ ~ token[t].revoked
    /\ token' = [token EXCEPT ![t].expired = TRUE]
    /\ UNCHANGED <<account, identityOutbox, session, cookie, call, calls, streak>>

LockEnds ==
    /\ account # NoAccount
    /\ account.locked
    /\ account' = [account EXCEPT !.locked = FALSE]
    /\ UNCHANGED <<identityOutbox, session, token, cookie, call, calls, streak>>

(* No handler of the platform changes the status of an account.            *)
Suspend ==
    /\ account # NoAccount
    /\ account.active
    /\ account' = [account EXCEPT !.active = FALSE]
    /\ UNCHANGED <<identityOutbox, session, token, cookie, call, calls, streak>>

startSession(c) == CreateSession(c) \/ StoreToken(c)
register(c) == ReadForRegister(c) \/ Register(c)
login(c) == ReadForLogin(c) \/ RecordFailure(c) \/ RecordSuccess(c)
refresh(c) == AskToRefresh(c) \/ ReadToken(c) \/ CheckUser(c) \/ Rotate(c)
changePassword(c) == ReadForPassword(c) \/ ChangePassword(c)

Next ==
    /\ \/ \E c \in Calls :
             \/ register(c) \/ login(c) \/ startSession(c) \/ refresh(c) \/ changePassword(c)
             \/ SignOut(c) \/ RevokeSession(c) \/ Deliver(c) \/ StopListening(c) \/ Crash(c)
       \/ \E b \in Browsers : AccessTokenExpires(b)
       \/ \E t \in DOMAIN token : RefreshTokenExpires(t)
       \/ LockEnds
       \/ Suspend
    /\ UNCHANGED quiet

Spec == Init /\ [][Next]_vars

-----------------------------------------------------------------------------
(* Properties. *)

(* Every variable stays in the set its columns allow, and rows refer to    *)
(* rows that exist.                                                        *)
TypeOK ==
    /\ account \in [failures : Nat, locked : BOOLEAN, active : BOOLEAN] \cup {NoAccount}
    /\ identityOutbox = IF account = NoAccount THEN <<>> ELSE <<"USER_REGISTERED">>
    /\ \A s \in DOMAIN session : session[s].userAgent \in Browsers
    /\ \A t \in DOMAIN token :
          /\ token[t].session \in DOMAIN session
          /\ token[t].from \in 0 .. t - 1
    /\ \A b \in Browsers : cookie[b] # NoCookie => cookie[b].token \in DOMAIN token
    /\ calls \in 0 .. MaxCalls[quiet]

live(t) == ~ token[t].rotated /\ ~ token[t].revoked

(* createRefreshMiddleware: "without this someone is signed out mid-shift  *)
(* while holding a perfectly valid refresh token". Whoever sends one       *)
(* request after the other and hears every answer is never taken for a     *)
(* replay: the cookie holds the token of its session that can be exchanged,*)
(* however rotations, sign-outs, expiries and password changes alternate.  *)
QuietUserStaysSignedIn ==
    quiet =>
    /\ \A s \in DOMAIN session : session[s].revokeReason # "REFRESH_TOKEN_REUSE"
    /\ \A b \in Browsers : ~ inFlight /\ cookie[b] # NoCookie =>
              /\ token[cookie[b].token].session = cookie[b].session
              /\ ~ token[cookie[b].token].rotated

(* revokeSession and changePassword end a session for good: in sessions of *)
(* users whose requests do not overlap no token of a revoked session can   *)
(* be exchanged, and of any session at most one can.                       *)
QuietRevocationIsFinal ==
    quiet => \A s \in DOMAIN session :
        LET alive == {t \in DOMAIN token : token[t].session = s /\ live(t)} IN
        /\ Cardinality(alive) <= 1
        /\ session[s].revokeReason # "NONE" => alive = {}

(* schema.prisma, failedLoginCount: "Consecutive failed sign-ins; reset on *)
(* success. Drives temporary lockout." An account whose requests do not    *)
(* overlap is locked by MaxFailedLogins wrong passwords in a row and by    *)
(* nothing less, across successes, locks that end and lost writes.         *)
QuietLockIsEarned ==
    quiet /\ account # NoAccount => (account.locked => streak >= MaxFailedLogins)

(* refresh-rotation.ts: "Refresh-token rotation means each token may be    *)
(* exchanged exactly once."                                                *)
ExchangedOnce ==
    \A t \in DOMAIN token :
        Cardinality({n \in DOMAIN token : token[n].from = t}) <= 1
=============================================================================

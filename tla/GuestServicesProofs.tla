------------------------ MODULE GuestServicesProofs ------------------------
(***************************************************************************)
(* Proofs about the services around a guest's stay, for any number of      *)
(* rows, handlers, sockets and principals: whose session it is and when it *)
(* ends, who hears an event, when a stored rating is the right one, what a *)
(* room and a code may cost, what has been announced, and who is told.     *)
(***************************************************************************)
EXTENDS GuestServices, SumTheorems, SequenceTheorems, FiniteSetTheorems, WellFoundedInduction, TLAPS

(* A set of naturals that has a member has a smallest one.                 *)
LEMMA SmallestOf ==
    ASSUME NEW S, S \subseteq Nat, S # {}
    PROVE  \E n \in S : \A m \in S : n <= m
<1> DEFINE R == OpToRel(<, Nat)
<1>1. \E n \in S : \A m \in S : ~ (<<m, n>> \in R)
  BY NatLessThanWellFounded, WFMin, Zenon
<1>2. \A m, n \in S : ~ (<<m, n>> \in R) => n <= m
  BY DEF OpToRel
<1>3. QED
  BY <1>1, <1>2, Zenon

-----------------------------------------------------------------------------
(* auth-service and the cookies that hold its tokens, for any number of    *)
(* browsers, requests under way, sessions and refresh tokens.              *)

Stages ==
    {"REGISTER", "FAILURE", "SUCCESS", "START", "ISSUE", "LOOKUP", "CHECK_USER", "ROTATE",
     "REFRESH_TOKEN_REUSE", "ACCOUNT_INACTIVE", "USER_SIGNED_OUT", "PASSWORD_CHANGED",
     "GRANTED", "SPENT"}

Request ==
    [pc : Stages, browser : Browsers, heard : BOOLEAN, token : Nat, session : Nat,
     failures : Nat]

AccountRow == [failures : Nat, locked : BOOLEAN, active : BOOLEAN]

SessionRow ==
    [userAgent : Browsers,
     revokeReason : {"NONE", "REFRESH_TOKEN_REUSE", "ACCOUNT_INACTIVE", "USER_SIGNED_OUT",
                     "PASSWORD_CHANGED"}]

TokenRow ==
    [session : Nat, from : Nat, rotated : BOOLEAN, revoked : BOOLEAN, expired : BOOLEAN]

CookieRow == [token : Nat, session : Nat, fresh : BOOLEAN]

Columns ==
    /\ account \in AccountRow \cup {NoAccount}
    /\ session \in Seq(SessionRow)
    /\ token \in Seq(TokenRow)
    /\ cookie \in [Browsers -> CookieRow \cup {NoCookie}]
    /\ call \in [Calls -> Request \cup {Idle}]
    /\ calls \in 0 .. MaxCalls[quiet]
    /\ streak \in Nat
    /\ quiet \in BOOLEAN

(* The event of the registration goes with the row.                        *)
RegisteredOnce == identityOutbox = IF account = NoAccount THEN <<>> ELSE <<"USER_REGISTERED">>

(* Session s is one that browser b began.                                  *)
begunBy(s, b) == s \in DOMAIN session /\ session[s].userAgent = b

holds(t, s, b) == t \in DOMAIN token /\ token[t].session = s /\ begunBy(s, b)

TokensRefer ==
    \A t \in DOMAIN token :
        token[t].session \in DOMAIN session /\ token[t].from \in 0 .. t - 1

CookiesRefer ==
    \A b \in Browsers : cookie[b] # NoCookie => holds(cookie[b].token, cookie[b].session, b)

(* What a request has read is there, and belongs to its browser.           *)
refers(r) ==
    /\ r.pc \in {"FAILURE", "SUCCESS"} => account # NoAccount
    /\ r.pc = "LOOKUP" => r.token \in DOMAIN token /\ begunBy(token[r.token].session, r.browser)
    /\ r.pc \in {"CHECK_USER", "ROTATE", "GRANTED"} => holds(r.token, r.session, r.browser)
    /\ r.pc \in {"ISSUE", "REFRESH_TOKEN_REUSE", "ACCOUNT_INACTIVE", "USER_SIGNED_OUT"}
          => begunBy(r.session, r.browser)

CallsRefer == \A c \in Calls : call[c] # Idle => refers(call[c])

Rows == Columns /\ RegisteredOnce /\ TokensRefer /\ CookiesRefer /\ CallsRefer

-----------------------------------------------------------------------------
(* The same, of a user whose requests do not overlap. *)

OneCall == \A c, d \in Calls : call[c] # Idle /\ call[d] # Idle => c = d

alive(s) == {t \in DOMAIN token : token[t].session = s /\ live(t)}

(* What the request under way has read is still so.                        *)
current(r) ==
    /\ r.heard
    /\ r.pc # "REFRESH_TOKEN_REUSE"
    /\ r.pc = "FAILURE" => r.failures + 1 <= streak
    /\ r.pc \in {"LOOKUP", "GRANTED"} => ~ token[r.token].rotated
    /\ r.pc \in {"CHECK_USER", "ROTATE"} => live(r.token)
    /\ r.pc = "ISSUE" =>
          /\ session[r.session].revokeReason = "NONE"
          /\ \A t \in DOMAIN token : token[t].session # r.session

CallsCurrent == \A c \in Calls : call[c] # Idle => current(call[c])

(* A cookie only lags while the answer with the new token is on its way.   *)
CookiesCurrent ==
    \A b \in Browsers : cookie[b] # NoCookie /\ token[cookie[b].token].rotated =>
        \E c \in Calls : call[c].pc = "GRANTED" /\ call[c].browser = b

NeverReplayed ==
    \A s \in DOMAIN session : session[s].revokeReason # "REFRESH_TOKEN_REUSE"

OneAlive ==
    \A s \in DOMAIN session :
        /\ \A t, u \in alive(s) : t = u
        /\ session[s].revokeReason # "NONE" => alive(s) = {}

FailuresInStreak ==
    account # NoAccount =>
        account.failures <= streak /\ (account.locked => streak >= MaxFailedLogins)

Quiet ==
    /\ OneCall /\ CallsCurrent /\ CookiesCurrent /\ NeverReplayed /\ OneAlive
    /\ FailuresInStreak

Inv == Rows /\ (quiet => Quiet)

-----------------------------------------------------------------------------
(* Rows and requests. *)

(* A request is not idle; what is under way and what a cookie holds are    *)
(* rows of their kind, and refer to what is there.                         *)
LEMMA ReadFacts ==
    ASSUME Rows
    PROVE  /\ \A r \in Request : r # Idle
           /\ \A c \in Calls : call[c].pc # "IDLE" \/ call[c] # Idle =>
                 call[c] # Idle /\ call[c] \in Request /\ refers(call[c])
           /\ \A b \in Browsers : cookie[b] # NoCookie =>
                 /\ cookie[b] \in CookieRow
                 /\ holds(cookie[b].token, cookie[b].session, b)
<1>1. \A r \in Request : r # Idle
  BY DEF Request, Stages, Idle
<1>2. \A c \in Calls : call[c] \in Request \cup {Idle}
  BY DEF Rows, Columns
<1>3. Idle.pc = "IDLE"
  BY DEF Idle
<1>4. \A c \in Calls : call[c].pc # "IDLE" => call[c] # Idle
  BY <1>3
<1>5. \A b \in Browsers : cookie[b] \in CookieRow \cup {NoCookie}
  BY DEF Rows, Columns
<1>6. QED
  BY <1>1, <1>2, <1>4, <1>5 DEF Rows, CallsRefer, CookiesRefer

(* No row is a missing one.                                                *)
LEMMA Missing == NoAccount \notin AccountRow /\ NoCookie \notin CookieRow
BY SessionsAssumption DEF AccountRow, CookieRow

(* What a step leaves of the rows others refer to.                         *)
Grows ==
    /\ account # NoAccount => account' # NoAccount
    /\ \A s \in DOMAIN session :
          s \in DOMAIN session' /\ session'[s].userAgent = session[s].userAgent
    /\ \A t \in DOMAIN token :
          /\ t \in DOMAIN token'
          /\ token'[t].session = token[t].session /\ token'[t].from = token[t].from

(* What referred to a row still does when rows are only added and marked.  *)
LEMMA StillRefers ==
    ASSUME TokensRefer, Grows
    PROVE  /\ \A s, b : begunBy(s, b) => begunBy(s, b)'
           /\ \A t, s, b : holds(t, s, b) => holds(t, s, b)'
           /\ \A r : refers(r) => refers(r)'
<1>1. \A s, b : begunBy(s, b) => begunBy(s, b)'
  BY DEF Grows, begunBy
<1>2. \A t, s, b : holds(t, s, b) => holds(t, s, b)'
  BY <1>1 DEF Grows, holds
<1>3. ASSUME NEW r, refers(r) PROVE refers(r)'
  <2>1. r.token \in DOMAIN token /\ begunBy(token[r.token].session, r.browser)
           => r.token \in DOMAIN token' /\ begunBy(token[r.token].session, r.browser)'
    BY DEF Grows, begunBy
  <2>2. QED
    BY <1>1, <1>2, <1>3, <2>1 DEF refers, Grows
<1>4. QED
  BY <1>1, <1>2, <1>3

(* A step keeps the rows in order when what it adds refers to what is      *)
(* there.                                                                  *)
LEMMA RowsStep ==
    ASSUME Rows, Columns', RegisteredOnce', Grows,
           \A t \in DOMAIN token' : t \notin DOMAIN token =>
               token'[t].session \in DOMAIN session' /\ token'[t].from \in 0 .. t - 1,
           \A b \in Browsers : cookie'[b] = cookie[b] \/ cookie'[b] = NoCookie
               \/ holds(cookie[b].token, cookie[b].session, b)',
           \A c \in Calls : call'[c] = call[c] \/ call'[c] = Idle \/ refers(call[c])'
    PROVE  Rows'
<1>1. TokensRefer'
  BY DEF Rows, TokensRefer, Grows
<1>2. CookiesRefer'
  <2>1. SUFFICES ASSUME NEW b \in Browsers, cookie'[b] # NoCookie, cookie'[b] = cookie[b]
                 PROVE  holds(cookie[b].token, cookie[b].session, b)'
    BY DEF CookiesRefer
  <2>2. PICK t, s : t = cookie[b].token /\ s = cookie[b].session
    OBVIOUS
  <2>3. holds(t, s, b)
    BY <2>1, <2>2 DEF Rows, CookiesRefer
  <2>4. holds(t, s, b)'
    BY <2>3, StillRefers DEF Rows
  <2>5. QED
    BY <2>1, <2>2, <2>4 DEF holds, begunBy
<1>3. CallsRefer'
  <2>1. SUFFICES ASSUME NEW c \in Calls, call'[c] # Idle PROVE refers(call[c])'
    BY DEF CallsRefer
  <2>2. CASE call'[c] = call[c]
    <3>1. PICK r : r = call[c]
      OBVIOUS
    <3>2. refers(r)
      BY <2>1, <2>2, <3>1 DEF Rows, CallsRefer
    <3>3. refers(r)'
      BY <3>2, StillRefers DEF Rows
    <3>4. QED
      BY <2>2, <3>1, <3>3 DEF refers, holds, begunBy
  <2>3. QED
    BY <2>1, <2>2
<1>4. QED
  BY <1>1, <1>2, <1>3 DEF Rows

(* Request c is now r.                                                     *)
Becomes(c, r) == r \in Request \cup {Idle} /\ call' = [call EXCEPT ![c] = r]

(* The other requests are where they were.                                 *)
LEMMA CallSet ==
    ASSUME Rows, NEW c \in Calls, NEW r, Becomes(c, r)
    PROVE  /\ call' \in [Calls -> Request \cup {Idle}]
           /\ call'[c] = r
           /\ \A d \in Calls : d # c => call'[d] = call[d]
BY DEF Rows, Columns, Becomes

(* A request that goes on keeps what it has read.                          *)
LEMMA Advances ==
    ASSUME Rows, NEW c \in Calls, call[c] \in Request, NEW pc \in Stages
    PROVE  \E r \in Request :
           /\ r = [call[c] EXCEPT !.pc = pc] /\ r.pc = pc /\ r.browser = call[c].browser
           /\ r.token = call[c].token /\ r.session = call[c].session
           /\ r.heard = call[c].heard /\ r.failures = call[c].failures
           /\ goto(c, pc) => Becomes(c, r)
<1> DEFINE r == [call[c] EXCEPT !.pc = pc]
<1>1. /\ r \in Request /\ r.pc = pc /\ r.browser = call[c].browser
      /\ r.token = call[c].token /\ r.session = call[c].session
      /\ r.heard = call[c].heard /\ r.failures = call[c].failures
  BY DEF Request
<1>2. goto(c, pc) => call' = [call EXCEPT ![c] = r]
  BY DEF goto, Rows, Columns
<1>3. QED
  BY <1>1, <1>2 DEF Becomes

(* A new request has read nothing but what it says.                        *)
LEMMA NewRequest ==
    ASSUME NEW pc \in Stages, NEW b \in Browsers
    PROVE  \E r \in Request :
           /\ r = request(pc, b) /\ r.pc = pc /\ r.browser = b /\ r.heard
           /\ r.token = 0 /\ r.session = 0 /\ r.failures = 0
<1> DEFINE r == request(pc, b)
<1>1. /\ r \in Request /\ r.pc = pc /\ r.browser = b /\ r.heard
      /\ r.token = 0 /\ r.session = 0 /\ r.failures = 0
  BY DEF request, Request
<1>2. QED
  BY <1>1

(* Requests of a quiet user: the one that moves is the only one.           *)
LEMMA QuietCall ==
    ASSUME Rows, OneCall, NEW c \in Calls, NEW r, Becomes(c, r),
           call[c] # Idle \/ ~ inFlight,
           r # Idle => current(r)'
    PROVE  /\ OneCall' /\ CallsCurrent'
           /\ \A d \in Calls : d # c => call[d] = Idle /\ call'[d] = Idle
<1>1. \A d \in Calls : d # c => call[d] = Idle
  BY DEF OneCall, inFlight
<1>2. /\ call'[c] = r
      /\ \A d \in Calls : d # c => call'[d] = Idle
  BY <1>1, CallSet
<1>3. OneCall'
  BY <1>2 DEF OneCall
<1>4. ASSUME NEW d \in Calls, call'[d] # Idle PROVE current(call[d])'
  <2>1. d = c /\ current(r)'
    BY <1>2, <1>4
  <2>2. QED
    BY <1>2, <2>1 DEF current, live
<1>5. QED
  BY <1>1, <1>2, <1>3, <1>4 DEF CallsCurrent

(* A request begins where none was, and quietly only when no other is      *)
(* under way.                                                              *)
LEMMA Begins ==
    ASSUME Rows, NEW c \in Calls, NEW r \in Request, begin(c, r), quiet' = quiet
    PROVE  /\ call[c] = Idle /\ Becomes(c, r) /\ (quiet => ~ inFlight)
           /\ calls' \in (0 .. MaxCalls[quiet])'
BY SessionsAssumption DEF begin, Becomes, Rows, Columns

(* Steps that move one request and leave sessions, tokens and cookies.     *)
LEMMA RequestMoves ==
    ASSUME Rows, NEW c \in Calls, NEW r, Becomes(c, r),
           UNCHANGED <<session, token, cookie, quiet>>,
           account' \in AccountRow \cup {NoAccount},
           account # NoAccount => account' # NoAccount,
           RegisteredOnce',
           calls' \in (0 .. MaxCalls[quiet])', streak' \in Nat,
           r # Idle => refers(r)'
    PROVE  Rows'
<1>1. Columns'
  BY CallSet DEF Rows, Columns
<1>2. Grows
  BY DEF Grows
<1>3. \A d \in Calls : call'[d] = call[d] \/ call'[d] = Idle \/ refers(call[d])'
  <2>1. SUFFICES ASSUME r # Idle PROVE refers(call[c])'
    BY CallSet
  <2>2. QED
    BY <2>1, CallSet DEF refers, holds, begunBy
<1>4. QED
  BY <1>1, <1>2, <1>3, RowsStep

(* Such a step of a quiet user, before an answer with a new token is on    *)
(* its way.                                                                *)
LEMMA QuietMoves ==
    ASSUME Rows, Quiet, NEW c \in Calls, NEW r, Becomes(c, r),
           UNCHANGED <<session, token, cookie>>,
           call[c].pc # "GRANTED",
           call[c] # Idle \/ ~ inFlight,
           r # Idle => current(r)',
           FailuresInStreak'
    PROVE  Quiet'
<1>1. /\ OneCall' /\ CallsCurrent'
      /\ \A d \in Calls : d # c => call[d] = Idle /\ call'[d] = Idle
  BY QuietCall DEF Quiet
<1>2. CookiesCurrent'
  <2>1. \A d \in Calls : call[d].pc # "GRANTED"
    BY <1>1 DEF Idle
  <2>2. QED
    BY <2>1 DEF Quiet, CookiesCurrent
<1>3. NeverReplayed' /\ OneAlive'
  BY DEF Quiet, NeverReplayed, OneAlive, alive, live
<1>4. QED
  BY <1>1, <1>2, <1>3 DEF Quiet

(* Registration begins.                                                    *)
LEMMA ReadForRegisterKeeps ==
    ASSUME Inv, quiet' = quiet, NEW c \in Calls, ReadForRegister(c)
    PROVE  Inv'
<1>1. PICK b \in Browsers : begin(c, request("REGISTER", b))
  BY DEF ReadForRegister
<1>2. PICK r \in Request : r = request("REGISTER", b) /\ r.pc = "REGISTER" /\ r.heard
  BY NewRequest DEF Stages
<1>3. /\ call[c] = Idle /\ Becomes(c, r) /\ (quiet => ~ inFlight)
      /\ calls' \in (0 .. MaxCalls[quiet])'
  BY <1>1, <1>2, Begins DEF Inv
<1>4. UNCHANGED <<account, identityOutbox, session, token, cookie, streak>>
  BY DEF ReadForRegister
<1>5. refers(r)' /\ (quiet => current(r)')
  BY <1>2 DEF refers, current
<1>6. RegisteredOnce' /\ (quiet => FailuresInStreak')
  BY <1>4 DEF Inv, Rows, RegisteredOnce, Quiet, FailuresInStreak
<1>7. Rows'
  BY <1>3, <1>4, <1>5, <1>6, RequestMoves DEF Inv, Rows, Columns
<1>8. QED
  BY <1>3, <1>4, <1>5, <1>6, <1>7, QuietMoves DEF Inv, Idle

(* The registration: the first inserts, the second is refused.             *)
LEMMA RegisterKeeps ==
    ASSUME Inv, quiet' = quiet, NEW c \in Calls, Register(c)
    PROVE  Inv'
<1>1. call[c].pc = "REGISTER" /\ call[c] # Idle /\ call[c] \in Request
      /\ UNCHANGED <<session, token, cookie, calls, streak>>
  BY ReadFacts DEF Register, Inv
<1>2. calls' \in (0 .. MaxCalls[quiet])' /\ streak' \in Nat
  BY <1>1 DEF Inv, Rows, Columns
<1>3. CASE account = NoAccount
  <2>1. PICK r \in Request : /\ r.pc = "START" /\ r.heard = call[c].heard
                             /\ (goto(c, "START") => Becomes(c, r))
    BY <1>1, Advances DEF Stages, Inv
  <2>2. /\ account' = [failures |-> 0, locked |-> FALSE, active |-> TRUE]
        /\ identityOutbox' = Append(identityOutbox, "USER_REGISTERED")
        /\ Becomes(c, r)
    BY <1>3, <2>1 DEF Register
  <2>3. account' \in AccountRow /\ account' # NoAccount
    <3>1. account' \in AccountRow
      BY <2>2 DEF AccountRow
    <3>2. QED
      BY <3>1, Missing
  <2>4. RegisteredOnce'
    BY <1>3, <2>2, <2>3 DEF Inv, Rows, RegisteredOnce
  <2>5. refers(r)' /\ (quiet => current(r)')
    BY <1>1, <2>1 DEF refers, current, Inv, Quiet, CallsCurrent
  <2>6. FailuresInStreak'
    BY <1>1, <2>2 DEF FailuresInStreak, Inv, Rows, Columns
  <2>7. Rows'
    BY <1>1, <1>2, <1>3, <2>2, <2>3, <2>4, <2>5, RequestMoves DEF Inv
  <2>8. QED
    BY <1>1, <2>2, <2>5, <2>6, <2>7, QuietMoves DEF Inv
<1>4. CASE account # NoAccount
  <2>1. Becomes(c, Idle) /\ UNCHANGED <<account, identityOutbox>>
    BY <1>4 DEF Register, done, Becomes
  <2>2. RegisteredOnce' /\ (quiet => FailuresInStreak')
    BY <1>1, <2>1 DEF Inv, Rows, RegisteredOnce, Quiet, FailuresInStreak
  <2>3. Rows'
    BY <1>1, <1>2, <2>1, <2>2, RequestMoves DEF Inv, Rows, Columns
  <2>4. QED
    BY <1>1, <2>1, <2>2, <2>3, QuietMoves DEF Inv
<1>5. QED
  BY <1>3, <1>4

(* A sign-in reads the account: a wrong password lengthens the streak.     *)
LEMMA ReadForLoginKeeps ==
    ASSUME Inv, quiet' = quiet, NEW c \in Calls, ReadForLogin(c)
    PROVE  Inv'
<1>1. /\ account # NoAccount
      /\ UNCHANGED <<account, identityOutbox, session, token, cookie>>
  BY DEF ReadForLogin
<1>2. account \in AccountRow /\ account.failures \in Nat /\ streak \in Nat
  BY <1>1 DEF Inv, Rows, Columns, AccountRow
<1>3. PICK b \in Browsers :
         \/ /\ begin(c, [request("FAILURE", b) EXCEPT !.failures = account.failures])
            /\ streak' = streak + 1
         \/ begin(c, request("SUCCESS", b)) /\ UNCHANGED streak
  BY DEF ReadForLogin
<1>4. PICK r \in Request :
         /\ begin(c, r) /\ r.pc \in {"FAILURE", "SUCCESS"} /\ r.heard
         /\ r.pc = "FAILURE" => r.failures = account.failures /\ streak' = streak + 1
         /\ streak' \in {streak, streak + 1}
  <2>1. CASE /\ begin(c, [request("FAILURE", b) EXCEPT !.failures = account.failures])
             /\ streak' = streak + 1
    <3>1. PICK q \in Request : q = request("FAILURE", b) /\ q.pc = "FAILURE" /\ q.heard
      BY NewRequest DEF Stages
    <3>2. /\ [q EXCEPT !.failures = account.failures] \in Request
          /\ [q EXCEPT !.failures = account.failures].pc = "FAILURE"
          /\ [q EXCEPT !.failures = account.failures].heard
          /\ [q EXCEPT !.failures = account.failures].failures = account.failures
      BY <1>2, <3>1 DEF Request
    <3>3. QED
      BY <2>1, <3>1, <3>2
  <2>2. CASE begin(c, request("SUCCESS", b)) /\ UNCHANGED streak
    <3>1. PICK q \in Request : q = request("SUCCESS", b) /\ q.pc = "SUCCESS" /\ q.heard
      BY NewRequest DEF Stages
    <3>2. QED
      BY <2>2, <3>1
  <2>3. QED
    BY <1>3, <2>1, <2>2
<1>5. /\ call[c] = Idle /\ Becomes(c, r) /\ (quiet => ~ inFlight)
      /\ calls' \in (0 .. MaxCalls[quiet])'
  BY <1>4, Begins DEF Inv
<1>6. refers(r)'
  BY <1>1, <1>4 DEF refers
<1>7. streak' \in Nat /\ streak' >= streak
  BY <1>2, <1>4
<1>8. quiet => current(r)' /\ FailuresInStreak'
  <2>1. SUFFICES ASSUME quiet PROVE current(r)' /\ FailuresInStreak'
    OBVIOUS
  <2>2. account.failures <= streak /\ (account.locked => streak >= MaxFailedLogins)
    BY <1>1, <2>1 DEF Inv, Quiet, FailuresInStreak
  <2>3. current(r)'
    BY <1>2, <1>4, <2>2 DEF current
  <2>4. FailuresInStreak'
    BY <1>1, <1>2, <1>7, <2>2, SessionsAssumption DEF FailuresInStreak
  <2>5. QED
    BY <2>3, <2>4
<1>9. Rows'
  BY <1>1, <1>2, <1>5, <1>6, <1>7, RequestMoves DEF Inv, Rows, RegisteredOnce
<1>10. QED
  BY <1>1, <1>5, <1>8, <1>9, QuietMoves DEF Inv, Idle

(* The two writes of a sign-in: the failure it has counted, or a clean     *)
(* slate.                                                                  *)
LEMMA RecordFailureKeeps ==
    ASSUME Inv, quiet' = quiet, NEW c \in Calls, RecordFailure(c)
    PROVE  Inv'
<1>1. /\ call[c].pc = "FAILURE" /\ call[c] # Idle /\ call[c] \in Request
      /\ UNCHANGED <<identityOutbox, session, token, cookie, calls, streak>>
      /\ Becomes(c, Idle)
  BY ReadFacts DEF RecordFailure, done, Becomes, Inv
<1>2. account # NoAccount /\ account \in AccountRow
  BY <1>1, ReadFacts DEF Inv, refers, Rows, Columns
<1>3. call[c].failures \in Nat /\ streak \in Nat
  BY <1>1 DEF Request, Inv, Rows, Columns
<1>4. /\ account' \in AccountRow /\ account'.failures = call[c].failures + 1
      /\ account'.locked => call[c].failures + 1 >= MaxFailedLogins
  <2>1. PICK n, l : n = call[c].failures + 1 /\ l = (n >= MaxFailedLogins)
    OBVIOUS
  <2>2. account' = [account EXCEPT !.failures = n, !.locked = l]
    BY <2>1 DEF RecordFailure, registerFailure
  <2>3. n \in Nat /\ l \in BOOLEAN
    BY <1>3, <2>1
  <2>4. account' \in AccountRow /\ account'.failures = n /\ account'.locked = l
    BY <1>2, <2>2, <2>3 DEF AccountRow
  <2>5. QED
    BY <2>1, <2>4
<1>5. account' # NoAccount
  BY <1>4, Missing
<1>6. quiet => FailuresInStreak'
  <2>1. quiet => call[c].failures + 1 <= streak
    BY <1>1 DEF Inv, Quiet, CallsCurrent, current
  <2>2. SUFFICES ASSUME quiet PROVE FailuresInStreak'
    OBVIOUS
  <2>3. streak' >= call[c].failures + 1
    BY <1>1, <1>3, <2>1, <2>2
  <2>4. account'.locked => streak' >= MaxFailedLogins
    BY <1>1, <1>3, <1>4, <2>3, SessionsAssumption
  <2>5. QED
    BY <1>1, <1>4, <2>3, <2>4 DEF FailuresInStreak
<1>7. Rows'
  BY <1>1, <1>2, <1>4, <1>5, RequestMoves DEF Inv, Rows, RegisteredOnce, Columns
<1>8. QED
  BY <1>1, <1>6, <1>7, QuietMoves DEF Inv

(* A login is recorded as a success, and the failures are forgotten.       *)
LEMMA RecordSuccessKeeps ==
    ASSUME Inv, quiet' = quiet, NEW c \in Calls, RecordSuccess(c)
    PROVE  Inv'
<1>1. /\ call[c].pc = "SUCCESS" /\ call[c] # Idle /\ call[c] \in Request
      /\ UNCHANGED <<identityOutbox, session, token, cookie, calls>>
      /\ streak' = 0
  BY ReadFacts DEF RecordSuccess, Inv
<1>2. account # NoAccount /\ account \in AccountRow
  BY <1>1, ReadFacts DEF Inv, refers, Rows, Columns
<1>3. account' \in AccountRow /\ account'.failures = 0 /\ account'.locked = FALSE
  BY <1>2 DEF RecordSuccess, AccountRow
<1>4. account' # NoAccount
  BY <1>3, Missing
<1>5. PICK r \in Request : /\ r.pc = "START" /\ r.heard = call[c].heard
                           /\ (goto(c, "START") => Becomes(c, r))
  BY <1>1, Advances DEF Stages, Inv
<1>6. Becomes(c, r)
  BY <1>5 DEF RecordSuccess
<1>7. refers(r)' /\ (quiet => current(r)')
  BY <1>1, <1>5 DEF refers, current, Inv, Quiet, CallsCurrent
<1>8. FailuresInStreak'
  BY <1>1, <1>3 DEF FailuresInStreak
<1>9. Rows'
  BY <1>1, <1>2, <1>3, <1>4, <1>6, <1>7, RequestMoves DEF Inv, Rows, RegisteredOnce, Columns
<1>10. QED
  BY <1>1, <1>6, <1>7, <1>8, <1>9, QuietMoves DEF Inv

(* A refresh begins with the token of the cookie.                          *)
LEMMA AskToRefreshKeeps ==
    ASSUME Inv, quiet' = quiet, NEW c \in Calls, AskToRefresh(c)
    PROVE  Inv'
<1>1. PICK b \in Browsers :
         /\ cookie[b] # NoCookie
         /\ begin(c, [request("LOOKUP", b) EXCEPT !.token = cookie[b].token])
  BY DEF AskToRefresh
<1>2. /\ UNCHANGED <<account, identityOutbox, session, token, cookie, streak>>
      /\ cookie[b] \in CookieRow /\ holds(cookie[b].token, cookie[b].session, b)
  BY <1>1, ReadFacts DEF AskToRefresh, Inv
<1>3. PICK r \in Request :
         begin(c, r) /\ r.pc = "LOOKUP" /\ r.heard /\ r.browser = b /\ r.token = cookie[b].token
  <2>1. PICK q \in Request : q = request("LOOKUP", b) /\ q.pc = "LOOKUP" /\ q.heard /\ q.browser = b
    BY NewRequest DEF Stages
  <2>2. cookie[b].token \in Nat
    BY <1>2 DEF CookieRow
  <2>3. LET s == [q EXCEPT !.token = cookie[b].token] IN
           /\ s \in Request /\ s.pc = "LOOKUP" /\ s.heard /\ s.browser = b
           /\ s.token = cookie[b].token
    BY <2>1, <2>2 DEF Request
  <2>4. QED
    BY <1>1, <2>1, <2>3
<1>4. /\ call[c] = Idle /\ Becomes(c, r) /\ (quiet => ~ inFlight)
      /\ calls' \in (0 .. MaxCalls[quiet])'
  BY <1>3, Begins DEF Inv
<1>5. refers(r)'
  BY <1>2, <1>3 DEF refers, holds, begunBy
<1>6. quiet => current(r)'
  <2>1. SUFFICES ASSUME quiet PROVE ~ token[cookie[b].token].rotated
    BY <1>2, <1>3 DEF current
  <2>2. \A d \in Calls : call[d].pc # "GRANTED"
    BY <1>4, <2>1 DEF inFlight, Idle
  <2>3. QED
    BY <1>1, <2>1, <2>2 DEF Inv, Quiet, CookiesCurrent
<1>7. RegisteredOnce' /\ (quiet => FailuresInStreak')
  BY <1>2 DEF Inv, Rows, RegisteredOnce, Quiet, FailuresInStreak
<1>8. Rows'
  BY <1>2, <1>4, <1>5, <1>7, RequestMoves DEF Inv, Rows, Columns
<1>9. QED
  BY <1>2, <1>4, <1>6, <1>7, <1>8, QuietMoves DEF Inv, Idle

(* A request answers: who listens gets r, and the request is over          *)
(* otherwise.                                                              *)
LEMMA Answers ==
    ASSUME NEW c \in Calls, NEW r \in Request, answer(c, r)
    PROVE  \E q \in {r, Idle} : Becomes(c, q) /\ (r.heard => q = r)
BY DEF answer, Becomes

(* The token is looked up: a live one goes on, and quietly no other that   *)
(* is not spent is found.                                                  *)
LEMMA ReadTokenKeeps ==
    ASSUME Inv, quiet' = quiet, NEW c \in Calls, ReadToken(c)
    PROVE  Inv'
<1>1. /\ call[c].pc = "LOOKUP" /\ call[c] # Idle /\ call[c] \in Request /\ refers(call[c])
      /\ UNCHANGED <<account, identityOutbox, session, token, cookie, calls, streak>>
  BY ReadFacts DEF ReadToken, Inv
<1> DEFINE row == token[call[c].token]
           outcome == evaluateRefresh(row)
<1>2. /\ call[c].token \in DOMAIN token /\ begunBy(row.session, call[c].browser)
      /\ row \in TokenRow
  BY <1>1, LenProperties DEF refers, Inv, Rows, Columns
<1>3. /\ outcome \in {"SPENT", "REFRESH_TOKEN_REUSE", "CHECK_USER"}
      /\ outcome = "REFRESH_TOKEN_REUSE" => row.rotated
      /\ outcome = "CHECK_USER" => ~ row.rotated /\ ~ row.revoked
  BY <1>2 DEF evaluateRefresh
<1>4. PICK r : r = [call[c] EXCEPT !.pc = outcome, !.session = row.session]
  OBVIOUS
<1>5. /\ r \in Request /\ r.pc = outcome /\ r.session = row.session /\ answer(c, r)
      /\ r.browser = call[c].browser /\ r.token = call[c].token /\ r.heard = call[c].heard
  <2>1. row.session \in Nat /\ outcome \in Stages
    BY <1>2, <1>3 DEF TokenRow, Stages
  <2>2. answer(c, r)
    BY <1>4 DEF ReadToken
  <2> HIDE DEF outcome, row
  <2>3. QED
    BY <1>1, <1>4, <2>1, <2>2 DEF Request
<1>6. PICK q \in {r, Idle} : Becomes(c, q) /\ (r.heard => q = r)
  BY <1>5, Answers
<1>7. refers(r)'
  <2>1. refers(r)
    BY <1>2, <1>3, <1>5 DEF refers, holds
  <2>2. QED
    BY <1>1, <2>1 DEF refers, holds, begunBy
<1>8. quiet => current(r)'
  <2>1. SUFFICES ASSUME quiet PROVE current(r)'
    OBVIOUS
  <2>2. call[c].heard /\ ~ row.rotated
    BY <1>1, <2>1 DEF Inv, Quiet, CallsCurrent, current
  <2>3. QED
    BY <1>1, <1>3, <1>5, <2>2 DEF current, live
<1>9. RegisteredOnce' /\ (quiet => FailuresInStreak')
  BY <1>1 DEF Inv, Rows, RegisteredOnce, Quiet, FailuresInStreak
<1>10. Rows'
  BY <1>1, <1>6, <1>7, <1>9, RequestMoves DEF Inv, Rows, Columns
<1>11. QED
  BY <1>1, <1>6, <1>8, <1>9, <1>10, QuietMoves DEF Inv

(* Whether the account is active decides what happens to the token.        *)
LEMMA CheckUserKeeps ==
    ASSUME Inv, quiet' = quiet, NEW c \in Calls, CheckUser(c)
    PROVE  Inv'
<1>1. /\ call[c].pc = "CHECK_USER" /\ call[c] # Idle /\ call[c] \in Request /\ refers(call[c])
      /\ UNCHANGED <<account, identityOutbox, session, token, cookie, calls, streak>>
  BY ReadFacts DEF CheckUser, Inv
<1>2. PICK pc \in {"ROTATE", "ACCOUNT_INACTIVE"} : goto(c, pc)
  BY DEF CheckUser
<1>3. PICK r \in Request :
         /\ r.pc = pc /\ r.browser = call[c].browser /\ r.token = call[c].token
         /\ r.session = call[c].session /\ r.heard = call[c].heard
         /\ (goto(c, pc) => Becomes(c, r))
  BY <1>1, Advances DEF Stages, Inv
<1>4. refers(r)'
  BY <1>1, <1>2, <1>3 DEF refers, holds, begunBy
<1>5. quiet => current(r)'
  BY <1>1, <1>2, <1>3 DEF Inv, Quiet, CallsCurrent, current, live
<1>6. RegisteredOnce' /\ (quiet => FailuresInStreak')
  BY <1>1 DEF Inv, Rows, RegisteredOnce, Quiet, FailuresInStreak
<1>7. Rows'
  BY <1>1, <1>2, <1>3, <1>4, <1>6, RequestMoves DEF Inv, Rows, Columns
<1>8. QED
  BY <1>1, <1>2, <1>3, <1>5, <1>6, <1>7, QuietMoves DEF Inv

(* A change of password begins, and is answered without being read.        *)
LEMMA ReadForPasswordKeeps ==
    ASSUME Inv, quiet' = quiet, NEW c \in Calls, ReadForPassword(c)
    PROVE  Inv'
<1>1. PICK b \in Browsers : begin(c, request("PASSWORD_CHANGED", b))
  BY DEF ReadForPassword
<1>2. PICK r \in Request :
         r = request("PASSWORD_CHANGED", b) /\ r.pc = "PASSWORD_CHANGED" /\ r.heard
  BY NewRequest DEF Stages
<1>3. /\ call[c] = Idle /\ Becomes(c, r) /\ (quiet => ~ inFlight)
      /\ calls' \in (0 .. MaxCalls[quiet])'
  BY <1>1, <1>2, Begins DEF Inv
<1>4. UNCHANGED <<account, identityOutbox, session, token, cookie, streak>>
  BY DEF ReadForPassword
<1>5. refers(r)' /\ (quiet => current(r)')
  BY <1>2 DEF refers, current
<1>6. RegisteredOnce' /\ (quiet => FailuresInStreak')
  BY <1>4 DEF Inv, Rows, RegisteredOnce, Quiet, FailuresInStreak
<1>7. Rows'
  BY <1>3, <1>4, <1>5, <1>6, RequestMoves DEF Inv, Rows, Columns
<1>8. QED
  BY <1>3, <1>4, <1>5, <1>6, <1>7, QuietMoves DEF Inv, Idle

(* A handler that dies has written what it had written.                    *)
LEMMA CrashKeeps ==
    ASSUME Inv, quiet' = quiet, NEW c \in Calls, Crash(c)
    PROVE  Inv'
<1>1. /\ call[c] # Idle /\ call[c].pc # "GRANTED" /\ Becomes(c, Idle)
      /\ UNCHANGED <<account, identityOutbox, session, token, cookie, calls, streak>>
  BY DEF Crash, done, Becomes
<1>2. RegisteredOnce' /\ (quiet => FailuresInStreak')
  BY <1>1 DEF Inv, Rows, RegisteredOnce, Quiet, FailuresInStreak
<1>3. Rows'
  BY <1>1, <1>2, RequestMoves DEF Inv, Rows, Columns
<1>4. QED
  BY <1>1, <1>2, <1>3, QuietMoves DEF Inv

(* Nobody stops listening to the answers of a quiet user.                  *)
LEMMA StopListeningKeeps ==
    ASSUME Inv, quiet' = quiet, NEW c \in Calls, StopListening(c)
    PROVE  Inv'
<1>1. /\ call[c] # Idle /\ ~ quiet /\ call[c] \in Request /\ refers(call[c])
      /\ UNCHANGED <<account, identityOutbox, session, token, cookie, calls, streak>>
  BY ReadFacts DEF StopListening, Inv
<1>2. PICK r : r = IF call[c].pc \in {"GRANTED", "SPENT"} THEN Idle
                   ELSE [call[c] EXCEPT !.heard = FALSE]
  OBVIOUS
<1>3. call' = [call EXCEPT ![c] = r]
  BY <1>2 DEF StopListening
<1>4. r # Idle => /\ r \in Request /\ r.pc = call[c].pc /\ r.browser = call[c].browser
                  /\ r.token = call[c].token /\ r.session = call[c].session
  BY <1>1, <1>2 DEF Request
<1>5. Becomes(c, r)
  BY <1>3, <1>4 DEF Becomes
<1>6. r # Idle => refers(r)'
  BY <1>1, <1>4 DEF refers, holds, begunBy
<1>7. RegisteredOnce'
  BY <1>1 DEF Inv, Rows, RegisteredOnce
<1>8. Rows'
  BY <1>1, <1>5, <1>6, <1>7, RequestMoves DEF Inv, Rows, Columns
<1>9. QED
  BY <1>1, <1>8 DEF Inv

-----------------------------------------------------------------------------
(* Steps that write sessions and tokens. *)

(* Rows are in order of their places.                                      *)
LEMMA Places ==
    ASSUME Rows
    PROVE  /\ Len(session) \in Nat /\ DOMAIN session = 1 .. Len(session)
           /\ Len(token) \in Nat /\ DOMAIN token = 1 .. Len(token)
           /\ \A s \in DOMAIN session : session[s] \in SessionRow
           /\ \A t \in DOMAIN token : token[t] \in TokenRow
BY LenProperties DEF Rows, Columns

(* A table that keeps its places and its kind of row.                      *)
LEMMA Rewritten ==
    ASSUME NEW R, NEW table \in Seq(R), NEW f \in [DOMAIN table -> R]
    PROVE  f \in Seq(R) /\ DOMAIN f = DOMAIN table
<1>1. DOMAIN table = 1 .. Len(table) /\ Len(table) \in Nat
  BY LenProperties
<1>2. QED
  BY <1>1, SeqDef

(* The transaction of a start: a session nobody has a token of.            *)
LEMMA CreateSessionKeeps ==
    ASSUME Inv, quiet' = quiet, NEW c \in Calls, CreateSession(c)
    PROVE  Inv'
<1>1. /\ call[c].pc = "START" /\ call[c] # Idle /\ call[c] \in Request
      /\ UNCHANGED <<account, identityOutbox, token, cookie, calls, streak>>
  BY ReadFacts DEF CreateSession, Inv
<1>2. PICK row, n :
         /\ row = [userAgent |-> call[c].browser, revokeReason |-> "NONE"]
         /\ n = Len(session) + 1
  OBVIOUS
<1>3. row \in SessionRow /\ row.userAgent = call[c].browser /\ row.revokeReason = "NONE"
  BY <1>1, <1>2 DEF SessionRow, Request
<1>4. /\ session' \in Seq(SessionRow) /\ n \in Nat /\ session'[n] = row
      /\ DOMAIN session' = DOMAIN session \cup {n} /\ n \notin DOMAIN session
      /\ \A s \in DOMAIN session : session'[s] = session[s]
  <2>1. session' = Append(session, row)
    BY <1>2 DEF CreateSession
  <2>2. session \in Seq(SessionRow)
    BY DEF Inv, Rows, Columns
  <2>3. /\ session' \in Seq(SessionRow) /\ Len(session') = Len(session) + 1
        /\ \A s \in 1 .. Len(session) : session'[s] = session[s]
        /\ session'[Len(session) + 1] = row
    BY <1>3, <2>1, <2>2, AppendProperties
  <2>4. DOMAIN session' = 1 .. Len(session')
    BY <2>3, LenProperties
  <2>5. QED
    BY <1>2, <2>3, <2>4, Places DEF Inv
<1>5. PICK r : r = [call[c] EXCEPT !.pc = "ISSUE", !.session = n]
  OBVIOUS
<1>6. /\ r \in Request /\ r.pc = "ISSUE" /\ r.session = n /\ r.browser = call[c].browser
      /\ r.heard = call[c].heard
  BY <1>1, <1>4, <1>5 DEF Request, Stages
<1>7. Becomes(c, r)
  BY <1>2, <1>5, <1>6 DEF CreateSession, Becomes
<1>8. refers(r)'
  BY <1>3, <1>4, <1>6 DEF refers, begunBy
<1>9. Grows
  BY <1>1, <1>4 DEF Grows
<1>10. Rows'
  <2>1. Columns'
    BY <1>1, <1>4, <1>7, CallSet DEF Inv, Rows, Columns
  <2>2. RegisteredOnce'
    BY <1>1 DEF Inv, Rows, RegisteredOnce
  <2>3. \A d \in Calls : call'[d] = call[d] \/ call'[d] = Idle \/ refers(call[d])'
    BY <1>7, <1>8, CallSet DEF Inv, refers, holds, begunBy
  <2>4. QED
    BY <1>1, <1>9, <2>1, <2>2, <2>3, RowsStep DEF Inv
<1>11. quiet => Quiet'
  <2>1. SUFFICES ASSUME quiet PROVE Quiet'
    OBVIOUS
  <2>2. current(r)'
    BY <1>1, <1>3, <1>4, <1>6, <2>1
       DEF current, Inv, Quiet, CallsCurrent, Rows, TokensRefer
  <2>3. /\ OneCall' /\ CallsCurrent'
        /\ \A d \in Calls : d # c => call[d] = Idle /\ call'[d] = Idle
    BY <1>1, <1>7, <2>1, <2>2, QuietCall DEF Inv, Quiet
  <2>4. CookiesCurrent'
    <3>1. \A d \in Calls : call[d].pc # "GRANTED"
      BY <1>1, <2>3 DEF Idle
    <3>2. QED
      BY <1>1, <2>1, <3>1 DEF Inv, Quiet, CookiesCurrent
  <2>5. NeverReplayed'
    BY <1>3, <1>4, <2>1 DEF Inv, Quiet, NeverReplayed
  <2>6. OneAlive'
    <3>1. alive(n)' = {}
      BY <1>1, <1>4 DEF Inv, Rows, TokensRefer, alive
    <3>2. \A s \in DOMAIN session : alive(s)' = alive(s)
      BY <1>1 DEF alive, live
    <3>3. QED
      BY <1>4, <2>1, <3>1, <3>2 DEF Inv, Quiet, OneAlive
  <2>7. FailuresInStreak'
    BY <1>1, <2>1 DEF Inv, Quiet, FailuresInStreak
  <2>8. QED
    BY <2>3, <2>4, <2>5, <2>6, <2>7 DEF Quiet
<1>12. QED
  BY <1>10, <1>11 DEF Inv

(* A token added to a table, whether or not one in it was marked before.   *)
LEMMA AddToken ==
    ASSUME NEW table \in Seq(TokenRow), NEW row \in TokenRow, token' = Append(table, row)
    PROVE  /\ token' \in Seq(TokenRow) /\ token'[Len(table) + 1] = row
           /\ DOMAIN token' = DOMAIN table \cup {Len(table) + 1}
           /\ Len(table) + 1 \notin DOMAIN table
           /\ \A t \in DOMAIN table : token'[t] = table[t]
<1>1. /\ token' \in Seq(TokenRow) /\ Len(token') = Len(table) + 1
      /\ \A t \in 1 .. Len(table) : token'[t] = table[t]
      /\ token'[Len(table) + 1] = row
  BY AppendProperties
<1>2. /\ DOMAIN token' = 1 .. Len(token') /\ DOMAIN table = 1 .. Len(table)
      /\ Len(table) \in Nat
  BY <1>1, LenProperties
<1>3. QED
  BY <1>1, <1>2

(* A new token is live, and of the session it was made for.                *)
LEMMA NewTokenFacts ==
    ASSUME NEW s \in Nat, NEW from \in Nat
    PROVE  LET row == newToken(s, from) IN
           /\ row \in TokenRow /\ row.session = s /\ row.from = from
           /\ ~ row.rotated /\ ~ row.revoked
BY DEF newToken, TokenRow

(* Of a live token and the only other live one of its session, rotation    *)
(* leaves one; a session's first token is its only one. Both answer with   *)
(* the new token, and a quiet user hears it.                               *)
LEMMA GrantKeeps ==
    ASSUME Inv, quiet' = quiet, NEW c \in Calls, NEW n, NEW r \in Request, NEW s, NEW from,
           call[c] # Idle, call[c].pc # "GRANTED", begunBy(s, call[c].browser),
           UNCHANGED <<account, identityOutbox, session, cookie, calls, streak>>,
           token' \in Seq(TokenRow), DOMAIN token' = DOMAIN token \cup {n}, n \notin DOMAIN token,
           from \in 0 .. n - 1,
           token'[n].session = s, token'[n].from = from,
           ~ token'[n].rotated, ~ token'[n].revoked,
           \A t \in DOMAIN token :
              /\ token'[t].session = token[t].session /\ token'[t].from = token[t].from
              /\ token'[t].revoked = token[t].revoked
              /\ t # from => token'[t].rotated = token[t].rotated
              /\ t = from => token'[t].rotated,
           from \in DOMAIN token => token[from].session = s,
           answer(c, r), r.pc = "GRANTED", r.token = n, r.session = s,
           r.browser = call[c].browser, r.heard = call[c].heard,
           quiet => /\ r.heard /\ session[s].revokeReason = "NONE"
                    /\ \A t \in alive(s) : t = from
    PROVE  Inv'
<1>1. PICK q \in {r, Idle} : Becomes(c, q) /\ (r.heard => q = r)
  BY Answers
<1>2. Grows
  BY DEF Grows
<1>3. holds(n, s, r.browser)'
  BY DEF holds, begunBy
<1>4. refers(r)'
  BY <1>3 DEF refers
<1>5. Rows'
  <2>1. Columns'
    BY <1>1, CallSet DEF Inv, Rows, Columns
  <2>2. RegisteredOnce'
    BY DEF Inv, Rows, RegisteredOnce
  <2>3. \A d \in Calls : call'[d] = call[d] \/ call'[d] = Idle \/ refers(call[d])'
    <3>1. SUFFICES ASSUME q = r PROVE refers(call[c])'
      BY <1>1, CallSet DEF Inv
    <3>2. call'[c] = r
      BY <1>1, <3>1, CallSet DEF Inv
    <3>3. QED
      BY <1>4, <3>2 DEF refers, holds, begunBy
  <2>4. \A t \in DOMAIN token' : t \notin DOMAIN token =>
           token'[t].session \in DOMAIN session' /\ token'[t].from \in 0 .. t - 1
    BY DEF begunBy
  <2>5. QED
    BY <1>2, <2>1, <2>2, <2>3, <2>4, RowsStep DEF Inv
<1>6. quiet => Quiet'
  <2>1. SUFFICES ASSUME quiet PROVE Quiet'
    OBVIOUS
  <2>2. q = r /\ current(r)'
    BY <1>1, <2>1 DEF current
  <2>3. /\ OneCall' /\ CallsCurrent'
        /\ \A d \in Calls : d # c => call[d] = Idle /\ call'[d] = Idle
    BY <1>1, <2>1, <2>2, QuietCall DEF Inv, Quiet
  <2>4. CookiesCurrent'
    <3>1. \A d \in Calls : call[d].pc # "GRANTED"
      BY <2>3 DEF Idle
    <3>2. call'[c].pc = "GRANTED" /\ call'[c].browser = call[c].browser
      BY <1>1, <2>2, CallSet DEF Inv
    <3>3. SUFFICES ASSUME NEW b \in Browsers, cookie[b] # NoCookie,
                          token'[cookie[b].token].rotated
                   PROVE  b = call[c].browser
      BY <3>2 DEF CookiesCurrent
    <3>4. holds(cookie[b].token, cookie[b].session, b) /\ ~ token[cookie[b].token].rotated
      BY <2>1, <3>1, <3>3, ReadFacts DEF Inv, Quiet, CookiesCurrent
    <3>5. cookie[b].token = from
      BY <3>3, <3>4 DEF holds
    <3>6. QED
      BY <3>4, <3>5 DEF holds, begunBy
  <2>5. NeverReplayed' /\ FailuresInStreak'
    BY <2>1 DEF Inv, Quiet, NeverReplayed, FailuresInStreak
  <2>6. OneAlive'
    <3>1. alive(s)' \subseteq {n}
      <4>1. SUFFICES ASSUME NEW t \in alive(s)', t # n PROVE FALSE
        OBVIOUS
      <4>2. t \in DOMAIN token /\ t # from
        BY <4>1 DEF alive, live
      <4>3. t \in alive(s)
        BY <4>1, <4>2 DEF alive, live
      <4>4. QED
        BY <2>1, <4>2, <4>3
    <3>2. ASSUME NEW u \in DOMAIN session, u # s PROVE alive(u)' = alive(u)
      <4>1. \A t \in DOMAIN token : token[t].session = u => t # from
        BY <3>2
      <4>2. QED
        BY <3>2, <4>1 DEF alive, live
    <3>3. QED
      BY <2>1, <3>1, <3>2 DEF Inv, Quiet, OneAlive
  <2>7. QED
    BY <2>3, <2>4, <2>5, <2>6 DEF Quiet
<1>7. QED
  BY <1>5, <1>6 DEF Inv

(* A session's first token.                                                *)
LEMMA StoreTokenKeeps ==
    ASSUME Inv, quiet' = quiet, NEW c \in Calls, StoreToken(c)
    PROVE  Inv'
<1>1. /\ call[c].pc = "ISSUE" /\ call[c] # Idle /\ call[c] \in Request /\ refers(call[c])
      /\ UNCHANGED <<account, identityOutbox, session, cookie, calls, streak>>
  BY ReadFacts DEF StoreToken, Inv
<1>2. PICK s, n, row : s = call[c].session /\ n = Len(token) + 1 /\ row = newToken(s, 0)
  OBVIOUS
<1>3. begunBy(s, call[c].browser) /\ s \in Nat
  BY <1>1, <1>2 DEF refers, Request
<1>4. /\ row \in TokenRow /\ row.session = s /\ row.from = 0 /\ ~ row.rotated /\ ~ row.revoked
  BY <1>2, <1>3, NewTokenFacts
<1>5. /\ token' \in Seq(TokenRow) /\ token'[n] = row
      /\ DOMAIN token' = DOMAIN token \cup {n} /\ n \notin DOMAIN token
      /\ \A t \in DOMAIN token : token'[t] = token[t]
  BY <1>2, <1>4, AddToken DEF StoreToken, Inv, Rows, Columns
<1>6. PICK r : r = [call[c] EXCEPT !.pc = "GRANTED", !.token = n]
  OBVIOUS
<1>7. n \in Nat \ {0} /\ 0 \notin DOMAIN token
  BY <1>2, Places DEF Inv
<1>8. /\ r \in Request /\ r.pc = "GRANTED" /\ r.token = n /\ r.session = s
      /\ r.browser = call[c].browser /\ r.heard = call[c].heard
  BY <1>1, <1>2, <1>6, <1>7 DEF Request, Stages
<1>9. answer(c, r)
  BY <1>2, <1>6 DEF StoreToken
<1>10. quiet => /\ r.heard /\ session[s].revokeReason = "NONE"
                /\ \A t \in alive(s) : t = 0
  BY <1>1, <1>2, <1>8 DEF Inv, Quiet, CallsCurrent, current, alive
<1>11. 0 \in 0 .. n - 1
  BY <1>7
<1>12. QED
  BY <1>1, <1>3, <1>4, <1>5, <1>7, <1>8, <1>9, <1>10, <1>11, GrantKeeps

(* A token exchanged for its successor.                                    *)
LEMMA RotateKeeps ==
    ASSUME Inv, quiet' = quiet, NEW c \in Calls, Rotate(c)
    PROVE  Inv'
<1>1. /\ call[c].pc = "ROTATE" /\ call[c] # Idle /\ call[c] \in Request /\ refers(call[c])
      /\ UNCHANGED <<account, identityOutbox, session, cookie, calls, streak>>
  BY ReadFacts DEF Rotate, Inv
<1>2. PICK s, from, n, row, marked :
         /\ s = call[c].session /\ from = call[c].token /\ n = Len(token) + 1
         /\ row = newToken(s, from) /\ marked = [token[from] EXCEPT !.rotated = TRUE]
  OBVIOUS
<1>3. PICK table : table = [token EXCEPT ![from] = marked]
  OBVIOUS
<1>4. holds(from, s, call[c].browser) /\ s \in Nat /\ from \in Nat
  BY <1>1, <1>2 DEF refers, Request
<1>5. /\ row \in TokenRow /\ row.session = s /\ row.from = from
      /\ ~ row.rotated /\ ~ row.revoked
  BY <1>2, <1>4, NewTokenFacts
<1>6. /\ from \in 1 .. Len(token) /\ Len(token) \in Nat /\ token[from] \in TokenRow
      /\ DOMAIN token = 1 .. Len(token)
  BY <1>4, Places DEF Inv, holds
<1>7. /\ marked \in TokenRow /\ marked.session = token[from].session
      /\ marked.from = token[from].from /\ marked.revoked = token[from].revoked
      /\ marked.rotated
  BY <1>2, <1>6 DEF TokenRow
<1>8. token \in Seq(TokenRow)
  BY DEF Inv, Rows, Columns
<1>9. /\ table \in Seq(TokenRow) /\ Len(table) = Len(token) /\ DOMAIN table = DOMAIN token
      /\ \A t \in DOMAIN token : table[t] = IF t = from THEN marked ELSE token[t]
  <2>1. /\ table \in Seq(TokenRow) /\ Len(table) = Len(token)
        /\ \A t \in 1 .. Len(token) : table[t] = IF t = from THEN marked ELSE token[t]
    BY <1>3, <1>6, <1>7, <1>8, ExceptSeq
  <2>2. QED
    BY <1>6, <2>1, LenProperties
<1>10. token' = Append(table, row)
  BY <1>2, <1>3 DEF Rotate
<1>11. /\ token' \in Seq(TokenRow) /\ token'[n] = row
       /\ DOMAIN token' = DOMAIN token \cup {n} /\ n \notin DOMAIN token
       /\ \A t \in DOMAIN token : token'[t] = IF t = from THEN marked ELSE token[t]
  BY <1>2, <1>5, <1>9, <1>10, AddToken
<1>12. PICK r : r = [call[c] EXCEPT !.pc = "GRANTED", !.token = n]
  OBVIOUS
<1>13. n \in Nat /\ from \in 0 .. n - 1
  BY <1>2, <1>6
<1>14. /\ r \in Request /\ r.pc = "GRANTED" /\ r.token = n /\ r.session = s
       /\ r.browser = call[c].browser /\ r.heard = call[c].heard
  BY <1>1, <1>2, <1>12, <1>13 DEF Request, Stages
<1>15. answer(c, r)
  BY <1>2, <1>12 DEF Rotate
<1>16. token[from].session = s /\ begunBy(s, call[c].browser)
  BY <1>4 DEF holds
<1>17. quiet => /\ r.heard /\ session[s].revokeReason = "NONE"
                /\ \A t \in alive(s) : t = from
  <2>1. SUFFICES ASSUME quiet
                 PROVE  /\ r.heard /\ session[s].revokeReason = "NONE"
                        /\ \A t \in alive(s) : t = from
    OBVIOUS
  <2>2. r.heard /\ from \in alive(s)
    BY <1>1, <1>2, <1>4, <1>14, <2>1 DEF Inv, Quiet, CallsCurrent, current, alive, holds
  <2>3. QED
    BY <1>16, <2>1, <2>2 DEF Inv, Quiet, OneAlive, begunBy
<1>18. \A t \in DOMAIN token :
          /\ token'[t].session = token[t].session /\ token'[t].from = token[t].from
          /\ token'[t].revoked = token[t].revoked
          /\ t # from => token'[t].rotated = token[t].rotated
          /\ t = from => token'[t].rotated
  BY <1>7, <1>11
<1>19. QED
  BY <1>1, <1>5, <1>11, <1>13, <1>14, <1>15, <1>16, <1>17, <1>18, GrantKeeps

(* A revocation marks sessions and all of their tokens, and nothing else.  *)
LEMMA Revoking ==
    ASSUME Rows, NEW revoked,
           NEW reason \in {"REFRESH_TOKEN_REUSE", "ACCOUNT_INACTIVE", "USER_SIGNED_OUT",
                           "PASSWORD_CHANGED"},
           session' = sessionsAfterRevoking(revoked, reason),
           token' = tokensAfterRevoking(revoked),
           UNCHANGED account
    PROVE  /\ Grows
           /\ session' \in Seq(SessionRow) /\ DOMAIN session' = DOMAIN session
           /\ token' \in Seq(TokenRow) /\ DOMAIN token' = DOMAIN token
           /\ \A s \in DOMAIN session :
                 /\ session'[s].revokeReason \in {session[s].revokeReason, reason}
                 /\ s \notin revoked => session'[s] = session[s]
           /\ \A t \in DOMAIN token :
                 /\ token'[t].session = token[t].session
                 /\ token'[t].rotated = token[t].rotated
                 /\ token[t].session \in revoked => token'[t].revoked
                 /\ token[t].session \notin revoked => token'[t] = token[t]
<1>1. /\ session \in Seq(SessionRow) /\ token \in Seq(TokenRow)
      /\ \A s \in DOMAIN session : session[s] \in SessionRow
      /\ \A t \in DOMAIN token : token[t] \in TokenRow
  BY Places DEF Rows, Columns
<1>2. /\ session' \in [DOMAIN session -> SessionRow]
      /\ \A s \in DOMAIN session :
            /\ session'[s].userAgent = session[s].userAgent
            /\ session'[s].revokeReason \in {session[s].revokeReason, reason}
            /\ s \notin revoked => session'[s] = session[s]
  <2>1. \A s \in DOMAIN session :
           LET row == [session[s] EXCEPT !.revokeReason = reason] IN
           row \in SessionRow /\ row.userAgent = session[s].userAgent
           /\ row.revokeReason = reason
    BY <1>1 DEF SessionRow
  <2>2. QED
    BY <1>1, <2>1 DEF sessionsAfterRevoking
<1>3. /\ token' \in [DOMAIN token -> TokenRow]
      /\ \A t \in DOMAIN token :
            /\ token'[t].session = token[t].session /\ token'[t].from = token[t].from
            /\ token'[t].rotated = token[t].rotated
            /\ token[t].session \in revoked => token'[t].revoked
            /\ token[t].session \notin revoked => token'[t] = token[t]
  <2>1. \A t \in DOMAIN token :
           LET row == [token[t] EXCEPT !.revoked = TRUE] IN
           /\ row \in TokenRow /\ row.session = token[t].session /\ row.from = token[t].from
           /\ row.rotated = token[t].rotated /\ row.revoked
    BY <1>1 DEF TokenRow
  <2>2. QED
    BY <1>1, <2>1 DEF tokensAfterRevoking
<1>4. session' \in Seq(SessionRow) /\ DOMAIN session' = DOMAIN session
  BY <1>1, <1>2, Rewritten
<1>5. token' \in Seq(TokenRow) /\ DOMAIN token' = DOMAIN token
  BY <1>1, <1>3, Rewritten
<1>6. Grows
  BY <1>2, <1>3, <1>4, <1>5 DEF Grows
<1>7. QED
  BY <1>2, <1>3, <1>4, <1>5, <1>6

(* After a revocation, whichever way its request goes on: no token of the  *)
(* revoked sessions is live, and a quiet user is never taken for a replay. *)
LEMMA RevocationKeeps ==
    ASSUME Inv, quiet' = quiet, NEW c \in Calls, NEW revoked, NEW q,
           NEW reason \in {"REFRESH_TOKEN_REUSE", "ACCOUNT_INACTIVE", "USER_SIGNED_OUT",
                           "PASSWORD_CHANGED"},
           quiet => reason # "REFRESH_TOKEN_REUSE",
           call[c] # Idle, call[c].pc # "GRANTED",
           session' = sessionsAfterRevoking(revoked, reason),
           token' = tokensAfterRevoking(revoked),
           UNCHANGED <<account, identityOutbox, cookie, calls, streak>>,
           Becomes(c, q), q # Idle => q.pc = "SPENT" /\ (quiet => q.heard)
    PROVE  Inv'
<1>1. /\ Grows
      /\ session' \in Seq(SessionRow) /\ DOMAIN session' = DOMAIN session
      /\ token' \in Seq(TokenRow) /\ DOMAIN token' = DOMAIN token
      /\ \A s \in DOMAIN session :
            /\ session'[s].revokeReason \in {session[s].revokeReason, reason}
            /\ s \notin revoked => session'[s] = session[s]
      /\ \A t \in DOMAIN token :
            /\ token'[t].session = token[t].session
            /\ token'[t].rotated = token[t].rotated
            /\ token[t].session \in revoked => token'[t].revoked
            /\ token[t].session \notin revoked => token'[t] = token[t]
  BY Revoking DEF Inv
<1>2. q # Idle => refers(q)' /\ (quiet => current(q)')
  BY DEF refers, current
<1>3. Rows'
  <2>1. Columns'
    BY <1>1, CallSet DEF Inv, Rows, Columns
  <2>2. RegisteredOnce'
    BY DEF Inv, Rows, RegisteredOnce
  <2>3. \A d \in Calls : call'[d] = call[d] \/ call'[d] = Idle \/ refers(call[d])'
    <3>1. SUFFICES ASSUME q # Idle PROVE refers(call[c])'
      BY CallSet DEF Inv
    <3>2. call'[c] = q
      BY CallSet DEF Inv
    <3>3. QED
      BY <1>2, <3>1, <3>2 DEF refers, holds, begunBy
  <2>4. QED
    BY <1>1, <2>1, <2>2, <2>3, RowsStep DEF Inv
<1>4. quiet => Quiet'
  <2>1. SUFFICES ASSUME quiet PROVE Quiet'
    OBVIOUS
  <2>2. /\ OneCall' /\ CallsCurrent'
        /\ \A d \in Calls : d # c => call[d] = Idle /\ call'[d] = Idle
    BY <1>2, <2>1, QuietCall DEF Inv, Quiet
  <2>3. CookiesCurrent'
    <3>1. \A d \in Calls : call[d].pc # "GRANTED"
      BY <2>2 DEF Idle
    <3>2. ASSUME NEW b \in Browsers, cookie[b] # NoCookie
          PROVE  ~ token'[cookie[b].token].rotated
      BY <1>1, <2>1, <3>1, <3>2, ReadFacts DEF Inv, Quiet, CookiesCurrent, holds
    <3>3. QED
      BY <3>2 DEF CookiesCurrent
  <2>4. NeverReplayed'
    BY <1>1, <2>1 DEF Inv, Quiet, NeverReplayed
  <2>5. FailuresInStreak'
    BY <2>1 DEF Inv, Quiet, FailuresInStreak
  <2>6. OneAlive'
    <3>1. SUFFICES ASSUME NEW s \in DOMAIN session
                   PROVE  /\ \A t, u \in alive(s)' : t = u
                          /\ session'[s].revokeReason # "NONE" => alive(s)' = {}
      BY <1>1 DEF OneAlive
    <3>2. CASE s \in revoked
      BY <1>1, <3>2 DEF alive, live
    <3>3. CASE s \notin revoked
      <4>1. alive(s)' = alive(s)
        BY <1>1, <3>3 DEF alive, live
      <4>2. QED
        BY <1>1, <2>1, <3>3, <4>1 DEF Inv, Quiet, OneAlive
    <3>4. QED
      BY <3>2, <3>3
  <2>7. QED
    BY <2>2, <2>3, <2>4, <2>5, <2>6 DEF Quiet
<1>5. QED
  BY <1>3, <1>4 DEF Inv

(* A session is revoked: a token reused, an inactive account, a logout.    *)
LEMMA RevokeSessionKeeps ==
    ASSUME Inv, quiet' = quiet, NEW c \in Calls, RevokeSession(c)
    PROVE  Inv'
<1>1. PICK reason \in {"REFRESH_TOKEN_REUSE", "ACCOUNT_INACTIVE", "USER_SIGNED_OUT"} :
         reason = call[c].pc
  BY DEF RevokeSession
<1>2. /\ call[c] # Idle /\ call[c] \in Request /\ call[c].pc # "GRANTED"
      /\ UNCHANGED <<account, identityOutbox, cookie, calls, streak>>
  BY <1>1, ReadFacts DEF RevokeSession, Inv
<1>3. PICK revoked : revoked = {call[c].session}
  OBVIOUS
<1>4. session' = sessionsAfterRevoking(revoked, reason) /\ token' = tokensAfterRevoking(revoked)
  BY <1>1, <1>3 DEF RevokeSession
<1>5. quiet => reason # "REFRESH_TOKEN_REUSE" /\ call[c].heard
  BY <1>1, <1>2 DEF Inv, Quiet, CallsCurrent, current
<1>6. PICK q : Becomes(c, q) /\ (q # Idle => q.pc = "SPENT" /\ (quiet => q.heard))
  <2>1. CASE call[c].pc = "USER_SIGNED_OUT"
    <3>1. Becomes(c, Idle)
      BY <2>1 DEF RevokeSession, done, Becomes
    <3>2. QED
      BY <3>1
  <2>2. CASE call[c].pc # "USER_SIGNED_OUT"
    <3>1. PICK r : r = [call[c] EXCEPT !.pc = "SPENT"]
      OBVIOUS
    <3>2. r \in Request /\ r.pc = "SPENT" /\ r.heard = call[c].heard
      BY <1>2, <3>1 DEF Request, Stages
    <3>3. answer(c, r)
      BY <2>2, <3>1 DEF RevokeSession
    <3>4. QED
      BY <1>5, <3>2, <3>3, Answers
  <2>3. QED
    BY <2>1, <2>2
<1>7. QED
  BY <1>2, <1>4, <1>5, <1>6, RevocationKeeps

(* A new password ends every session of the account.                       *)
LEMMA ChangePasswordKeeps ==
    ASSUME Inv, quiet' = quiet, NEW c \in Calls, ChangePassword(c)
    PROVE  Inv'
<1>1. /\ call[c].pc = "PASSWORD_CHANGED" /\ call[c] # Idle
      /\ UNCHANGED <<account, identityOutbox, cookie, calls, streak>>
      /\ Becomes(c, Idle)
  BY ReadFacts DEF ChangePassword, Inv, done, Becomes
<1>2. PICK revoked : revoked = DOMAIN session
  OBVIOUS
<1>3. /\ session' = sessionsAfterRevoking(revoked, "PASSWORD_CHANGED")
      /\ token' = tokensAfterRevoking(revoked)
  BY <1>2 DEF ChangePassword
<1>4. QED
  BY <1>1, <1>3, RevocationKeeps

-----------------------------------------------------------------------------
(* Cookies and clocks. *)

(* Steps that leave the tables: cookies only change to none, to the same   *)
(* token, or to a new token of their own browser.                          *)
LEMMA CookieMoves ==
    ASSUME Rows, UNCHANGED <<account, identityOutbox, session, token, streak, quiet>>,
           call' \in [Calls -> Request \cup {Idle}],
           calls' \in (0 .. MaxCalls[quiet])',
           cookie' \in [Browsers -> CookieRow \cup {NoCookie}],
           \A b \in Browsers : cookie'[b] # NoCookie =>
               holds(cookie[b].token, cookie[b].session, b)',
           \A c \in Calls : call'[c] = call[c] \/ call'[c] = Idle \/ refers(call[c])'
    PROVE  Rows'
<1>1. Columns' /\ RegisteredOnce'
  BY DEF Rows, Columns, RegisteredOnce
<1>2. Grows
  BY DEF Grows
<1>3. QED
  BY <1>1, <1>2, RowsStep

(* The answer arrives: the cookie holds the new token, or nothing.         *)
LEMMA DeliverKeeps ==
    ASSUME Inv, quiet' = quiet, NEW c \in Calls, Deliver(c)
    PROVE  Inv'
<1>1. /\ call[c].pc \in {"GRANTED", "SPENT"} /\ call[c] # Idle /\ call[c] \in Request
      /\ refers(call[c])
      /\ UNCHANGED <<account, identityOutbox, session, token, calls, streak>>
      /\ Becomes(c, Idle)
  BY ReadFacts DEF Deliver, Inv, done, Becomes
<1>2. PICK b, k : b = call[c].browser /\ k = cookieAfter(b, call[c])
  OBVIOUS
<1>3. b \in Browsers /\ cookie' = [cookie EXCEPT ![b] = k]
  BY <1>1, <1>2 DEF Deliver, Request
<1>4. /\ call[c].pc = "SPENT" => k = NoCookie
      /\ call[c].pc = "GRANTED" =>
            /\ k \in CookieRow /\ k.token = call[c].token /\ k.session = call[c].session
            /\ holds(call[c].token, call[c].session, b)
  BY <1>1, <1>2 DEF cookieAfter, CookieRow, Request, refers
<1>5. /\ cookie' \in [Browsers -> CookieRow \cup {NoCookie}] /\ cookie'[b] = k
      /\ \A a \in Browsers : a # b => cookie'[a] = cookie[a]
  BY <1>1, <1>3, <1>4 DEF Inv, Rows, Columns
<1>6. Rows'
  <2>1. SUFFICES ASSUME NEW a \in Browsers, cookie'[a] # NoCookie
                 PROVE  holds(cookie[a].token, cookie[a].session, a)'
    BY <1>1, <1>5, CallSet, CookieMoves DEF Inv, Rows, Columns
  <2>2. CASE a = b
    BY <1>1, <1>4, <1>5, <2>1, <2>2 DEF holds, begunBy
  <2>3. CASE a # b
    BY <1>1, <1>5, <2>1, <2>3, ReadFacts DEF holds, begunBy, Inv
  <2>4. QED
    BY <2>2, <2>3
<1>7. quiet => Quiet'
  <2>1. SUFFICES ASSUME quiet PROVE Quiet'
    OBVIOUS
  <2>2. /\ OneCall' /\ CallsCurrent'
        /\ \A d \in Calls : d # c => call[d] = Idle /\ call'[d] = Idle
    BY <1>1, <2>1, QuietCall DEF Inv, Quiet
  <2>3. CookiesCurrent'
    <3>1. SUFFICES ASSUME NEW a \in Browsers, cookie'[a] # NoCookie
                   PROVE  ~ token[cookie'[a].token].rotated
      BY <1>1 DEF CookiesCurrent
    <3>2. CASE a = b
      <4>1. call[c].pc = "GRANTED"
        BY <1>1, <1>4, <1>5, <3>1, <3>2
      <4>2. ~ token[call[c].token].rotated
        BY <1>1, <2>1, <4>1 DEF Inv, Quiet, CallsCurrent, current
      <4>3. QED
        BY <1>4, <1>5, <3>2, <4>1, <4>2
    <3>3. CASE a # b
      <4>1. \A d \in Calls : call[d].pc = "GRANTED" => d = c
        BY <2>2 DEF Idle
      <4>2. QED
        BY <1>2, <1>5, <2>1, <3>1, <3>3, <4>1 DEF Inv, Quiet, CookiesCurrent
    <3>4. QED
      BY <3>2, <3>3
  <2>4. NeverReplayed' /\ FailuresInStreak'
    BY <1>1, <2>1 DEF Inv, Quiet, NeverReplayed, FailuresInStreak
  <2>5. OneAlive'
    BY <1>1, <2>1 DEF Inv, Quiet, OneAlive, alive, live
  <2>6. QED
    BY <2>2, <2>3, <2>4, <2>5 DEF Quiet
<1>8. QED
  BY <1>6, <1>7 DEF Inv

(* The cookie goes; a request for the server may go with it.               *)
LEMMA SignOutKeeps ==
    ASSUME Inv, quiet' = quiet, NEW c \in Calls, SignOut(c)
    PROVE  Inv'
<1>1. UNCHANGED <<account, identityOutbox, session, token, streak>>
  BY DEF SignOut
<1>2. PICK b \in Browsers :
         /\ cookie[b] # NoCookie /\ cookie' = [cookie EXCEPT ![b] = NoCookie]
         /\ \/ begin(c, [request("USER_SIGNED_OUT", b) EXCEPT !.session = cookie[b].session])
            \/ UNCHANGED <<call, calls>>
  BY DEF SignOut
<1>3. /\ cookie' \in [Browsers -> CookieRow \cup {NoCookie}]
      /\ \A a \in Browsers : cookie'[a] # NoCookie => cookie'[a] = cookie[a]
  BY <1>2 DEF Inv, Rows, Columns
<1>4. \A a \in Browsers : cookie'[a] # NoCookie =>
         holds(cookie[a].token, cookie[a].session, a)'
  BY <1>1, <1>3, ReadFacts DEF holds, begunBy, Inv
<1>5. quiet => NeverReplayed' /\ FailuresInStreak' /\ OneAlive'
  BY <1>1 DEF Inv, Quiet, NeverReplayed, FailuresInStreak, OneAlive, alive, live
<1>6. CASE begin(c, [request("USER_SIGNED_OUT", b) EXCEPT !.session = cookie[b].session])
  <2>1. cookie[b] \in CookieRow /\ holds(cookie[b].token, cookie[b].session, b)
    BY <1>2, ReadFacts DEF Inv
  <2>2. PICK r \in Request :
           /\ begin(c, r) /\ r.pc = "USER_SIGNED_OUT" /\ r.heard /\ r.browser = b
           /\ r.session = cookie[b].session
    <3>1. PICK q \in Request :
             /\ q = request("USER_SIGNED_OUT", b) /\ q.pc = "USER_SIGNED_OUT" /\ q.heard
             /\ q.browser = b
      BY NewRequest DEF Stages
    <3>2. cookie[b].session \in Nat
      BY <2>1 DEF CookieRow
    <3>3. LET s == [q EXCEPT !.session = cookie[b].session] IN
             /\ s \in Request /\ s.pc = "USER_SIGNED_OUT" /\ s.heard /\ s.browser = b
             /\ s.session = cookie[b].session
      BY <3>1, <3>2 DEF Request
    <3>4. QED
      BY <1>6, <3>1, <3>3
  <2>3. /\ call[c] = Idle /\ Becomes(c, r) /\ (quiet => ~ inFlight)
        /\ calls' \in (0 .. MaxCalls[quiet])'
    BY <2>2, Begins DEF Inv
  <2>4. refers(r)' /\ (quiet => current(r)')
    BY <1>1, <2>1, <2>2 DEF refers, holds, begunBy, current
  <2>5. Rows'
    <3>1. call' \in [Calls -> Request \cup {Idle}] /\ call'[c] = r
          /\ \A d \in Calls : d # c => call'[d] = call[d]
      BY <2>3, CallSet DEF Inv
    <3>2. \A d \in Calls : call'[d] = call[d] \/ call'[d] = Idle \/ refers(call[d])'
      BY <2>4, <3>1 DEF refers, holds, begunBy
    <3>3. QED
      BY <1>1, <1>3, <1>4, <2>3, <3>1, <3>2, CookieMoves DEF Inv
  <2>6. quiet => OneCall' /\ CallsCurrent' /\ CookiesCurrent'
    <3>1. SUFFICES ASSUME quiet PROVE OneCall' /\ CallsCurrent' /\ CookiesCurrent'
      OBVIOUS
    <3>2. OneCall' /\ CallsCurrent'
      BY <2>3, <2>4, <3>1, QuietCall DEF Inv, Quiet
    <3>3. \A d \in Calls : call[d].pc # "GRANTED"
      BY <2>3, <3>1 DEF inFlight, Idle
    <3>4. CookiesCurrent'
      BY <1>1, <1>3, <3>1, <3>3 DEF Inv, Quiet, CookiesCurrent
    <3>5. QED
      BY <3>2, <3>4
  <2>7. QED
    BY <1>5, <2>5, <2>6 DEF Inv, Quiet
<1>7. CASE UNCHANGED <<call, calls>>
  <2>1. Rows'
    <3>1. call' \in [Calls -> Request \cup {Idle}] /\ calls' \in (0 .. MaxCalls[quiet])'
      BY <1>7 DEF Inv, Rows, Columns
    <3>2. QED
      BY <1>1, <1>3, <1>4, <1>7, <3>1, CookieMoves DEF Inv
  <2>2. quiet => OneCall' /\ CallsCurrent' /\ CookiesCurrent'
    BY <1>1, <1>3, <1>7 DEF Inv, Quiet, OneCall, CallsCurrent, CookiesCurrent, current, live
  <2>3. QED
    BY <1>5, <2>1, <2>2 DEF Inv, Quiet
<1>8. QED
  BY <1>2, <1>6, <1>7

(* Time passes for an access token, a refresh token and a lock, and an     *)
(* account may be suspended.                                               *)
LEMMA AccessTokenExpiresKeeps ==
    ASSUME Inv, quiet' = quiet, NEW b \in Browsers, AccessTokenExpires(b)
    PROVE  Inv'
<1>1. /\ cookie[b] # NoCookie /\ cookie' = [cookie EXCEPT ![b].fresh = FALSE]
      /\ UNCHANGED <<account, identityOutbox, session, token, call, calls, streak>>
  BY DEF AccessTokenExpires
<1>2. cookie[b] \in CookieRow /\ cookie \in [Browsers -> CookieRow \cup {NoCookie}]
  BY <1>1, ReadFacts DEF Inv, Rows, Columns
<1>3. PICK k : k = [cookie[b] EXCEPT !.fresh = FALSE]
  OBVIOUS
<1>4. k \in CookieRow /\ k.token = cookie[b].token /\ k.session = cookie[b].session
  BY <1>2, <1>3 DEF CookieRow
<1>5. cookie' = [cookie EXCEPT ![b] = k]
  BY <1>1, <1>3
<1>6. /\ cookie' \in [Browsers -> CookieRow \cup {NoCookie}]
      /\ \A a \in Browsers : cookie'[a] # NoCookie =>
            /\ cookie[a] # NoCookie /\ cookie'[a].token = cookie[a].token
            /\ cookie'[a].session = cookie[a].session
  BY <1>1, <1>2, <1>4, <1>5
<1>7. Rows'
  <2>1. \A a \in Browsers : cookie'[a] # NoCookie =>
           holds(cookie[a].token, cookie[a].session, a)'
    BY <1>1, <1>6, ReadFacts DEF holds, begunBy, Inv
  <2>2. call' \in [Calls -> Request \cup {Idle}] /\ calls' \in (0 .. MaxCalls[quiet])'
    BY <1>1 DEF Inv, Rows, Columns
  <2>3. QED
    BY <1>1, <1>6, <2>1, <2>2, CookieMoves DEF Inv
<1>8. quiet => Quiet'
  BY <1>1, <1>6 DEF Inv, Quiet, OneCall, CallsCurrent, CookiesCurrent, current, live,
     NeverReplayed, FailuresInStreak, OneAlive, alive
<1>9. QED
  BY <1>7, <1>8 DEF Inv

(* A refresh token runs out.                                               *)
LEMMA RefreshTokenExpiresKeeps ==
    ASSUME Inv, quiet' = quiet, NEW t \in DOMAIN token, RefreshTokenExpires(t)
    PROVE  Inv'
<1>1. /\ token' = [token EXCEPT ![t].expired = TRUE]
      /\ UNCHANGED <<account, identityOutbox, session, cookie, call, calls, streak>>
  BY DEF RefreshTokenExpires
<1>2. PICK row : row = [token[t] EXCEPT !.expired = TRUE]
  OBVIOUS
<1>3. /\ row \in TokenRow /\ row.session = token[t].session /\ row.from = token[t].from
      /\ row.rotated = token[t].rotated /\ row.revoked = token[t].revoked
  BY <1>2, Places DEF TokenRow, Inv
<1>4. /\ token' \in Seq(TokenRow) /\ DOMAIN token' = DOMAIN token
      /\ \A u \in DOMAIN token : token'[u] = IF u = t THEN row ELSE token[u]
  <2>1. token \in Seq(TokenRow) /\ DOMAIN token = 1 .. Len(token)
    BY Places DEF Inv, Rows, Columns
  <2>2. token' = [token EXCEPT ![t] = row]
    BY <1>1, <1>2
  <2>3. /\ token' \in Seq(TokenRow) /\ Len(token') = Len(token)
        /\ \A u \in 1 .. Len(token) : token'[u] = IF u = t THEN row ELSE token[u]
    BY <1>3, <2>1, <2>2, ExceptSeq
  <2>4. QED
    BY <2>1, <2>3, LenProperties
<1>5. \A u \in DOMAIN token :
         /\ token'[u].session = token[u].session /\ token'[u].from = token[u].from
         /\ token'[u].rotated = token[u].rotated /\ token'[u].revoked = token[u].revoked
  BY <1>3, <1>4
<1>6. Rows'
  <2>1. Columns' /\ RegisteredOnce'
    BY <1>1, <1>4 DEF Inv, Rows, Columns, RegisteredOnce
  <2>2. Grows
    BY <1>1, <1>4, <1>5 DEF Grows
  <2>3. QED
    BY <1>1, <1>4, <2>1, <2>2, RowsStep DEF Inv
<1>7. quiet => Quiet'
  <2>1. SUFFICES ASSUME quiet PROVE Quiet'
    OBVIOUS
  <2>2. CallsCurrent'
    <3>1. SUFFICES ASSUME NEW c \in Calls, call[c] # Idle PROVE current(call[c])'
      BY <1>1 DEF CallsCurrent
    <3>2. current(call[c]) /\ refers(call[c])
      BY <2>1, <3>1, ReadFacts DEF Inv, Quiet, CallsCurrent
    <3>3. call[c].pc \in {"LOOKUP", "GRANTED", "CHECK_USER", "ROTATE"} =>
             call[c].token \in DOMAIN token
      BY <3>2 DEF refers, holds
    <3>4. QED
      BY <1>1, <1>4, <1>5, <3>2, <3>3 DEF current, live
  <2>3. CookiesCurrent'
    BY <1>1, <1>5, <2>1, ReadFacts DEF Inv, Quiet, CookiesCurrent, holds
  <2>4. OneAlive'
    <3>1. \A s : alive(s)' = alive(s)
      BY <1>4, <1>5 DEF alive, live
    <3>2. QED
      BY <1>1, <2>1, <3>1 DEF Inv, Quiet, OneAlive
  <2>5. OneCall' /\ NeverReplayed' /\ FailuresInStreak'
    BY <1>1, <2>1 DEF Inv, Quiet, OneCall, NeverReplayed, FailuresInStreak
  <2>6. QED
    BY <2>2, <2>3, <2>4, <2>5 DEF Quiet
<1>8. QED
  BY <1>6, <1>7 DEF Inv

(* A lock ends, or staff suspends the account.                             *)
LEMMA AccountKeeps ==
    ASSUME Inv, quiet' = quiet, LockEnds \/ Suspend
    PROVE  Inv'
<1>1. /\ account # NoAccount /\ account \in AccountRow
      /\ UNCHANGED <<identityOutbox, session, token, cookie, call, calls, streak>>
      /\ \/ account' = [account EXCEPT !.locked = FALSE]
         \/ account' = [account EXCEPT !.active = FALSE]
  BY DEF LockEnds, Suspend, Inv, Rows, Columns
<1>2. /\ account' \in AccountRow /\ account'.failures = account.failures
      /\ account'.locked => account.locked
  BY <1>1 DEF AccountRow
<1>3. account' # NoAccount
  BY <1>2, Missing
<1>4. Rows'
  <2>1. Columns' /\ RegisteredOnce'
    BY <1>1, <1>2, <1>3 DEF Inv, Rows, Columns, RegisteredOnce
  <2>2. Grows
    BY <1>1, <1>3 DEF Grows
  <2>3. QED
    BY <1>1, <2>1, <2>2, RowsStep DEF Inv
<1>5. quiet => Quiet'
  <2>1. quiet => FailuresInStreak'
    BY <1>1, <1>2 DEF Inv, Quiet, FailuresInStreak
  <2>2. QED
    BY <1>1, <2>1 DEF Inv, Quiet, OneCall, CallsCurrent, CookiesCurrent, current, live,
       NeverReplayed, OneAlive, alive
<1>6. QED
  BY <1>4, <1>5 DEF Inv

-----------------------------------------------------------------------------
(* The theorems. *)

(* Nothing is there at first.                                              *)
LEMMA InitInv == Init => Inv
<1> SUFFICES ASSUME Init PROVE Inv
  OBVIOUS
<1>1. 0 \in 0 .. MaxCalls[quiet]
  BY SessionsAssumption DEF Init
<1>2. Rows
  BY <1>1 DEF Init, Rows, Columns, RegisteredOnce, TokensRefer, CookiesRefer, CallsRefer
<1>3. Quiet
  BY DEF Init, Quiet, OneCall, CallsCurrent, CookiesCurrent, NeverReplayed, OneAlive,
     FailuresInStreak
<1>4. QED
  BY <1>2, <1>3 DEF Inv

(* Every step of a handler, a front end or a clock keeps the invariant.    *)
LEMMA NextInv == Inv /\ [Next]_vars => Inv'
<1> SUFFICES ASSUME Inv, [Next]_vars PROVE Inv'
  OBVIOUS
<1>1. CASE UNCHANGED vars
  BY <1>1 DEF vars, Inv, Rows, Columns, RegisteredOnce, TokensRefer, CookiesRefer, CallsRefer,
     refers, holds, begunBy, Quiet, OneCall, CallsCurrent, CookiesCurrent, current, live,
     NeverReplayed, OneAlive, alive, FailuresInStreak
<1>2. CASE Next
  <2>1. quiet' = quiet
    BY <1>2 DEF Next
  <2>2. ASSUME NEW c \in Calls, register(c) \/ login(c) PROVE Inv'
    BY <2>1, <2>2, ReadForRegisterKeeps, RegisterKeeps, ReadForLoginKeeps, RecordFailureKeeps,
       RecordSuccessKeeps DEF register, login
  <2>3. ASSUME NEW c \in Calls, startSession(c) \/ refresh(c) PROVE Inv'
    BY <2>1, <2>3, CreateSessionKeeps, StoreTokenKeeps, AskToRefreshKeeps, ReadTokenKeeps,
       CheckUserKeeps, RotateKeeps DEF startSession, refresh
  <2>4. ASSUME NEW c \in Calls, changePassword(c) \/ SignOut(c) \/ RevokeSession(c) PROVE Inv'
    BY <2>1, <2>4, ReadForPasswordKeeps, ChangePasswordKeeps, SignOutKeeps, RevokeSessionKeeps
       DEF changePassword
  <2>5. ASSUME NEW c \in Calls, Deliver(c) \/ StopListening(c) \/ Crash(c) PROVE Inv'
    BY <2>1, <2>5, DeliverKeeps, StopListeningKeeps, CrashKeeps
  <2>6. ASSUME NEW b \in Browsers, AccessTokenExpires(b) PROVE Inv'
    BY <2>1, <2>6, AccessTokenExpiresKeeps
  <2>7. ASSUME NEW t \in DOMAIN token, RefreshTokenExpires(t) PROVE Inv'
    BY <2>1, <2>7, RefreshTokenExpiresKeeps
  <2>8. CASE LockEnds \/ Suspend
    BY <2>1, <2>8, AccountKeeps
  <2>9. QED
    BY <1>2, <2>2, <2>3, <2>4, <2>5, <2>6, <2>7, <2>8 DEF Next
<1>3. QED
  BY <1>1, <1>2

(* The invariant holds in every state.                                     *)
LEMMA Invariance == Spec => []Inv
BY InitInv, NextInv, PTL DEF Spec

(* Rows have their columns, sessions, tokens and cookies refer to what is  *)
(* there, and the account is announced once, whatever requests overlap.    *)
THEOREM TypeCorrect == Spec => []TypeOK
<1>1. Inv => TypeOK
  <2> SUFFICES ASSUME Inv PROVE TypeOK
    OBVIOUS
  <2>1. \A s \in DOMAIN session : session[s].userAgent \in Browsers
    BY Places DEF Inv, SessionRow
  <2>2. \A b \in Browsers : cookie[b] # NoCookie => cookie[b].token \in DOMAIN token
    BY DEF Inv, Rows, CookiesRefer, holds
  <2>3. QED
    BY <2>1, <2>2 DEF Inv, Rows, Columns, RegisteredOnce, TokensRefer, TypeOK, AccountRow
<1>2. QED
  BY <1>1, Invariance, PTL

(* AuthService.login: the lockout of a user whose sign-ins do not overlap  *)
(* is earned by a full streak of wrong passwords, for any threshold.       *)
THEOREM QuietLockIsEarnedHolds == Spec => []QuietLockIsEarned
<1>1. Inv => QuietLockIsEarned
  BY DEF Inv, Quiet, FailuresInStreak, QuietLockIsEarned
<1>2. QED
  BY <1>1, Invariance, PTL

(* createRefreshMiddleware: whoever sends one request after the other and  *)
(* hears every answer holds, when no request is under way, a token that    *)
(* can be exchanged, and is never taken for a replay.                      *)
THEOREM QuietUserStaysSignedInHolds == Spec => []QuietUserStaysSignedIn
<1>1. Inv => QuietUserStaysSignedIn
  <2> SUFFICES ASSUME Inv, quiet
               PROVE  /\ \A s \in DOMAIN session :
                             session[s].revokeReason # "REFRESH_TOKEN_REUSE"
                      /\ \A b \in Browsers : ~ inFlight /\ cookie[b] # NoCookie =>
                             /\ token[cookie[b].token].session = cookie[b].session
                             /\ ~ token[cookie[b].token].rotated
    BY DEF QuietUserStaysSignedIn
  <2>1. \A s \in DOMAIN session : session[s].revokeReason # "REFRESH_TOKEN_REUSE"
    BY DEF Inv, Quiet, NeverReplayed
  <2>2. ASSUME NEW b \in Browsers, ~ inFlight, cookie[b] # NoCookie
        PROVE  /\ token[cookie[b].token].session = cookie[b].session
               /\ ~ token[cookie[b].token].rotated
    <3>1. \A c \in Calls : call[c].pc # "GRANTED"
      BY <2>2 DEF inFlight, Idle
    <3>2. ~ token[cookie[b].token].rotated
      BY <2>2, <3>1 DEF Inv, Quiet, CookiesCurrent
    <3>3. QED
      BY <2>2, <3>2 DEF Inv, Rows, CookiesRefer, holds
  <2>3. QED
    BY <2>1, <2>2
<1>2. QED
  BY <1>1, Invariance, PTL

(* revokeSession, logout and changePassword: a revoked session of a user   *)
(* whose requests do not overlap has no token left to exchange, and any    *)
(* session has at most one.                                                *)
THEOREM QuietRevocationIsFinalHolds == Spec => []QuietRevocationIsFinal
<1>1. Inv => QuietRevocationIsFinal
  <2> SUFFICES ASSUME Inv, quiet, NEW s \in DOMAIN session
               PROVE  /\ Cardinality(alive(s)) <= 1
                      /\ session[s].revokeReason # "NONE" => alive(s) = {}
    BY DEF QuietRevocationIsFinal, alive
  <2>1. \A t, u \in alive(s) : t = u
    BY DEF Inv, Quiet, OneAlive
  <2>2. alive(s) = {} \/ \E t : alive(s) = {t}
    BY <2>1
  <2>3. Cardinality(alive(s)) <= 1
    <3>1. alive(s) = {} => Cardinality(alive(s)) = 0
      BY FS_EmptySet
    <3>2. \A t : Cardinality({t}) = 1
      BY FS_Singleton
    <3>3. Cardinality(alive(s)) \in {0, 1}
      BY <2>2, <3>1, <3>2
    <3>4. QED
      BY <3>3
  <2>4. QED
    BY <2>3 DEF Inv, Quiet, OneAlive
<1>2. QED
  BY <1>1, Invariance, PTL

-----------------------------------------------------------------------------
(* A behaviour of the services around a stay is one of auth-service, so    *)
(* the theorems above hold of every one of them.                           *)
THEOREM AuthInGuestServices == GuestSpec => Spec
<1>1. GuestInit => Init
  BY DEF GuestInit
<1>2. [GuestNext]_guestVars => [Next]_vars
  BY DEF GuestNext, guestVars, auth, reviews, notifications, pricing, hotels, reports, auditing,
         lists, realtime, authVars, vars, ReviewService!Next, NotificationService!Next,
         PricingService!Next, HotelService!Next
<1>3. QED
  BY <1>1, <1>2, PTL DEF GuestSpec, Spec

-----------------------------------------------------------------------------
(* Realtime. A socket is in no room that its principal may not subscribe   *)
(* to now, whoever that was when it joined.                                *)

JoinedIsAllowed ==
    \A s \in Sockets : \A channel \in joined[s] :
        /\ RealtimeGateway!isVerified(s)
        /\ RealtimeGateway!canSubscribe(principal[s], channel)

SocketInv ==
    /\ principal \in [Sockets -> Principals \cup {Nobody, Verifying}]
    /\ DOMAIN joined = Sockets
    /\ JoinedIsAllowed
    /\ ScopedDelivery

(* roles.ts: whoever may write bookings may read them, and whoever cleans, *)
(* repairs or receives may read rooms.                                     *)
LEMMA PermissionsImply ==
    ASSUME NEW roles
    PROVE  /\ RealtimeGateway!hasPermission(roles, "BOOKING_WRITE") =>
                 /\ RealtimeGateway!hasPermission(roles, "BOOKING_READ")
                 /\ RealtimeGateway!hasPermission(roles, "ROOM_READ")
           /\ RealtimeGateway!hasPermission(roles, "HOUSEKEEPING_MANAGE") =>
                 RealtimeGateway!hasPermission(roles, "ROOM_READ")
           /\ RealtimeGateway!hasPermission(roles, "MAINTENANCE_MANAGE") =>
                 RealtimeGateway!hasPermission(roles, "ROOM_READ")
<1>1. ASSUME NEW role
      PROVE  /\ "BOOKING_WRITE" \in RealtimeGateway!ROLE_PERMISSIONS(role) =>
                   /\ "BOOKING_READ" \in RealtimeGateway!ROLE_PERMISSIONS(role)
                   /\ "ROOM_READ" \in RealtimeGateway!ROLE_PERMISSIONS(role)
             /\ "HOUSEKEEPING_MANAGE" \in RealtimeGateway!ROLE_PERMISSIONS(role) =>
                   "ROOM_READ" \in RealtimeGateway!ROLE_PERMISSIONS(role)
             /\ "MAINTENANCE_MANAGE" \in RealtimeGateway!ROLE_PERMISSIONS(role) =>
                   "ROOM_READ" \in RealtimeGateway!ROLE_PERMISSIONS(role)
  BY DEF RealtimeGateway!ROLE_PERMISSIONS
<1>2. QED
  BY <1>1 DEF RealtimeGateway!hasPermission

(* Who hears a channel may subscribe to it.                                *)
LEMMA HeardMaySubscribe ==
    ASSUME SocketInv, NEW channels, NEW p \in RealtimeGateway!heardOn(channels)
    PROVE  \E channel \in channels : RealtimeGateway!canSubscribe(p, channel)
BY DEF SocketInv, JoinedIsAllowed, RealtimeGateway!heardOn

(* An event of a hotel reaches its own staff, with the permission of one   *)
(* of the rooms it goes to.                                                *)
LEMMA BroadcastScoped ==
    ASSUME SocketInv, RealtimeGateway!Broadcast
    PROVE  ScopedDelivery'
<1>1. PICK type \in DOMAIN RealtimeGateway!kindsForEvent, h \in HotelsHeard :
        emission' = [type |-> type, about |-> h,
                     heard |-> RealtimeGateway!heardOn(RealtimeGateway!channelsForEvent(type, h))]
  BY DEF RealtimeGateway!Broadcast
<1>2. SUFFICES ASSUME NEW p \in emission'.heard
      PROVE  /\ type # "notification"
             /\ "SUPER_ADMIN" \in p.roles \/ p.hotelId = h
             /\ RealtimeGateway!hasPermission(p.roles,
                  IF type \in {"booking_created", "booking_confirmed", "booking_cancelled"}
                  THEN "BOOKING_READ" ELSE "ROOM_READ")
  BY <1>1 DEF ScopedDelivery, RealtimeGateway!ScopedDelivery
<1>3. PICK kind \in RealtimeGateway!kindsForEvent[type] :
        RealtimeGateway!canSubscribe(p, RealtimeGateway!hotelChannel(h, kind))
  BY <1>1, <1>2, HeardMaySubscribe DEF RealtimeGateway!channelsForEvent
<1>4. /\ "SUPER_ADMIN" \in p.roles \/ p.hotelId = h
      /\ RealtimeGateway!hasPermission(p.roles, RealtimeGateway!CHANNEL_PERMISSIONS[kind])
  BY <1>3 DEF RealtimeGateway!canSubscribe, RealtimeGateway!hotelChannel
<1>5. IF type \in {"booking_created", "booking_confirmed", "booking_cancelled"}
      THEN kind \in {"bookings", "reception"}
      ELSE kind \in {"rooms", "reception", "housekeeping", "maintenance"}
  BY DEF RealtimeGateway!kindsForEvent
<1>6. IF type \in {"booking_created", "booking_confirmed", "booking_cancelled"}
      THEN RealtimeGateway!CHANNEL_PERMISSIONS[kind] \in {"BOOKING_READ", "BOOKING_WRITE"}
      ELSE RealtimeGateway!CHANNEL_PERMISSIONS[kind] \in
             {"ROOM_READ", "BOOKING_WRITE", "HOUSEKEEPING_MANAGE", "MAINTENANCE_MANAGE"}
  BY <1>5 DEF RealtimeGateway!CHANNEL_PERMISSIONS
<1>7. type # "notification"
  BY DEF RealtimeGateway!kindsForEvent
<1>8. QED
  BY <1>4, <1>6, <1>7, PermissionsImply

(* A notification reaches the sockets of its addressee.                    *)
LEMMA NotifyScoped ==
    ASSUME SocketInv, RealtimeGateway!Notify
    PROVE  ScopedDelivery'
<1>1. PICK q \in Principals :
        emission' = [type |-> "notification", about |-> q.id,
                     heard |-> RealtimeGateway!heardOn({RealtimeGateway!userChannel(q.id)})]
  BY DEF RealtimeGateway!Notify
<1>2. ASSUME NEW p \in emission'.heard PROVE p.id = q.id
  BY <1>1, <1>2, HeardMaySubscribe DEF RealtimeGateway!canSubscribe, RealtimeGateway!userChannel
<1>3. QED
  BY <1>1, <1>2 DEF ScopedDelivery, RealtimeGateway!ScopedDelivery

(* A socket that connects, is verified, subscribes, leaves a room or       *)
(* closes emits nothing and enters a room of its own principal only.       *)
LEMMA SocketStep ==
    ASSUME SocketInv, NEW s \in Sockets,
           \/ RealtimeGateway!Connect(s) \/ RealtimeGateway!Verified(s)
           \/ RealtimeGateway!Disconnect(s) \/ RealtimeGateway!Subscribe(s)
           \/ RealtimeGateway!Unsubscribe(s)
    PROVE  SocketInv'
<1>1. ScopedDelivery'
  BY DEF ScopedDelivery, RealtimeGateway!ScopedDelivery, RealtimeGateway!NoEmission,
         RealtimeGateway!Connect, RealtimeGateway!Verified, RealtimeGateway!Disconnect,
         RealtimeGateway!Subscribe, RealtimeGateway!Unsubscribe
<1>2. /\ principal' \in [Sockets -> Principals \cup {Nobody, Verifying}]
      /\ DOMAIN joined' = Sockets
  BY DEF SocketInv, RealtimeGateway!Connect, RealtimeGateway!Verified,
         RealtimeGateway!Disconnect, RealtimeGateway!Subscribe, RealtimeGateway!Unsubscribe
<1>3. ASSUME NEW t \in Sockets, t # s
      PROVE  principal'[t] = principal[t] /\ joined'[t] = joined[t]
  BY <1>3 DEF SocketInv, RealtimeGateway!Connect, RealtimeGateway!Verified,
         RealtimeGateway!Disconnect, RealtimeGateway!Subscribe, RealtimeGateway!Unsubscribe
<1>4. ASSUME NEW channel \in joined'[s]
      PROVE  /\ principal'[s] \in Principals
             /\ RealtimeGateway!canSubscribe(principal'[s], channel)
  <2>1. CASE RealtimeGateway!Connect(s)
    BY <1>4, <2>1, GuestAssumption
       DEF SocketInv, JoinedIsAllowed, RealtimeGateway!Connect, RealtimeGateway!isVerified
  <2>2. CASE RealtimeGateway!Verified(s)
    BY <1>4, <2>2
       DEF SocketInv, RealtimeGateway!Verified, RealtimeGateway!canSubscribe,
           RealtimeGateway!userChannel
  <2>3. CASE RealtimeGateway!Disconnect(s)
    BY <1>4, <2>3 DEF SocketInv, RealtimeGateway!Disconnect
  <2>4. CASE RealtimeGateway!Subscribe(s)
    <3>1. /\ principal'[s] = principal[s] /\ principal[s] \in Principals
          /\ channel \in joined[s] \/ RealtimeGateway!canSubscribe(principal[s], channel)
      BY <1>4, <2>4 DEF SocketInv, RealtimeGateway!Subscribe, RealtimeGateway!isVerified
    <3>2. QED
      BY <3>1 DEF SocketInv, JoinedIsAllowed
  <2>5. CASE RealtimeGateway!Unsubscribe(s)
    BY <1>4, <2>5
       DEF SocketInv, JoinedIsAllowed, RealtimeGateway!Unsubscribe, RealtimeGateway!isVerified
  <2>6. QED
    BY <2>1, <2>2, <2>3, <2>4, <2>5
<1>5. JoinedIsAllowed'
  BY <1>3, <1>4 DEF SocketInv, JoinedIsAllowed, RealtimeGateway!isVerified
<1>6. QED
  BY <1>1, <1>2, <1>5 DEF SocketInv

(* No socket is open at first.                                             *)
LEMMA SocketInit == GuestInit => SocketInv
BY DEF GuestInit, RealtimeGateway!Init, SocketInv, JoinedIsAllowed, ScopedDelivery,
       RealtimeGateway!ScopedDelivery, RealtimeGateway!NoEmission

(* Every step keeps the rooms allowed and the events scoped.               *)
LEMMA SocketNext == SocketInv /\ [GuestNext]_guestVars => SocketInv'
<1> SUFFICES ASSUME SocketInv, [GuestNext]_guestVars PROVE SocketInv'
  OBVIOUS
<1>1. CASE UNCHANGED socketVars
  BY <1>1 DEF SocketInv, JoinedIsAllowed, ScopedDelivery, RealtimeGateway!ScopedDelivery,
              RealtimeGateway!isVerified, socketVars
<1>2. CASE RealtimeGateway!Next
  <2>1. CASE RealtimeGateway!Broadcast
    BY <2>1, BroadcastScoped
       DEF SocketInv, JoinedIsAllowed, RealtimeGateway!isVerified, RealtimeGateway!Broadcast
  <2>2. CASE RealtimeGateway!Notify
    BY <2>2, NotifyScoped
       DEF SocketInv, JoinedIsAllowed, RealtimeGateway!isVerified, RealtimeGateway!Notify
  <2>3. QED
    BY <1>2, <2>1, <2>2, SocketStep DEF RealtimeGateway!Next
<1>3. QED
  BY <1>1, <1>2
     DEF GuestNext, guestVars, auth, reviews, notifications, pricing, hotels, reports,
         auditing, lists, realtime

(* canSubscribe: "Authorisation happens on subscribe, not on publish". An  *)
(* event is heard by those who may hear it when it is emitted, whatever    *)
(* sockets and principals there are and whoever a socket was before.       *)
THEOREM ScopedDeliveryHolds == GuestSpec => []ScopedDelivery
<1>1. SocketInv => ScopedDelivery
  BY DEF SocketInv
<1>2. QED
  BY <1>1, SocketInit, SocketNext, PTL DEF GuestSpec
-----------------------------------------------------------------------------
(* Reviews. Rows are never deleted, a request found its row, one that      *)
(* found it published found it announced, and in a quiet behaviour nothing *)
(* happened since: the rating is current but for a request on its way.     *)

ReviewRows ==
    /\ review \in [ReviewedStays -> ReviewService!ReviewRow \cup {NoReview}]
    /\ reviewOutbox \in [ReviewedStays -> Nat]
    /\ moderator = [h \in Moderators |-> moderator[h]]
    /\ lost \in BOOLEAN

FindsRow(h) ==
    /\ moderator[h].pc = "CREATE" =>
          /\ moderator[h].stay \in ReviewedStays
          /\ moderator[h].status \in ReviewService!ReviewStatus
          /\ moderator[h].scores \in ScoreCards
    /\ moderator[h].pc \in {"MODERATE", "RESPOND"} =>
          /\ moderator[h].stay \in ReviewedStays
          /\ ReviewService!exists(moderator[h].stay)
    /\ moderator[h].pc = "MODERATE" =>
          /\ moderator[h].status \in ReviewService!ReviewStatus
          /\ moderator[h].wasPublished \in BOOLEAN
          /\ moderator[h].wasPublished => reviewOutbox[moderator[h].stay] > 0

ModeratorsFindRows == \A h \in Moderators : FindsRow(h)

PublishedIsAnnounced == \A s \in ReviewService!published : reviewOutbox[s] > 0

oneModerator ==
    \A g, h \in Moderators :
        g = h \/ moderator[g] = ReviewService!AtRest \/ moderator[h] = ReviewService!AtRest

(* The rating of what is published now.                                    *)
currentRating == ReviewService!aggregateRatings(ReviewService!publishedRatings)

onItsWay(h) == moderator[h].pc \in {"RECOMPUTE", "UPSERT"}

QuietReviews ==
    /\ oneModerator
    /\ \A h \in Moderators :
          /\ moderator[h].pc = "MODERATE" =>
                moderator[h].wasPublished = ReviewService!isPublished(moderator[h].stay)
          /\ moderator[h].pc = "UPSERT" => moderator[h].aggregate = currentRating
    /\ lost \/ (\E h \in Moderators : onItsWay(h)) \/ rating = currentRating

ReviewInv ==
    /\ ReviewRows
    /\ ModeratorsFindRows
    /\ PublishedIsAnnounced
    /\ quiet => QuietReviews

ReviewStep(h) ==
    \/ ReviewService!create(h) \/ ReviewService!moderateReview(h) \/ ReviewService!respond(h)
    \/ ReviewService!recomputeRating(h) \/ ReviewService!Crash(h)

(* The rating is computed from the published rows only, and of these from  *)
(* the scores.                                                             *)
LEMMA SameRatings ==
    ASSUME ReviewService!published' = ReviewService!published,
           \A s \in ReviewService!published :
              /\ review'[s].overallRating = review[s].overallRating
              /\ review'[s].scores = review[s].scores
    PROVE  currentRating' = currentRating
<1>1. ReviewService!publishedRatings' = ReviewService!publishedRatings
  BY DEF ReviewService!publishedRatings
<1>2. QED
  BY <1>1 DEF currentRating

(* No row, no request and nothing announced at first.                      *)
LEMMA ReviewInit == GuestInit => ReviewInv
<1> SUFFICES ASSUME GuestInit PROVE ReviewInv
  OBVIOUS
<1> USE DEF GuestInit, ReviewService!Init, ReviewService!AtRest
<1>1. ReviewService!published = {}
  BY DEF ReviewService!published, ReviewService!isPublished, ReviewService!exists
<1>2. rating = currentRating
  <2>1. DOMAIN ReviewService!publishedRatings = {}
    BY <1>1 DEF ReviewService!publishedRatings
  <2>2. ReviewService!Cardinality({}) = 0
    BY DEF ReviewService!Cardinality
  <2>3. QED
    BY <2>1, <2>2 DEF currentRating, ReviewService!aggregateRatings
<1>3. QED
  BY <1>1, <1>2 DEF ReviewInv, ReviewRows, ModeratorsFindRows, FindsRow, PublishedIsAnnounced,
                    QuietReviews, oneModerator


(* Columns keep their types.                                               *)
LEMMA ReviewRowsKept ==
    ASSUME ReviewInv, NEW h \in Moderators,
           ReviewStep(h)
    PROVE  ReviewRows'
<1> USE DEF ReviewInv, ReviewRows, ReviewStep
<1>1. CASE ReviewService!create(h)
  <2>1. CASE ReviewService!ReadForCreate(h)
    BY <2>1 DEF ReviewService!ReadForCreate, ReviewService!begin
  <2>2. CASE ReviewService!Create(h)
    <3>1. /\ moderator[h].stay \in ReviewedStays /\ moderator[h].scores \in ScoreCards
          /\ moderator[h].status \in ReviewService!ReviewStatus
      BY <2>2 DEF ReviewService!Create, ModeratorsFindRows, FindsRow
    <3>2. [status |-> moderator[h].status, scores |-> moderator[h].scores,
           overallRating |-> ReviewService!overallRating(moderator[h].scores),
           answered |-> FALSE] \in ReviewService!ReviewRow
      BY <3>1 DEF ReviewService!ReviewRow
    <3>3. QED
      BY <2>2, <3>1, <3>2
         DEF ReviewService!Create, ReviewService!thenRecompute, ReviewService!publishReviewEvent
  <2>3. QED
    BY <1>1, <2>1, <2>2 DEF ReviewService!create
<1>2. CASE ReviewService!moderateReview(h)
  <2>1. CASE ReviewService!ReadForModerate(h)
    BY <2>1 DEF ReviewService!ReadForModerate, ReviewService!begin
  <2>2. CASE ReviewService!Moderate(h)
    <3>1. /\ moderator[h].stay \in ReviewedStays /\ ReviewService!exists(moderator[h].stay)
          /\ moderator[h].status \in ReviewService!ReviewStatus
      BY <2>2 DEF ReviewService!Moderate, ModeratorsFindRows, FindsRow
    <3>2. review[moderator[h].stay] \in ReviewService!ReviewRow
      BY <3>1 DEF ReviewService!exists
    <3>3. [review[moderator[h].stay] EXCEPT !.status = moderator[h].status]
            \in ReviewService!ReviewRow
      BY <3>1, <3>2 DEF ReviewService!ReviewRow
    <3>4. QED
      BY <2>2, <3>1, <3>3
         DEF ReviewService!Moderate, ReviewService!thenRecompute, ReviewService!publishReviewEvent
  <2>3. QED
    BY <1>2, <2>1, <2>2 DEF ReviewService!moderateReview
<1>3. CASE ReviewService!respond(h)
  <2>1. CASE ReviewService!ReadForRespond(h)
    BY <2>1 DEF ReviewService!ReadForRespond, ReviewService!begin
  <2>2. CASE ReviewService!Respond(h)
    <3>1. /\ moderator[h].stay \in ReviewedStays
          /\ review[moderator[h].stay] \in ReviewService!ReviewRow
      BY <2>2 DEF ReviewService!Respond, ModeratorsFindRows, FindsRow, ReviewService!exists
    <3>2. [review[moderator[h].stay] EXCEPT !.answered = TRUE] \in ReviewService!ReviewRow
      BY <3>1 DEF ReviewService!ReviewRow
    <3>3. QED
      BY <2>2, <3>1, <3>2 DEF ReviewService!Respond
  <2>3. QED
    BY <1>3, <2>1, <2>2 DEF ReviewService!respond
<1>4. CASE ReviewService!recomputeRating(h)
  BY <1>4 DEF ReviewService!recomputeRating, ReviewService!ReadPublished, ReviewService!UpsertRating
<1>5. CASE ReviewService!Crash(h)
  BY <1>5 DEF ReviewService!Crash
<1>6. QED
  BY <1>1, <1>2, <1>3, <1>4, <1>5

(* What a step of handler h writes: nothing for the other handlers, its    *)
(* own stay at most, and never a row or an event away.                     *)
LEMMA ReviewFrame ==
    ASSUME ReviewInv, ReviewRows', NEW h \in Moderators,
           ReviewStep(h)
    PROVE  /\ \A g \in Moderators : g # h => moderator'[g] = moderator[g]
           /\ \A s \in ReviewedStays : ReviewService!exists(s) => ReviewService!exists(s)'
           /\ \A s \in ReviewedStays : reviewOutbox'[s] >= reviewOutbox[s]
<1> USE DEF ReviewInv, ReviewRows, ReviewStep
<1>1. \A g \in Moderators : g # h => moderator'[g] = moderator[g]
  BY DEF ReviewService!create, ReviewService!ReadForCreate, ReviewService!begin,
         ReviewService!Create, ReviewService!thenRecompute, ReviewService!moderateReview,
         ReviewService!ReadForModerate, ReviewService!Moderate, ReviewService!respond,
         ReviewService!ReadForRespond, ReviewService!Respond, ReviewService!recomputeRating,
         ReviewService!ReadPublished, ReviewService!UpsertRating, ReviewService!Crash
<1>2. CASE UNCHANGED <<review, reviewOutbox>>
  BY <1>1, <1>2 DEF ReviewService!exists
<1>3. CASE ReviewService!Create(h)
  <2>1. \A s \in ReviewedStays : reviewOutbox'[s] >= reviewOutbox[s]
    <3>1. \/ reviewOutbox' = reviewOutbox
          \/ \E n \in {0, 1} : reviewOutbox' =
                [reviewOutbox EXCEPT ![moderator[h].stay] = @ + n]
      BY <1>3 DEF ReviewService!Create, ReviewService!publishReviewEvent
    <3>2. QED
      BY <3>1
  <2>2. \A s \in ReviewedStays : ReviewService!exists(s) => review'[s] = review[s]
    BY <1>3 DEF ReviewService!Create, ReviewService!exists
  <2>3. QED
    BY <1>1, <2>1, <2>2 DEF ReviewService!exists
<1>4. CASE ReviewService!Moderate(h)
  <2>1. \A s \in ReviewedStays : reviewOutbox'[s] >= reviewOutbox[s]
    BY <1>4 DEF ReviewService!Moderate, ReviewService!publishReviewEvent
  <2>2. \A s \in ReviewedStays : ReviewService!exists(s) => ReviewService!exists(s)'
    <3>1. SUFFICES ASSUME NEW s \in ReviewedStays, ReviewService!exists(s)
          PROVE  review'[s] \in ReviewService!ReviewRow
      BY GuestAssumption DEF ReviewService!exists
    <3>2. review[s] \in ReviewService!ReviewRow
      BY <3>1 DEF ReviewService!exists
    <3>3. QED
      BY <1>4, <3>2
         DEF ReviewService!Moderate, ReviewService!ReviewRow, ModeratorsFindRows, FindsRow
  <2>3. QED
    BY <1>1, <2>1, <2>2
<1>5. CASE ReviewService!Respond(h)
  <2>1. \A s \in ReviewedStays : ReviewService!exists(s) => ReviewService!exists(s)'
    <3>1. SUFFICES ASSUME NEW s \in ReviewedStays, ReviewService!exists(s)
          PROVE  review'[s] \in ReviewService!ReviewRow
      BY GuestAssumption DEF ReviewService!exists
    <3>2. review[s] \in ReviewService!ReviewRow
      BY <3>1 DEF ReviewService!exists
    <3>3. QED
      BY <1>5, <3>2 DEF ReviewService!Respond, ReviewService!ReviewRow
  <2>2. QED
    BY <1>1, <1>5, <2>1 DEF ReviewService!Respond
<1>6. QED
  BY <1>2, <1>3, <1>4, <1>5
     DEF ReviewService!create, ReviewService!ReadForCreate, ReviewService!moderateReview,
         ReviewService!ReadForModerate, ReviewService!respond, ReviewService!ReadForRespond,
         ReviewService!recomputeRating, ReviewService!ReadPublished,
         ReviewService!UpsertRating, ReviewService!Crash

(* A request keeps having found its row, and whatever was published when   *)
(* it was read has been announced.                                         *)
LEMMA FindKept ==
    ASSUME ReviewInv, ReviewRows', NEW h \in Moderators, ReviewStep(h)
    PROVE  ModeratorsFindRows'
<1> USE DEF ReviewInv, ReviewRows
<1>1. /\ \A g \in Moderators : g # h => moderator'[g] = moderator[g]
      /\ \A s \in ReviewedStays : ReviewService!exists(s) => ReviewService!exists(s)'
      /\ \A s \in ReviewedStays : reviewOutbox'[s] >= reviewOutbox[s]
  BY ReviewFrame
<1>2. ASSUME NEW g \in Moderators, g # h PROVE FindsRow(g)'
  BY <1>1, <1>2 DEF ModeratorsFindRows, FindsRow
<1>3. FindsRow(h)'
  <2>1. CASE ReviewService!ReadForCreate(h)
    BY <2>1 DEF ReviewService!ReadForCreate, ReviewService!begin, ReviewService!moderate,
                ReviewService!ReviewStatus, FindsRow
  <2>2. CASE ReviewService!ReadForModerate(h)
    <3>1. PICK s \in ReviewedStays, status \in {"PUBLISHED", "REJECTED", "HIDDEN"} :
            /\ ReviewService!exists(s)
            /\ moderator'[h] = [pc |-> "MODERATE", stay |-> s, status |-> status,
                                wasPublished |-> ReviewService!isPublished(s)]
      BY <2>2 DEF ReviewService!ReadForModerate, ReviewService!begin
    <3>2. ReviewService!isPublished(s) \in BOOLEAN
      BY DEF ReviewService!isPublished
    <3>3. ReviewService!isPublished(s) => reviewOutbox[s] > 0
      BY DEF PublishedIsAnnounced, ReviewService!published
    <3>4. QED
      BY <1>1, <2>2, <3>1, <3>2, <3>3
         DEF ReviewService!ReadForModerate, ReviewService!ReviewStatus, FindsRow
  <2>3. CASE ReviewService!ReadForRespond(h)
    <3>1. PICK s \in ReviewedStays :
            ReviewService!isPublished(s) /\ moderator'[h] = [pc |-> "RESPOND", stay |-> s]
      BY <2>3 DEF ReviewService!ReadForRespond, ReviewService!begin
    <3>2. QED
      BY <1>1, <3>1 DEF ReviewService!isPublished, FindsRow
  <2>4. CASE moderator'[h].pc \in {"REST", "RECOMPUTE", "UPSERT"}
    BY <2>4 DEF FindsRow
  <2>5. QED
    BY <2>1, <2>2, <2>3, <2>4
       DEF ReviewStep, ReviewService!create, ReviewService!moderateReview,
           ReviewService!respond, ReviewService!recomputeRating, ReviewService!Create,
           ReviewService!Moderate, ReviewService!Respond, ReviewService!ReadPublished,
           ReviewService!UpsertRating, ReviewService!Crash, ReviewService!thenRecompute,
           ReviewService!AtRest
<1>4. QED
  BY <1>2, <1>3 DEF ModeratorsFindRows

(* A review enters publication with an event.                              *)
LEMMA AnnouncedKept ==
    ASSUME ReviewInv, ReviewRows', NEW h \in Moderators, ReviewStep(h)
    PROVE  PublishedIsAnnounced'
<1> USE DEF ReviewInv, ReviewRows
<1>1. \A s \in ReviewedStays : reviewOutbox'[s] >= reviewOutbox[s]
  BY ReviewFrame
<1>2. SUFFICES ASSUME NEW s \in ReviewedStays, ReviewService!isPublished(s)'
      PROVE  reviewOutbox'[s] > 0
  BY DEF PublishedIsAnnounced, ReviewService!published
<1>3. ReviewService!isPublished(s) => reviewOutbox[s] > 0
  BY DEF PublishedIsAnnounced, ReviewService!published
<1>4. CASE UNCHANGED review
  BY <1>1, <1>2, <1>3, <1>4 DEF ReviewService!isPublished, ReviewService!exists
<1>5. CASE ReviewService!Create(h)
  <2>1. CASE review'[s] = review[s]
    BY <1>1, <1>2, <1>3, <2>1 DEF ReviewService!isPublished, ReviewService!exists
  <2>2. CASE review'[s] # review[s]
    <3>1. ~ ReviewService!exists(moderator[h].stay)
      BY <1>5, <2>2 DEF ReviewService!Create
    <3>2. /\ review' = [review EXCEPT ![moderator[h].stay] =
                [status |-> moderator[h].status, scores |-> moderator[h].scores,
                 overallRating |-> ReviewService!overallRating(moderator[h].scores),
                 answered |-> FALSE]]
          /\ ReviewService!publishReviewEvent(moderator[h].stay, moderator[h].status = "PUBLISHED")
      BY <1>5, <3>1 DEF ReviewService!Create
    <3>3. s = moderator[h].stay /\ review'[s].status = moderator[h].status
      BY <2>2, <3>2
    <3>4. moderator[h].status = "PUBLISHED"
      BY <1>2, <3>3 DEF ReviewService!isPublished
    <3>5. QED
      BY <3>2, <3>3, <3>4 DEF ReviewService!publishReviewEvent
  <2>3. QED
    BY <2>1, <2>2
<1>6. CASE ReviewService!Moderate(h)
  <2>1. CASE s # moderator[h].stay
    BY <1>1, <1>2, <1>3, <1>6, <2>1
       DEF ReviewService!Moderate, ReviewService!isPublished, ReviewService!exists
  <2>2. CASE s = moderator[h].stay
    <3>1. /\ moderator[h].wasPublished \in BOOLEAN
          /\ moderator[h].wasPublished => reviewOutbox[s] > 0
          /\ review[s] \in ReviewService!ReviewRow
      BY <1>6, <2>2 DEF ReviewService!Moderate, ModeratorsFindRows, FindsRow, ReviewService!exists
    <3>2. moderator[h].status = "PUBLISHED"
      BY <1>2, <1>6, <2>2, <3>1
         DEF ReviewService!Moderate, ReviewService!isPublished, ReviewService!ReviewRow
    <3>3. ReviewService!publishReviewEvent(s, ~ moderator[h].wasPublished)
      BY <1>6, <2>2, <3>1, <3>2 DEF ReviewService!Moderate, ReviewService!announces,
                                    ReviewService!publishReviewEvent
    <3>4. QED
      BY <1>1, <3>1, <3>3 DEF ReviewService!publishReviewEvent
  <2>3. QED
    BY <2>1, <2>2
<1>7. CASE ReviewService!Respond(h)
  <2>1. ReviewService!isPublished(s)
    <3>1. CASE s = moderator[h].stay
      <4>1. review[s] \in ReviewService!ReviewRow /\ ReviewService!exists(s)
        BY <1>7, <3>1 DEF ReviewService!Respond, ModeratorsFindRows, FindsRow, ReviewService!exists
      <4>2. QED
        BY <1>2, <1>7, <3>1, <4>1
           DEF ReviewService!Respond, ReviewService!isPublished, ReviewService!ReviewRow
    <3>2. CASE s # moderator[h].stay
      BY <1>2, <1>7, <3>2
         DEF ReviewService!Respond, ReviewService!isPublished, ReviewService!exists
    <3>3. QED
      BY <3>1, <3>2
  <2>2. QED
    BY <1>1, <1>3, <2>1
<1>8. QED
  BY <1>4, <1>5, <1>6, <1>7
     DEF ReviewStep, ReviewService!create, ReviewService!ReadForCreate,
         ReviewService!moderateReview, ReviewService!ReadForModerate, ReviewService!respond,
         ReviewService!ReadForRespond, ReviewService!recomputeRating,
         ReviewService!ReadPublished, ReviewService!UpsertRating, ReviewService!Crash

(* In a quiet behaviour a step is taken while all others are at rest.      *)
LEMMA OthersRest ==
    ASSUME ReviewInv, ReviewRows', quiet, NEW h \in Moderators, ReviewStep(h)
    PROVE  /\ \A g \in Moderators : g # h => moderator'[g] = ReviewService!AtRest
           /\ oneModerator'
<1> USE DEF ReviewInv, ReviewRows
<1>1. SUFFICES ASSUME NEW g \in Moderators, g # h, moderator[g] # ReviewService!AtRest
      PROVE  FALSE
  BY ReviewFrame DEF oneModerator
<1>2. moderator[h] = ReviewService!AtRest
  BY <1>1 DEF oneModerator, QuietReviews
<1>3. ~ ReviewService!ReadForCreate(h) /\ ~ ReviewService!ReadForModerate(h)
      /\ ~ ReviewService!ReadForRespond(h)
  BY <1>1 DEF ReviewService!ReadForCreate, ReviewService!ReadForModerate,
              ReviewService!ReadForRespond, ReviewService!begin
<1>4. moderator[h].pc = "REST"
  BY <1>2 DEF ReviewService!AtRest
<1>5. QED
  BY <1>2, <1>3, <1>4
     DEF ReviewStep, ReviewService!create, ReviewService!moderateReview, ReviewService!respond,
         ReviewService!recomputeRating, ReviewService!Create, ReviewService!Moderate,
         ReviewService!Respond, ReviewService!ReadPublished, ReviewService!UpsertRating,
         ReviewService!Crash

(* What a decision does to the page: its own review is on it when the      *)
(* decision says so, and no other changes.                                 *)
LEMMA Decided ==
    ASSUME ReviewInv, NEW h \in Moderators, ReviewService!Moderate(h)
    PROVE  /\ moderator[h].stay \in ReviewedStays
           /\ moderator[h].wasPublished \in BOOLEAN
           /\ \A s \in {moderator[h].stay} :
                 ReviewService!isPublished(s)' <=> moderator[h].status = "PUBLISHED"
           /\ \A s \in ReviewedStays \ {moderator[h].stay} : review'[s] = review[s]
           /\ \A s \in ReviewedStays : ReviewService!exists(s) =>
                 /\ review'[s].overallRating = review[s].overallRating
                 /\ review'[s].scores = review[s].scores
<1> USE DEF ReviewInv, ReviewRows
<1>1. /\ moderator[h].stay \in ReviewedStays /\ ReviewService!exists(moderator[h].stay)
      /\ moderator[h].wasPublished \in BOOLEAN
      /\ moderator[h].status \in ReviewService!ReviewStatus
  BY DEF ReviewService!Moderate, ModeratorsFindRows, FindsRow
<1>2. review[moderator[h].stay] \in ReviewService!ReviewRow
  BY <1>1 DEF ReviewService!exists
<1>3. /\ review' = [review EXCEPT ![moderator[h].stay].status = moderator[h].status]
      /\ review'[moderator[h].stay] =
            [review[moderator[h].stay] EXCEPT !.status = moderator[h].status]
  BY <1>1 DEF ReviewService!Moderate
<1>4. /\ review'[moderator[h].stay] \in ReviewService!ReviewRow
      /\ review'[moderator[h].stay].status = moderator[h].status
      /\ review'[moderator[h].stay].overallRating = review[moderator[h].stay].overallRating
      /\ review'[moderator[h].stay].scores = review[moderator[h].stay].scores
  BY <1>1, <1>2, <1>3 DEF ReviewService!ReviewRow
<1>5. \A s \in ReviewedStays \ {moderator[h].stay} : review'[s] = review[s]
  BY <1>3
<1>6. QED
  BY <1>1, <1>4, <1>5, GuestAssumption DEF ReviewService!isPublished, ReviewService!exists

(* An answer does not take a review off the page or onto it.               *)
LEMMA Answered ==
    ASSUME ReviewInv, NEW h \in Moderators, ReviewService!Respond(h)
    PROVE  \A s \in ReviewedStays :
              /\ ReviewService!isPublished(s)' <=> ReviewService!isPublished(s)
              /\ ReviewService!exists(s) =>
                    /\ review'[s].overallRating = review[s].overallRating
                    /\ review'[s].scores = review[s].scores
<1> USE DEF ReviewInv, ReviewRows
<1>1. /\ moderator[h].stay \in ReviewedStays /\ ReviewService!exists(moderator[h].stay)
      /\ review[moderator[h].stay] \in ReviewService!ReviewRow
  BY DEF ReviewService!Respond, ModeratorsFindRows, FindsRow, ReviewService!exists
<1>2. /\ \A s \in ReviewedStays \ {moderator[h].stay} : review'[s] = review[s]
      /\ review'[moderator[h].stay] = [review[moderator[h].stay] EXCEPT !.answered = TRUE]
  BY <1>1 DEF ReviewService!Respond
<1>3. /\ review'[moderator[h].stay] \in ReviewService!ReviewRow
      /\ review'[moderator[h].stay].status = review[moderator[h].stay].status
      /\ review'[moderator[h].stay].overallRating = review[moderator[h].stay].overallRating
      /\ review'[moderator[h].stay].scores = review[moderator[h].stay].scores
  BY <1>1, <1>2 DEF ReviewService!ReviewRow
<1>4. QED
  BY <1>1, <1>2, <1>3, GuestAssumption DEF ReviewService!isPublished, ReviewService!exists

(* A review that is created is the only one that changes, and was not      *)
(* there before.                                                           *)
LEMMA Created ==
    ASSUME ReviewInv, NEW h \in Moderators, ReviewService!Create(h),
           ~ ReviewService!exists(moderator[h].stay)
    PROVE  /\ moderator[h].stay \in ReviewedStays
           /\ \A s \in ReviewedStays \ {moderator[h].stay} : review'[s] = review[s]
           /\ \A s \in {moderator[h].stay} :
                 ReviewService!isPublished(s)' <=> moderator[h].status = "PUBLISHED"
           /\ ReviewService!publishReviewEvent(moderator[h].stay, moderator[h].status = "PUBLISHED")
           /\ ReviewService!thenRecompute(h, moderator[h].status = "PUBLISHED")
<1> USE DEF ReviewInv, ReviewRows
<1> DEFINE new == [status |-> moderator[h].status, scores |-> moderator[h].scores,
                   overallRating |-> ReviewService!overallRating(moderator[h].scores),
                   answered |-> FALSE]
<1>1. /\ moderator[h].stay \in ReviewedStays
      /\ new \in ReviewService!ReviewRow
  BY DEF ReviewService!Create, ModeratorsFindRows, FindsRow, ReviewService!ReviewRow
<1>2. /\ review' = [review EXCEPT ![moderator[h].stay] = new]
      /\ ReviewService!publishReviewEvent(moderator[h].stay, moderator[h].status = "PUBLISHED")
      /\ ReviewService!thenRecompute(h, moderator[h].status = "PUBLISHED")
  BY DEF ReviewService!Create
<1>3. /\ \A s \in ReviewedStays \ {moderator[h].stay} : review'[s] = review[s]
      /\ review'[moderator[h].stay] = new
      /\ new.status = moderator[h].status
      /\ new # NoReview
  BY <1>1, <1>2, GuestAssumption
<1> HIDE DEF new
<1>4. QED
  BY <1>1, <1>2, <1>3 DEF ReviewService!isPublished, ReviewService!exists

(* Rows that are not touched are published as they were.                   *)
LEMMA SamePage ==
    ASSUME UNCHANGED review
    PROVE  /\ \A s \in ReviewedStays :
                ReviewService!isPublished(s)' <=> ReviewService!isPublished(s)
           /\ currentRating' = currentRating
<1>1. \A s \in ReviewedStays : ReviewService!isPublished(s)' <=> ReviewService!isPublished(s)
  BY DEF ReviewService!isPublished, ReviewService!exists
<1>2. ReviewService!published' = ReviewService!published
  BY <1>1 DEF ReviewService!published
<1>3. QED
  BY <1>1, <1>2, SameRatings

(* When the same reviews are on the page with the same scores, the rating  *)
(* they give is the same.                                                  *)
LEMMA PageKept ==
    ASSUME \A s \in ReviewedStays :
              /\ ReviewService!isPublished(s)' <=> ReviewService!isPublished(s)
              /\ ReviewService!isPublished(s) =>
                    /\ review'[s].overallRating = review[s].overallRating
                    /\ review'[s].scores = review[s].scores
    PROVE  currentRating' = currentRating
<1>1. ReviewService!published' = ReviewService!published
  BY DEF ReviewService!published
<1>2. \A s \in ReviewService!published :
         /\ review'[s].overallRating = review[s].overallRating
         /\ review'[s].scores = review[s].scores
  BY DEF ReviewService!published
<1>3. QED
  BY <1>1, <1>2, SameRatings

(* Without overlap the rating is right but for a request on its way to it. *)
LEMMA RatingKept ==
    ASSUME ReviewInv, ReviewRows', quiet, NEW h \in Moderators, ReviewStep(h)
    PROVE  /\ moderator'[h].pc = "UPSERT" => moderator'[h].aggregate = currentRating'
           /\ lost' \/ (\E g \in Moderators : onItsWay(g))' \/ rating' = currentRating'
<1> USE DEF ReviewInv, ReviewRows
<1>1. /\ \A g \in Moderators : g # h => moderator'[g] = moderator[g]
      /\ \A g \in Moderators : g = h \/ moderator[g].pc = "REST"
      \/ moderator[h].pc = "REST"
  BY ReviewFrame DEF QuietReviews, oneModerator, ReviewService!AtRest
<1>2. CASE \/ ReviewService!ReadForCreate(h) \/ ReviewService!ReadForModerate(h)
           \/ ReviewService!ReadForRespond(h)
  <2>1. /\ UNCHANGED <<review, rating, lost>>
        /\ \A g \in Moderators : moderator[g].pc = "REST"
    <3>1. UNCHANGED <<review, rating, lost>>
      BY <1>2 DEF ReviewService!ReadForCreate, ReviewService!ReadForModerate,
                  ReviewService!ReadForRespond
    <3>2. \A g \in Moderators : moderator[g] = ReviewService!AtRest
      BY <1>2 DEF ReviewService!ReadForCreate, ReviewService!ReadForModerate,
                  ReviewService!ReadForRespond, ReviewService!begin
    <3>3. QED
      BY <3>1, <3>2 DEF ReviewService!AtRest
  <2>2. moderator'[h].pc # "UPSERT"
    <3>1. CASE ReviewService!ReadForCreate(h)
      BY <3>1 DEF ReviewService!ReadForCreate, ReviewService!begin
    <3>2. CASE ReviewService!ReadForModerate(h)
      BY <3>2 DEF ReviewService!ReadForModerate, ReviewService!begin
    <3>3. CASE ReviewService!ReadForRespond(h)
      BY <3>3 DEF ReviewService!ReadForRespond, ReviewService!begin
    <3>4. QED
      BY <1>2, <3>1, <3>2, <3>3
  <2>3. QED
    BY <2>1, <2>2, SamePage DEF QuietReviews, onItsWay
<1> DEFINE restsOrOnItsWay == /\ UNCHANGED <<rating, lost>>
                              /\ moderator[h].pc \in {"CREATE", "MODERATE", "RESPOND"}
                              /\ moderator'[h].pc \in {"REST", "RECOMPUTE"}
<1>3. restsOrOnItsWay => lost \/ rating = currentRating
  <2>1. SUFFICES ASSUME restsOrOnItsWay PROVE \A g \in Moderators : ~ onItsWay(g)
    BY DEF QuietReviews
  <2>2. moderator[h].pc # "REST"
    BY <2>1
  <2>3. QED
    BY <1>1, <2>1, <2>2 DEF onItsWay
<1>4. CASE ReviewService!Create(h)
  <2>1. restsOrOnItsWay
    BY <1>4 DEF ReviewService!Create, ReviewService!thenRecompute, ReviewService!AtRest
  <2>2. CASE ReviewService!exists(moderator[h].stay)
    BY <1>3, <1>4, <2>1, <2>2, SamePage DEF ReviewService!Create
  <2>3. CASE ~ ReviewService!exists(moderator[h].stay) /\ moderator[h].status = "PUBLISHED"
    BY <1>4, <2>1, <2>3, Created DEF ReviewService!thenRecompute, onItsWay
  <2>4. CASE ~ ReviewService!exists(moderator[h].stay) /\ moderator[h].status # "PUBLISHED"
    <3>1. \A s \in ReviewedStays :
             /\ ReviewService!isPublished(s)' <=> ReviewService!isPublished(s)
             /\ ReviewService!isPublished(s) => review'[s] = review[s]
      BY <1>4, <2>4, Created DEF ReviewService!isPublished, ReviewService!exists
    <3>2. currentRating' = currentRating
      BY <3>1, PageKept
    <3>3. QED
      BY <1>3, <2>1, <3>2
  <2>5. QED
    BY <2>2, <2>3, <2>4
<1>5. CASE ReviewService!Moderate(h)
  <2>1. restsOrOnItsWay
    BY <1>5 DEF ReviewService!Moderate, ReviewService!thenRecompute, ReviewService!AtRest
  <2>2. CASE ReviewService!aggregateChanges(moderator[h].wasPublished, moderator[h].status)
    <3>1. moderator'[h].pc = "RECOMPUTE"
      BY <1>5, <2>2 DEF ReviewService!Moderate, ReviewService!thenRecompute
    <3>2. QED
      BY <2>1, <3>1 DEF onItsWay
  <2>3. CASE ~ ReviewService!aggregateChanges(moderator[h].wasPublished, moderator[h].status)
    <3>1. moderator[h].wasPublished <=> moderator[h].status = "PUBLISHED"
      BY <1>5, <2>3, Decided DEF ReviewService!aggregateChanges
    <3>2. moderator[h].wasPublished = ReviewService!isPublished(moderator[h].stay)
      BY <1>5 DEF ReviewService!Moderate, QuietReviews
    <3>3. \A s \in ReviewedStays :
             ReviewService!isPublished(s)' <=> ReviewService!isPublished(s)
      <4>1. \A s \in ReviewedStays \ {moderator[h].stay} :
               ReviewService!isPublished(s)' <=> ReviewService!isPublished(s)
        BY <1>5, Decided DEF ReviewService!isPublished, ReviewService!exists
      <4>2. \A s \in {moderator[h].stay} :
               ReviewService!isPublished(s)' <=> ReviewService!isPublished(s)
        BY <1>5, <3>1, <3>2, Decided
      <4>3. QED
        BY <4>1, <4>2
    <3>4. currentRating' = currentRating
      BY <1>5, <3>3, Decided, PageKept DEF ReviewService!isPublished
    <3>5. QED
      BY <1>3, <2>1, <3>4
  <2>4. QED
    BY <2>2, <2>3
<1>6. CASE ReviewService!Respond(h)
  <2>1. restsOrOnItsWay
    BY <1>6 DEF ReviewService!Respond, ReviewService!AtRest
  <2>2. currentRating' = currentRating
    BY <1>6, Answered, PageKept DEF ReviewService!isPublished
  <2>3. QED
    BY <1>3, <2>1, <2>2
<1>7. CASE ReviewService!ReadPublished(h)
  <2>1. /\ moderator'[h] = [pc |-> "UPSERT", aggregate |-> currentRating]
        /\ UNCHANGED review
    BY <1>7 DEF ReviewService!ReadPublished, currentRating
  <2>2. QED
    BY <2>1, SamePage DEF onItsWay
<1>8. CASE ReviewService!UpsertRating(h)
  <2>1. rating' = currentRating /\ UNCHANGED review /\ moderator'[h].pc = "REST"
    BY <1>8 DEF ReviewService!UpsertRating, QuietReviews, ReviewService!AtRest
  <2>2. QED
    BY <2>1, SamePage
<1>9. CASE ReviewService!Crash(h)
  <2>1. /\ UNCHANGED <<review, rating>>
        /\ lost' = (lost \/ onItsWay(h))
    BY <1>9 DEF ReviewService!Crash, onItsWay, ReviewService!AtRest
  <2>2. CASE onItsWay(h)
    BY <1>9, <2>1, <2>2 DEF ReviewService!Crash, ReviewService!AtRest
  <2>3. CASE ~ onItsWay(h)
    <3>1. \A g \in Moderators : ~ onItsWay(g)
      BY <1>1, <1>9, <2>3 DEF onItsWay, ReviewService!Crash, QuietReviews, oneModerator,
                              ReviewService!AtRest
    <3>2. QED
      BY <1>9, <2>1, <2>3, <3>1, SamePage
         DEF QuietReviews, ReviewService!Crash, ReviewService!AtRest
  <2>4. QED
    BY <2>2, <2>3
<1>10. QED
  BY <1>2, <1>4, <1>5, <1>6, <1>7, <1>8, <1>9
     DEF ReviewStep, ReviewService!create, ReviewService!moderateReview, ReviewService!respond,
         ReviewService!recomputeRating

(* Without overlap a review is announced when it enters publication, and   *)
(* then only.                                                              *)
LEMMA EntersOnce ==
    ASSUME ReviewInv, ReviewRows', quiet, NEW h \in Moderators, ReviewStep(h),
           NEW s \in ReviewedStays
    PROVE  reviewOutbox'[s] - reviewOutbox[s] =
              IF ReviewService!isPublished(s)' /\ ~ ReviewService!isPublished(s) THEN 1 ELSE 0
<1> USE DEF ReviewInv, ReviewRows
<1>1. CASE UNCHANGED <<review, reviewOutbox>>
  BY <1>1, SamePage
<1>2. CASE ReviewService!Create(h) /\ ~ ReviewService!exists(moderator[h].stay)
  <2>1. CASE s = moderator[h].stay
    <3>1. ReviewService!publishReviewEvent(s, moderator[h].status = "PUBLISHED")
      BY <1>2, <2>1, Created
    <3>2. /\ ReviewService!isPublished(s)' <=> moderator[h].status = "PUBLISHED"
          /\ ~ ReviewService!isPublished(s)
      BY <1>2, <2>1, Created DEF ReviewService!isPublished
    <3>3. CASE moderator[h].status = "PUBLISHED"
      BY <3>1, <3>2, <3>3 DEF ReviewService!publishReviewEvent
    <3>4. CASE moderator[h].status # "PUBLISHED"
      BY <3>1, <3>2, <3>4 DEF ReviewService!publishReviewEvent
    <3>5. QED
      BY <3>3, <3>4
  <2>2. CASE s # moderator[h].stay
    <3>1. review'[s] = review[s]
      BY <1>2, <2>2, Created
    <3>2. reviewOutbox'[s] = reviewOutbox[s]
      BY <1>2, <2>2, Created DEF ReviewService!publishReviewEvent
    <3>3. QED
      BY <3>1, <3>2 DEF ReviewService!isPublished, ReviewService!exists
  <2>3. QED
    BY <2>1, <2>2
<1>3. CASE ReviewService!Moderate(h)
  <2>1. ReviewService!publishReviewEvent(moderator[h].stay,
           ReviewService!announces(moderator[h].wasPublished, moderator[h].status))
    BY <1>3 DEF ReviewService!Moderate
  <2>2. CASE s = moderator[h].stay
    <3>1. ReviewService!isPublished(s)' <=> moderator[h].status = "PUBLISHED"
      BY <1>3, <2>2, Decided
    <3>2. moderator[h].wasPublished = ReviewService!isPublished(s)
      BY <1>3, <2>2 DEF ReviewService!Moderate, QuietReviews
    <3>3. ReviewService!announces(moderator[h].wasPublished, moderator[h].status) <=>
            ReviewService!isPublished(s)' /\ ~ ReviewService!isPublished(s)
      BY <1>3, <3>1, <3>2, Decided DEF ReviewService!announces
    <3>4. CASE ReviewService!announces(moderator[h].wasPublished, moderator[h].status)
      BY <2>1, <2>2, <3>3, <3>4 DEF ReviewService!publishReviewEvent
    <3>5. CASE ~ ReviewService!announces(moderator[h].wasPublished, moderator[h].status)
      BY <2>1, <2>2, <3>3, <3>5 DEF ReviewService!publishReviewEvent
    <3>6. QED
      BY <3>4, <3>5
  <2>3. CASE s # moderator[h].stay
    <3>1. review'[s] = review[s]
      BY <1>3, <2>3, Decided
    <3>2. reviewOutbox'[s] = reviewOutbox[s]
      BY <2>1, <2>3 DEF ReviewService!publishReviewEvent
    <3>3. QED
      BY <3>1, <3>2 DEF ReviewService!isPublished, ReviewService!exists
  <2>4. QED
    BY <2>2, <2>3
<1>4. CASE ReviewService!Respond(h)
  <2>1. reviewOutbox'[s] = reviewOutbox[s] /\ reviewOutbox[s] \in Nat
    BY <1>4 DEF ReviewService!Respond
  <2>2. ReviewService!isPublished(s)' <=> ReviewService!isPublished(s)
    BY <1>4, Answered
  <2>3. QED
    BY <2>1, <2>2
<1>5. QED
  BY <1>1, <1>2, <1>3, <1>4
     DEF ReviewStep, ReviewService!create, ReviewService!ReadForCreate, ReviewService!Create,
         ReviewService!moderateReview, ReviewService!ReadForModerate, ReviewService!respond,
         ReviewService!ReadForRespond, ReviewService!recomputeRating,
         ReviewService!ReadPublished, ReviewService!UpsertRating, ReviewService!Crash

(* Whatever steps the services take, theirs alone change the reviews.      *)
LEMMA ReviewSteps ==
    ASSUME [GuestNext]_guestVars
    PROVE  \/ UNCHANGED <<reviewVars, quiet>>
           \/ quiet' = quiet /\ \E h \in Moderators : ReviewStep(h)
BY DEF GuestNext, guestVars, auth, reviews, notifications, pricing, hotels, reports, auditing,
       lists, realtime, Next, ReviewService!Next, NotificationService!Next,
       PricingService!Next, HotelService!Next, ReviewStep

(* Every step of every service keeps what is known of the reviews.         *)
LEMMA ReviewNext == ReviewInv /\ [GuestNext]_guestVars => ReviewInv'
<1> SUFFICES ASSUME ReviewInv, [GuestNext]_guestVars PROVE ReviewInv'
  OBVIOUS
<1>1. CASE UNCHANGED <<reviewVars, quiet>>
  <2>1. currentRating' = currentRating
    BY <1>1, SamePage DEF reviewVars
  <2>2. QuietReviews => QuietReviews'
    BY <1>1, <2>1 DEF reviewVars, QuietReviews, oneModerator, onItsWay,
                      ReviewService!isPublished, ReviewService!exists
  <2>3. QED
    BY <1>1, <2>2
       DEF reviewVars, ReviewInv, ReviewRows, ModeratorsFindRows, FindsRow, PublishedIsAnnounced,
           ReviewService!published, ReviewService!isPublished, ReviewService!exists
<1>2. ASSUME quiet' = quiet, NEW h \in Moderators, ReviewStep(h) PROVE ReviewInv'
  <2>1. ReviewRows'
    BY <1>2, ReviewRowsKept
  <2>2. ModeratorsFindRows' /\ PublishedIsAnnounced'
    BY <1>2, <2>1, FindKept, AnnouncedKept
  <2>3. ASSUME quiet PROVE QuietReviews'
    <3>1. /\ oneModerator'
          /\ \A g \in Moderators : g # h => moderator'[g].pc = "REST"
      BY <1>2, <2>1, <2>3, OthersRest DEF ReviewService!AtRest
    <3>2. /\ moderator'[h].pc = "UPSERT" => moderator'[h].aggregate = currentRating'
          /\ lost' \/ (\E g \in Moderators : onItsWay(g))' \/ rating' = currentRating'
      BY <1>2, <2>1, <2>3, RatingKept
    <3>3. (moderator[h].pc = "MODERATE" =>
              moderator[h].wasPublished = ReviewService!isPublished(moderator[h].stay))'
      <4>1. CASE ReviewService!ReadForModerate(h)
        BY <2>1, <4>1
           DEF ReviewService!ReadForModerate, ReviewService!begin, ReviewInv, ReviewRows,
               ReviewService!isPublished, ReviewService!exists
      <4>2. CASE ~ ReviewService!ReadForModerate(h)
        BY <1>2, <2>1, <4>2
           DEF ReviewStep, ReviewService!create, ReviewService!moderateReview,
               ReviewService!respond, ReviewService!recomputeRating,
               ReviewService!ReadForCreate, ReviewService!ReadForRespond, ReviewService!begin,
               ReviewService!Create, ReviewService!Moderate, ReviewService!Respond,
               ReviewService!ReadPublished, ReviewService!UpsertRating, ReviewService!Crash,
               ReviewService!thenRecompute, ReviewService!AtRest, ReviewInv, ReviewRows
      <4>3. QED
        BY <4>1, <4>2
    <3>4. QED
      BY <3>1, <3>2, <3>3 DEF QuietReviews
  <2>4. QED
    BY <1>2, <2>1, <2>2, <2>3 DEF ReviewInv
<1>3. QED
  BY <1>1, <1>2, ReviewSteps

(* HotelRating: "Rolling aggregate per property, recomputed when a review  *)
(* is published or hidden". Whatever reviews and decisions follow each     *)
(* other, the stored rating is that of the published reviews once all      *)
(* requests are done, if none overlapped and none was lost.                *)
THEOREM QuietRatingCurrentHolds == GuestSpec => []QuietRatingCurrent
<1>1. ReviewInv => QuietRatingCurrent
  BY DEF ReviewInv, QuietReviews, QuietRatingCurrent, ReviewService!QuietRatingCurrent,
         ReviewService!allAtRest, ReviewService!ratingIsCurrent, currentRating, onItsWay,
         ReviewService!AtRest
<1>2. QED
  BY <1>1, ReviewInit, ReviewNext, PTL DEF GuestSpec

-----------------------------------------------------------------------------
(* Pricing. A plan is announced when it goes live; a request to publish    *)
(* found its plan, and without overlap found it as it still is.            *)

PlanRows ==
    /\ plan \in [Plans -> PricingService!PlanRow \cup {NoPlan}]
    /\ planOutbox \in [Plans -> Nat]
    /\ pricer = [h \in Pricers |-> pricer[h]]
    /\ \A h \in Pricers : pricer[h].pc = "PUBLISH" =>
          pricer[h].plan \in Plans /\ PricingService!exists(pricer[h].plan)

QuietPlans ==
    /\ \A g, h \in Pricers :
          g = h \/ pricer[g] = PricingService!Rests \/ pricer[h] = PricingService!Rests
    /\ \A h \in Pricers : pricer[h].pc = "PUBLISH" => ~ PricingService!isLive(pricer[h].plan)
    /\ \A p \in Plans : planOutbox[p] = IF PricingService!isLive(p) THEN 1 ELSE 0

PlanInv ==
    /\ PlanRows
    /\ \A p \in Plans : PricingService!isLive(p) => planOutbox[p] > 0
    /\ quiet => QuietPlans

PlanStep(h) ==
    \/ PricingService!CreateRatePlan(h) \/ PricingService!ReadForPublish(h)
    \/ PricingService!Publish(h) \/ PricingService!ReadForPromotion(h)
    \/ PricingService!CreatePromotion(h) \/ PricingService!ReadForRedeem(h)
    \/ PricingService!Redeem(h) \/ PricingService!Crash(h)

(* No plan and no request at first.                                        *)
LEMMA PlanInit == GuestInit => PlanInv
BY DEF GuestInit, PricingService!Init, PlanInv, PlanRows, QuietPlans, PricingService!Rests,
       PricingService!exists, PricingService!isLive

(* What publishing writes: the plan of the request goes live with an event.*)
LEMMA PlanGoesLive ==
    ASSUME PlanInv, NEW h \in Pricers, PricingService!Publish(h)
    PROVE  /\ pricer[h].pc = "PUBLISH" /\ pricer[h].plan \in Plans
           /\ plan' \in [Plans -> PricingService!PlanRow \cup {NoPlan}]
           /\ planOutbox' \in [Plans -> Nat]
           /\ \A p \in Plans \ {pricer[h].plan} :
                 plan'[p] = plan[p] /\ planOutbox'[p] = planOutbox[p]
           /\ \A p \in {pricer[h].plan} :
                 PricingService!isLive(p)' /\ planOutbox'[p] = planOutbox[p] + 1
           /\ pricer' = [pricer EXCEPT ![h] = PricingService!Rests]
<1> USE DEF PlanInv, PlanRows
<1> DEFINE p == pricer[h].plan
           onSale == [plan[p] EXCEPT !.published = TRUE]
<1>1. /\ pricer[h].pc = "PUBLISH" /\ p \in Plans /\ plan[p] \in PricingService!PlanRow
      /\ plan' = [plan EXCEPT ![p] = onSale]
      /\ planOutbox' = [planOutbox EXCEPT ![p] = @ + 1]
      /\ pricer' = [pricer EXCEPT ![h] = PricingService!Rests]
  BY DEF PricingService!Publish, PricingService!exists, PricingService!done
<1>2. onSale \in PricingService!PlanRow /\ onSale.published
  BY <1>1 DEF PricingService!PlanRow
<1> HIDE DEF p, onSale
<1>3. /\ plan'[p] = onSale /\ planOutbox'[p] = planOutbox[p] + 1
      /\ \A q \in Plans \ {p} : plan'[q] = plan[q] /\ planOutbox'[q] = planOutbox[q]
  BY <1>1
<1>4. QED
  BY <1>1, <1>2, <1>3, GuestAssumption DEF PricingService!isLive, PricingService!exists, p

(* What inserting writes: a plan that is not live.                         *)
LEMMA PlanInserted ==
    ASSUME PlanInv, NEW h \in Pricers, PricingService!CreateRatePlan(h)
    PROVE  /\ plan' \in [Plans -> PricingService!PlanRow \cup {NoPlan}]
           /\ planOutbox' = planOutbox
           /\ \A p \in Plans :
                 /\ PricingService!isLive(p)' <=> PricingService!isLive(p)
                 /\ PricingService!exists(p) => PricingService!exists(p)'
           /\ pricer' = [pricer EXCEPT ![h] = PricingService!Rests]
<1> USE DEF PlanInv, PlanRows
<1>1. PICK q \in Plans, card \in RateCards :
        /\ ~ PricingService!exists(q)
        /\ plan' = [plan EXCEPT ![q] = [card |-> card, published |-> FALSE]]
  BY DEF PricingService!CreateRatePlan
<1>2. [card |-> card, published |-> FALSE] \in PricingService!PlanRow
  BY DEF PricingService!PlanRow
<1>3. /\ planOutbox' = planOutbox
      /\ pricer' = [pricer EXCEPT ![h] = PricingService!Rests]
  BY DEF PricingService!CreateRatePlan, PricingService!begin
<1>4. QED
  BY <1>1, <1>2, <1>3 DEF PricingService!isLive, PricingService!exists

(* A step of one handler keeps the rows and what is announced of them.     *)
LEMMA PlanStepKeeps ==
    ASSUME PlanInv, quiet' = quiet, NEW h \in Pricers, PlanStep(h)
    PROVE  PlanInv'
<1> USE DEF PlanInv, PlanRows
<1>1. pricer' = [g \in Pricers |-> pricer'[g]]
      /\ \A g \in Pricers : g # h => pricer'[g] = pricer[g]
  BY DEF PlanStep, PricingService!CreateRatePlan, PricingService!ReadForPublish,
         PricingService!Publish, PricingService!ReadForPromotion,
         PricingService!CreatePromotion, PricingService!ReadForRedeem,
         PricingService!Redeem, PricingService!Crash, PricingService!begin,
         PricingService!done
<1>2. ASSUME quiet
      PROVE  \A g \in Pricers : g # h => pricer[g] = PricingService!Rests
  <2>1. SUFFICES ASSUME NEW g \in Pricers, g # h, pricer[g] # PricingService!Rests
        PROVE  FALSE
    OBVIOUS
  <2>2. pricer[h] = PricingService!Rests
    BY <1>2, <2>1 DEF QuietPlans
  <2>3. pricer[h].pc = "REST"
    BY <2>2 DEF PricingService!Rests
  <2>4. QED
    BY <1>2, <2>1, <2>2, <2>3
       DEF PlanStep, PricingService!CreateRatePlan, PricingService!ReadForPublish,
           PricingService!Publish, PricingService!ReadForPromotion,
           PricingService!CreatePromotion, PricingService!ReadForRedeem,
           PricingService!Redeem, PricingService!Crash, PricingService!begin
<1>3. CASE PricingService!Publish(h)
  <2>1. PlanRows' /\ \A p \in Plans : (PricingService!isLive(p) => planOutbox[p] > 0)'
    BY <1>1, <1>3, PlanGoesLive
       DEF PricingService!isLive, PricingService!exists, PricingService!Rests
  <2>2. ASSUME quiet PROVE QuietPlans'
    BY <1>1, <1>2, <1>3, <2>2, PlanGoesLive
       DEF QuietPlans, PricingService!isLive, PricingService!exists, PricingService!Rests
  <2>3. QED
    BY <2>1, <2>2
<1>4. CASE PricingService!CreateRatePlan(h)
  <2>1. PlanRows' /\ \A p \in Plans : (PricingService!isLive(p) => planOutbox[p] > 0)'
    BY <1>1, <1>4, PlanInserted DEF PricingService!Rests
  <2>2. ASSUME quiet PROVE QuietPlans'
    BY <1>1, <1>2, <1>4, <2>2, PlanInserted DEF QuietPlans, PricingService!Rests
  <2>3. QED
    BY <2>1, <2>2
<1>5. CASE UNCHANGED PricingService!plans
  <2>1. \A p \in Plans : /\ PricingService!isLive(p)' <=> PricingService!isLive(p)
                         /\ PricingService!exists(p)' <=> PricingService!exists(p)
    BY <1>5 DEF PricingService!plans, PricingService!isLive, PricingService!exists
  <2>2. pricer'[h].pc = "PUBLISH" =>
          /\ pricer'[h].plan \in Plans
          /\ PricingService!exists(pricer'[h].plan)
          /\ ~ PricingService!isLive(pricer'[h].plan)
    BY <1>1, <1>3, <1>4
       DEF PlanStep, PricingService!ReadForPublish, PricingService!ReadForPromotion,
           PricingService!CreatePromotion, PricingService!ReadForRedeem,
           PricingService!Redeem, PricingService!Crash, PricingService!begin,
           PricingService!done, PricingService!Rests, PricingService!Publish,
           PricingService!CreateRatePlan
  <2>3. PlanRows' /\ \A p \in Plans : (PricingService!isLive(p) => planOutbox[p] > 0)'
    BY <1>1, <1>5, <2>1, <2>2 DEF PricingService!plans, PricingService!exists, PricingService!isLive
  <2>4. ASSUME quiet PROVE QuietPlans'
    BY <1>1, <1>2, <1>5, <2>1, <2>2, <2>4
       DEF PricingService!plans, QuietPlans, PricingService!Rests, PricingService!exists, PricingService!isLive
  <2>5. QED
    BY <2>3, <2>4
<1>6. QED
  BY <1>3, <1>4, <1>5
     DEF PlanStep, PricingService!ReadForPublish, PricingService!ReadForPromotion,
         PricingService!CreatePromotion, PricingService!ReadForRedeem, PricingService!Redeem,
         PricingService!Crash

(* Every step of every service keeps what is known of the plans.           *)
LEMMA PlanNext == PlanInv /\ [GuestNext]_guestVars => PlanInv'
<1> SUFFICES ASSUME PlanInv, [GuestNext]_guestVars PROVE PlanInv'
  OBVIOUS
<1>1. CASE UNCHANGED <<pricingVars, quiet>>
  BY <1>1 DEF pricingVars, PlanInv, PlanRows, QuietPlans, PricingService!isLive,
              PricingService!exists
<1>2. CASE quiet' = quiet /\ \E h \in Pricers : PlanStep(h)
  BY <1>2, PlanStepKeeps
<1>3. QED
  BY <1>1, <1>2
     DEF GuestNext, guestVars, auth, reviews, notifications, pricing, hotels, reports,
         auditing, lists, realtime, Next, ReviewService!Next, NotificationService!Next,
         PricingService!Next, HotelService!Next, PlanStep

-----------------------------------------------------------------------------
(* Prices. The bounds of a plan that was created are in order, and the     *)
(* terms of a code are such as may be promoted; so no quote leaves them    *)
(* and no code takes more than the bill.                                   *)

CardsInOrder ==
    \A p \in Plans : PricingService!exists(p) =>
        plan[p].card \in RateCards /\ PricingService!coherent(plan[p].card)

TermsMayBe ==
    /\ terms # NoTerms => terms \in Promotions /\ PricingService!mayPromote(terms)
    /\ \A h \in Pricers : pricer[h].pc = "PROMOTE" =>
          pricer[h].terms \in Promotions /\ PricingService!mayPromote(pricer[h].terms)

PriceInv == PlanInv /\ CardsInOrder /\ TermsMayBe

(* A larger dividend never has the smaller quotient.                       *)
LEMMA RatesRound ==
    ASSUME NEW x \in Nat, NEW y \in Nat, x <= y
    PROVE  /\ (x + 1600000) \div 3200000 \in Nat
           /\ (x + 1600000) \div 3200000 <= (y + 1600000) \div 3200000
OBVIOUS

(* Of factors no smaller the product is no smaller.                        *)
LEMMA ProductGrows ==
    ASSUME NEW a \in Nat, NEW x \in Nat, NEW y \in Nat, x <= y
    PROVE  a * x \in Nat /\ a * x <= a * y /\ x * a <= y * a /\ x * a \in Nat
OBVIOUS

(* The smaller and the larger of two numbers.                              *)
LEMMA SmallerAndLarger ==
    ASSUME NEW a \in Nat, NEW b \in Nat
    PROVE  /\ PricingService!Min({a, b}) = IF a <= b THEN a ELSE b
           /\ PricingService!Max({a, b}) = IF a <= b THEN b ELSE a
BY DEF PricingService!Min, PricingService!Max

(* A clamped amount lies within bounds that are in order, and clamping     *)
(* keeps the order of amounts.                                             *)
LEMMA ClampKeeps ==
    ASSUME NEW card \in RateCards, PricingService!coherent(card), NEW a \in Nat, NEW b \in Nat, a <= b
    PROVE  LET rate == PricingService!clamp(a, card) IN
           /\ card.min # NoBound => card.min <= rate
           /\ card.max # NoBound => rate <= card.max
           /\ rate <= PricingService!clamp(b, card)
<1>1. /\ card.min \in Nat \cup {NoBound} /\ card.max \in Nat \cup {NoBound}
      /\ card.min # NoBound /\ card.max # NoBound => card.min <= card.max
  BY PricesAssumption DEF PricingService!RateCard, PricingService!Amount, PricingService!coherent
<1> DEFINE low == card.min
           high == card.max
           up(x) == IF low = NoBound \/ x >= low THEN x ELSE low
           down(x) == IF high = NoBound \/ x <= high THEN x ELSE high
<1>2. ASSUME NEW x \in Nat PROVE up(x) \in Nat /\ PricingService!clamp(x, card) = down(up(x))
  <2>1. low # NoBound => PricingService!Max({low, x}) = up(x)
    BY <1>1, SmallerAndLarger
  <2>2. up(x) \in Nat
    BY <1>1
  <2>3. high # NoBound => PricingService!Min({high, up(x)}) = down(up(x))
    BY <1>1, <2>2, SmallerAndLarger
  <2>4. QED
    BY <2>1, <2>2, <2>3 DEF PricingService!clamp
<1>3. up(a) \in Nat /\ up(b) \in Nat /\ up(a) <= up(b) /\ (low # NoBound => low <= up(a))
  BY <1>1
<1>4. /\ low # NoBound => low <= down(up(a))
      /\ high # NoBound => down(up(a)) <= high
      /\ down(up(a)) <= down(up(b))
  BY <1>1, <1>3
<1>5. QED
  BY <1>2, <1>4

(* The factors of demand, and that of occupancy grows with it.             *)
LEMMA DemandGrows ==
    ASSUME NEW s \in PricingService!Signals, NEW t \in PricingService!Signals,
           t.lead = s.lead, t.high = s.high, t.occupancy >= s.occupancy
    PROVE  LET of(r) == PricingService!occupancyMultiplier(r.occupancy)
                           * PricingService!leadTimeMultiplier(r.lead) * (IF r.high THEN 23 ELSE 20)
           IN of(s) \in Nat /\ of(t) \in Nat /\ of(s) <= of(t)
<1> DEFINE lead == PricingService!leadTimeMultiplier(s.lead)
           season == IF s.high THEN 23 ELSE 20
           full(r) == PricingService!occupancyMultiplier(r.occupancy)
<1>1. s.occupancy \in {0, 60, 61, 100} /\ t.occupancy \in {0, 60, 61, 100} /\ s.lead \in {0, 10, 91}
  BY DEF PricingService!Signals
<1>2. lead \in Nat
  BY <1>1 DEF PricingService!leadTimeMultiplier
<1>3. season \in Nat
  OBVIOUS
<1>4. full(s) \in Nat /\ full(t) \in Nat /\ full(s) <= full(t)
  BY <1>1 DEF PricingService!occupancyMultiplier
<1> HIDE DEF lead, season, full
<1>5. full(s) * lead \in Nat /\ full(t) * lead \in Nat /\ full(s) * lead <= full(t) * lead
  BY <1>2, <1>4, ProductGrows
<1>6. /\ (full(s) * lead) * season \in Nat /\ (full(t) * lead) * season \in Nat
      /\ (full(s) * lead) * season <= (full(t) * lead) * season
  BY <1>3, <1>5, ProductGrows
<1>7. QED
  BY <1>6 DEF full, lead, season

(* What a plan with bounds in order quotes.                                *)
LEMMA QuotesLieBetween ==
    ASSUME CardsInOrder, NEW p \in Plans, PricingService!exists(p),
           NEW s \in PricingService!Signals, NEW t \in PricingService!Signals,
           t.lead = s.lead, t.high = s.high, t.occupancy >= s.occupancy
    PROVE  LET card == plan[p].card
               rate == PricingService!quoteNightlyRate(p, s) IN
           /\ card.min # NoBound => card.min <= rate
           /\ card.max # NoBound => rate <= card.max
           /\ PricingService!quoteNightlyRate(p, t) >= rate
<1> DEFINE card == plan[p].card
           of(r) == PricingService!occupancyMultiplier(r.occupancy)
                       * PricingService!leadTimeMultiplier(r.lead) * (IF r.high THEN 23 ELSE 20)
           unclamped(r) == PricingService!multiplyMoney(card.base, of(r), 800 * 100 * 20)
<1>1. card \in RateCards /\ PricingService!coherent(card) /\ card.base \in Nat
  BY PricesAssumption DEF CardsInOrder, PricingService!RateCard
<1>2. of(s) \in Nat /\ of(t) \in Nat /\ of(s) <= of(t)
  BY DemandGrows
<1>3. \A r : PricingService!quoteNightlyRate(p, r) = PricingService!clamp(unclamped(r), card)
  BY DEF PricingService!quoteNightlyRate, PricingService!applyDemandPricing
<1> HIDE DEF card, of
<1>4. unclamped(s) \in Nat /\ unclamped(t) \in Nat /\ unclamped(s) <= unclamped(t)
  <2>1. 2 * card.base \in Nat
    BY <1>1
  <2>2. /\ (2 * card.base) * of(s) \in Nat /\ (2 * card.base) * of(t) \in Nat
        /\ (2 * card.base) * of(s) <= (2 * card.base) * of(t)
    BY <1>2, <2>1, ProductGrows
  <2>3. \A r : unclamped(r) = ((2 * card.base) * of(r) + 1600000) \div 3200000
    BY DEF PricingService!multiplyMoney
  <2>4. QED
    BY <2>2, <2>3, RatesRound
<1> HIDE DEF unclamped
<1>5. QED
  BY <1>1, <1>3, <1>4, ClampKeeps DEF card

(* A percentage of a bill grows with it, and takes at most nine tenths.    *)
LEMMA PercentageOf ==
    ASSUME NEW a \in Nat, NEW b \in Nat, a <= b, NEW v \in Nat, v <= 9000
    PROVE  /\ PricingService!multiplyMoney(a, v, 10000) \in 0 .. a
           /\ 10 * PricingService!multiplyMoney(a, v, 10000) <= 9 * a + 5
           /\ PricingService!multiplyMoney(a, v, 10000) <= PricingService!multiplyMoney(b, v, 10000)
<1>1. 2 * a \in Nat /\ 2 * b \in Nat /\ 2 * a <= 2 * b
  OBVIOUS
<1>2. /\ (2 * a) * v \in Nat /\ (2 * b) * v \in Nat /\ (2 * a) * v <= (2 * b) * v
      /\ (2 * a) * v <= (2 * a) * 9000
  BY <1>1, ProductGrows
<1>3. ASSUME NEW x \in Nat, NEW y \in Nat, x <= y, x <= 18000 * a
      PROVE  LET of(z) == (z + 10000) \div 20000 IN
             of(x) \in 0 .. a /\ 10 * of(x) <= 9 * a + 5 /\ of(x) <= of(y)
  BY <1>3
<1>4. (2 * a) * 9000 = 18000 * a
  OBVIOUS
<1>5. \A x : PricingService!multiplyMoney(x, v, 10000) = ((2 * x) * v + 10000) \div 20000
  BY DEF PricingService!multiplyMoney
<1>6. QED
  BY <1>2, <1>3, <1>4, <1>5

(* What a code takes off lies within the bill, and grows with it.          *)
LEMMA DiscountOfBill ==
    ASSUME NEW t \in Promotions, PricingService!mayPromote(t),
           NEW c \in Spendings, NEW b \in Spendings, c.subtotal <= b.subtotal
    PROVE  /\ PricingService!discountOf(t, c) \in 0 .. c.subtotal
           /\ t.type = "PERCENTAGE" => 10 * PricingService!discountOf(t, c) <= 9 * c.subtotal + 5
           /\ PricingService!discountOf(t, c) <= PricingService!discountOf(t, b)
<1>1. /\ t.value \in Nat /\ c.subtotal \in Nat /\ b.subtotal \in Nat
      /\ t.type \in {"PERCENTAGE", "FIXED_AMOUNT"} /\ (t.type = "PERCENTAGE" => t.value <= 9000)
  BY PricesAssumption DEF PricingService!Promotion, PricingService!Spending, PricingService!mayPromote
<1>2. CASE t.type = "FIXED_AMOUNT"
  <2>1. \A x \in Nat : PricingService!Min({t.value, x}) = IF t.value <= x THEN t.value ELSE x
    BY <1>1, SmallerAndLarger
  <2>2. /\ PricingService!discountOf(t, c) = IF t.value <= c.subtotal THEN t.value ELSE c.subtotal
        /\ PricingService!discountOf(t, b) = IF t.value <= b.subtotal THEN t.value ELSE b.subtotal
    BY <1>1, <1>2, <2>1 DEF PricingService!discountOf
  <2>3. QED
    BY <1>1, <1>2, <2>2
<1>3. CASE t.type = "PERCENTAGE"
  <2>1. PICK v \in Nat : v = t.value /\ v <= 9000
    BY <1>1, <1>3
  <2>2. PICK x \in Nat : x = c.subtotal
    BY <1>1
  <2>3. PICK y \in Nat : y = b.subtotal
    BY <1>1
  <2> DEFINE off == PricingService!multiplyMoney(x, v, 10000)
             more == PricingService!multiplyMoney(y, v, 10000)
  <2>4. off \in 0 .. x /\ 10 * off <= 9 * x + 5 /\ off <= more
    <3>1. x <= y
      BY <2>2, <2>3
    <3>2. v <= 9000
      BY <2>1
    <3>3. QED
      BY <3>1, <3>2, PercentageOf
  <2>5. PricingService!discountOf(t, c) = off /\ PricingService!discountOf(t, b) = more
    BY <1>3, <2>1, <2>2, <2>3 DEF PricingService!discountOf
  <2> HIDE DEF off, more
  <2>6. QED
    BY <2>2, <2>4, <2>5
<1>4. QED
  BY <1>1, <1>2, <1>3

(* A booking that asks for no less is refused for no more.                 *)
LEMMA RefusedNoMore ==
    ASSUME NEW t \in Promotions, NEW c \in Spendings, NEW b \in Spendings, NEW used,
           b.nights >= c.nights, b.subtotal >= c.subtotal,
           [b EXCEPT !.nights = c.nights, !.subtotal = c.subtotal] = c
    PROVE  PricingService!rejections(t, b, used) \subseteq PricingService!rejections(t, c, used)
<1>1. /\ c \in PricingService!Spending /\ b \in PricingService!Spending
      /\ t.minNights \in Nat /\ t.minSpend \in Nat
  BY PricesAssumption DEF PricingService!Promotion
<1>2. c.nights \in Nat /\ b.nights \in Nat /\ c.subtotal \in Nat /\ b.subtotal \in Nat
  BY <1>1 DEF PricingService!Spending
<1>3. b.now = c.now /\ b.hotelId = c.hotelId /\ b.room = c.room /\ b.currency = c.currency
  <2> DEFINE same == [b EXCEPT !.nights = c.nights, !.subtotal = c.subtotal]
  <2>1. same.now = b.now /\ same.hotelId = b.hotelId /\ same.room = b.room /\ same.currency = b.currency
    BY <1>1 DEF PricingService!Spending
  <2>2. QED
    BY <2>1
<1>4. \A reason : PricingService!refuses(reason, t, b, used) => PricingService!refuses(reason, t, c, used)
  BY <1>1, <1>2, <1>3 DEF PricingService!refuses
<1>5. QED
  BY <1>4 DEF PricingService!rejections

(* What the holder of a code is told.                                      *)
LEMMA PromotionsHold == TermsMayBe => PricingService!PromotionsBounded
<1> SUFFICES ASSUME TermsMayBe, terms # NoTerms, NEW c \in Spendings, NEW used
             PROVE  LET given == PricingService!validatePromotion(c, used)
                    IN /\ given.discount \in 0 .. c.subtotal
                       /\ terms.type = "PERCENTAGE" => 10 * given.discount <= 9 * c.subtotal + 5
                       /\ \A b \in {b \in Spendings :
                                       /\ b.nights >= c.nights /\ b.subtotal >= c.subtotal
                                       /\ [b EXCEPT !.nights = c.nights, !.subtotal = c.subtotal] = c} :
                             LET more == PricingService!validatePromotion(b, used)
                             IN /\ given.applicable => more.applicable
                                /\ more.discount >= given.discount
  BY DEF PricingService!PromotionsBounded
<1> DEFINE given(b) == PricingService!validatePromotion(b, used)
           refused(b) == PricingService!rejections(terms, b, used)
<1>1. terms \in Promotions /\ PricingService!mayPromote(terms)
  BY DEF TermsMayBe
<1>2. \A b : /\ refused(b) = {} => /\ given(b).applicable = TRUE
                                   /\ given(b).discount = PricingService!discountOf(terms, b)
             /\ refused(b) # {} => given(b).applicable = FALSE /\ given(b).discount = 0
  BY DEF PricingService!validatePromotion, PricingService!assessPromotion
<1> HIDE DEF given, refused
<1>3. c.subtotal \in Nat
  BY PricesAssumption DEF PricingService!Spending
<1>4. /\ PricingService!discountOf(terms, c) \in 0 .. c.subtotal
      /\ terms.type = "PERCENTAGE" => 10 * PricingService!discountOf(terms, c) <= 9 * c.subtotal + 5
  BY <1>1, <1>3, DiscountOfBill
<1>5. given(c).discount \in 0 .. c.subtotal
      /\ (terms.type = "PERCENTAGE" => 10 * given(c).discount <= 9 * c.subtotal + 5)
  BY <1>2, <1>3, <1>4
<1>6. ASSUME NEW b \in Spendings, b.nights >= c.nights, b.subtotal >= c.subtotal,
             [b EXCEPT !.nights = c.nights, !.subtotal = c.subtotal] = c
      PROVE  (given(c).applicable => given(b).applicable) /\ given(b).discount >= given(c).discount
  <2>1. refused(b) \subseteq refused(c)
    BY <1>1, <1>6, RefusedNoMore DEF refused
  <2>2. b.subtotal \in Nat /\ c.subtotal <= b.subtotal
    BY <1>3, <1>6, PricesAssumption DEF PricingService!Spending
  <2>3. /\ PricingService!discountOf(terms, c) <= PricingService!discountOf(terms, b)
        /\ PricingService!discountOf(terms, b) \in 0 .. b.subtotal
    BY <1>1, <2>2, DiscountOfBill
  <2>4. given(b).discount >= 0
    BY <1>2, <2>2, <2>3
  <2>5. QED
    BY <1>2, <1>4, <2>1, <2>3, <2>4
<1>7. QED
  BY <1>5, <1>6 DEF given

(* What a guest is told to pay.                                            *)
LEMMA PricesHold == PriceInv => PricesBounded
<1>1. CardsInOrder => PricingService!QuotesBounded
  <2> SUFFICES ASSUME CardsInOrder, NEW on \in StayDays,
                      NEW p \in PricingService!activeRatePlan(on), NEW s \in PricingService!Signals
               PROVE  LET card == plan[p].card
                          rate == PricingService!quoteNightlyRate(p, s)
                      IN /\ card.min # NoBound => card.min <= rate
                         /\ card.max # NoBound => rate <= card.max
                         /\ \A t \in PricingService!Signals :
                               t.lead = s.lead /\ t.high = s.high /\ t.occupancy >= s.occupancy =>
                                  PricingService!quoteNightlyRate(p, t) >= rate
    BY DEF PricingService!QuotesBounded
  <2>1. p \in Plans /\ PricingService!exists(p)
    BY DEF PricingService!activeRatePlan, PricingService!inForce, PricingService!isLive
  <2>2. s.occupancy >= s.occupancy
    BY DEF PricingService!Signals
  <2>3. QED
    BY <2>1, <2>2, QuotesLieBetween
<1>2. QED
  BY <1>1, PromotionsHold DEF PriceInv, PricesBounded, PricingService!PricesBounded

(* No plan, no code and no request at first.                               *)
LEMMA PriceInit == GuestInit => PriceInv
<1>1. GuestInit => CardsInOrder /\ TermsMayBe
  BY DEF GuestInit, PricingService!Init, CardsInOrder, TermsMayBe, PricingService!exists,
         PricingService!Rests
<1>2. QED
  BY <1>1, PlanInit DEF PriceInv

(* One step of pricing: a plan is inserted with its bounds in order, and   *)
(* what is not inserted or published stays.                                *)
LEMMA PriceStepKeeps ==
    ASSUME PriceInv, quiet' = quiet, NEW h \in Pricers, PlanStep(h)
    PROVE  PriceInv'
<1>1. PlanInv'
  BY PlanStepKeeps DEF PriceInv
<1>2. CASE PricingService!CreateRatePlan(h)
  <2>1. PICK q \in Plans, card \in RateCards :
           /\ PricingService!coherent(card)
           /\ plan' = [plan EXCEPT ![q] = [card |-> card, published |-> FALSE]]
    BY <1>2 DEF PricingService!CreateRatePlan
  <2>2. \A p \in Plans : p # q => plan'[p] = plan[p]
    BY <2>1 DEF PriceInv, PlanInv, PlanRows
  <2>3. plan'[q].card = card
    BY <2>1 DEF PriceInv, PlanInv, PlanRows
  <2>4. CardsInOrder'
    BY <2>1, <2>2, <2>3 DEF PriceInv, CardsInOrder, PricingService!exists, PricingService!coherent
  <2>5. pricer'[h].pc # "PROMOTE" /\ (\A g \in Pricers : g # h => pricer'[g] = pricer[g]) /\ terms' = terms
    BY <1>2 DEF PricingService!CreateRatePlan, PricingService!begin, PricingService!promotion,
          PricingService!Rests, PriceInv, PlanInv, PlanRows
  <2>6. TermsMayBe'
    BY <2>5 DEF PriceInv, TermsMayBe, PricingService!mayPromote
  <2>7. QED
    BY <1>1, <2>4, <2>6 DEF PriceInv
<1>3. CASE PricingService!Publish(h)
  <2> DEFINE q == pricer[h].plan
  <2>1. q \in Plans /\ PricingService!exists(q) /\ plan' = [plan EXCEPT ![q].published = TRUE]
    BY <1>3 DEF PricingService!Publish, PriceInv, PlanInv, PlanRows
  <2> HIDE DEF q
  <2>2. plan[q] \in PricingService!PlanRow
    BY <2>1 DEF PricingService!exists, PriceInv, PlanInv, PlanRows
  <2>3. plan'[q].card = plan[q].card /\ \A p \in Plans : p # q => plan'[p] = plan[p]
    BY <2>1, <2>2 DEF PriceInv, PlanInv, PlanRows, PricingService!PlanRow
  <2>4. CardsInOrder'
    BY <2>1, <2>3 DEF PriceInv, CardsInOrder, PricingService!exists, PricingService!coherent
  <2>5. pricer'[h].pc # "PROMOTE" /\ (\A g \in Pricers : g # h => pricer'[g] = pricer[g]) /\ terms' = terms
    BY <1>3 DEF PricingService!Publish, PricingService!done, PricingService!promotion,
          PricingService!Rests, PriceInv, PlanInv, PlanRows
  <2>6. TermsMayBe'
    BY <2>5 DEF PriceInv, TermsMayBe, PricingService!mayPromote
  <2>7. QED
    BY <1>1, <2>4, <2>6 DEF PriceInv
<1>4. CASE UNCHANGED PricingService!plans
  <2>1. CardsInOrder'
    BY <1>4 DEF PriceInv, CardsInOrder, PricingService!plans, PricingService!exists,
          PricingService!coherent
  <2>2. /\ \A g \in Pricers : g # h => pricer'[g] = pricer[g]
        /\ pricer'[h].pc = "PROMOTE" =>
              pricer'[h].terms \in Promotions /\ PricingService!mayPromote(pricer'[h].terms)
        /\ terms' \in {terms, pricer[h].terms} /\ (terms' # terms => pricer[h].pc = "PROMOTE")
    BY DEF PlanStep, PricingService!CreateRatePlan, PricingService!ReadForPublish,
           PricingService!Publish, PricingService!ReadForPromotion, PricingService!CreatePromotion,
           PricingService!ReadForRedeem, PricingService!Redeem, PricingService!Crash,
           PricingService!begin, PricingService!done, PricingService!Rests, PricingService!plans,
           PricingService!promotion, PriceInv, PlanInv, PlanRows
  <2>3. TermsMayBe'
    BY <2>2 DEF PriceInv, TermsMayBe, PricingService!mayPromote
  <2>4. QED
    BY <1>1, <2>1, <2>3 DEF PriceInv
<1>5. QED
  BY <1>2, <1>3, <1>4
     DEF PlanStep, PricingService!ReadForPublish, PricingService!ReadForPromotion,
         PricingService!CreatePromotion, PricingService!ReadForRedeem, PricingService!Redeem,
         PricingService!Crash

(* Every step of every service keeps what is known of the prices.          *)
LEMMA PriceNext == PriceInv /\ [GuestNext]_guestVars => PriceInv'
<1> SUFFICES ASSUME PriceInv, [GuestNext]_guestVars PROVE PriceInv'
  OBVIOUS
<1>1. CASE UNCHANGED <<pricingVars, quiet>>
  <2>1. PlanInv'
    BY PlanNext DEF PriceInv
  <2>2. QED
    BY <1>1, <2>1 DEF pricingVars, PriceInv, CardsInOrder, TermsMayBe, PricingService!exists,
          PricingService!coherent, PricingService!mayPromote
<1>2. CASE quiet' = quiet /\ \E h \in Pricers : PlanStep(h)
  BY <1>2, PriceStepKeeps
<1>3. QED
  BY <1>1, <1>2
     DEF GuestNext, guestVars, auth, reviews, notifications, pricing, hotels, reports,
         auditing, lists, realtime, Next, ReviewService!Next, NotificationService!Next,
         PricingService!Next, HotelService!Next, PlanStep

(* The room is quoted between its floor and its ceiling, the fuller house  *)
(* never the cheaper; a code takes no more than the bill, at most nine     *)
(* tenths by percentage, and never less off a longer or dearer stay.       *)
THEOREM PricesBoundedHolds == GuestSpec => []PricesBounded
BY PriceInit, PriceNext, PricesHold, PTL DEF GuestSpec

-----------------------------------------------------------------------------
(* Hotels. A free number for an address is always found; a property is     *)
(* announced when it goes live; a request found its property, and without  *)
(* overlap found it as it still is.                                        *)

Addresses == [words : Names, number : Nat]

FindsHotel(h) ==
    /\ registrar[h].pc \in {"LOOK_UP", "CREATE"} =>
          registrar[h] \in [pc : {"LOOK_UP", "CREATE"}, facts : Facts, slug : Addresses]
    /\ registrar[h].pc \in {"UPDATE", "PUBLISH"} =>
          registrar[h].hotel \in HotelIds /\ HotelService!exists(registrar[h].hotel)
    /\ registrar[h].pc = "UPDATE" => registrar[h].facts \in Facts

HotelRows ==
    /\ hotel \in [HotelIds -> HotelService!HotelRow \cup {NoHotel}]
    /\ hotelOutbox \in [HotelIds -> Seq(Facts)]
    /\ registrar = [h \in Registrars |-> registrar[h]]
    /\ \A h \in Registrars : FindsHotel(h)

QuietHotels ==
    /\ \A g, h \in Registrars :
          g = h \/ registrar[g] = HotelService!Away \/ registrar[h] = HotelService!Away
    /\ \A h \in Registrars :
          registrar[h].pc = "PUBLISH" => ~ HotelService!isLive(registrar[h].hotel)
    /\ \A i \in HotelIds : /\ hotelOutbox[i] # <<>> => HotelService!isLive(i)
                           /\ Len(hotelOutbox[i]) <= 1

HotelInv ==
    /\ HotelRows
    /\ \A i \in HotelIds : HotelService!isLive(i) => hotelOutbox[i] # <<>>
    /\ quiet => QuietHotels

HotelStep(h) ==
    \/ HotelService!create(h) \/ HotelService!update(h) \/ HotelService!publish(h)
    \/ HotelService!addBranch(h) \/ HotelService!Crash(h)

(* No property and no request at first.                                    *)
LEMMA HotelInit == GuestInit => HotelInv
BY DEF GuestInit, HotelService!Init, HotelInv, HotelRows, FindsHotel, QuietHotels,
       HotelService!Away, HotelService!exists, HotelService!isLive

(* The addresses in use are finitely many.                                 *)
LEMMA FiniteSlugs == IsFiniteSet(HotelService!slugs)
<1> DEFINE S == {i \in HotelIds : HotelService!exists(i)}
           f == [i \in S |-> hotel[i].slug]
<1>1. IsFiniteSet(S)
  BY FS_Subset, GuestAssumption
<1>2. f \in Surjection(S, HotelService!slugs)
  BY DEF Surjection, HotelService!slugs
<1>3. QED
  BY <1>1, <1>2, FS_Surjection

(* resolveSlug: of one number more than there are addresses in the way one *)
(* is free, and the least of these is taken.                               *)
LEMMA ResolvedIsFree ==
    ASSUME NEW name, NEW taken, IsFiniteSet(taken)
    PROVE  /\ HotelService!resolveSlug(name, taken).words = name
           /\ HotelService!resolveSlug(name, taken).number \in Nat \ {0}
           /\ HotelService!resolveSlug(name, taken).number <= Cardinality(taken) + 1
           /\ HotelService!resolveSlug(name, taken) \notin taken
<1> DEFINE top     == HotelService!Cardinality(taken) + 1
           slug(n) == [words |-> name, number |-> n]
           free    == {n \in 1 .. top : slug(n) \notin taken}
           R       == OpToRel(<, Nat)
<1>1. top = Cardinality(taken) + 1
  BY DEF HotelService!Cardinality, Cardinality
<1>2. Cardinality(taken) \in Nat
  BY FS_CardinalityType
<1> HIDE DEF top
<1>3. free # {}
  <2>1. SUFFICES ASSUME free = {} PROVE FALSE
    OBVIOUS
  <2> DEFINE f == [n \in 1 .. top |-> slug(n)]
  <2>2. f \in [1 .. top -> taken]
    BY <2>1
  <2>3. IsFiniteSet(1 .. top) /\ Cardinality(taken) < Cardinality(1 .. top)
    BY <1>1, <1>2, FS_Interval
  <2> HIDE DEF f
  <2>4. \E m, n \in 1 .. top : m # n /\ f[m] = f[n]
    BY <2>2, <2>3, FS_PigeonHole, Zenon
  <2>5. QED
    BY <2>4 DEF f
<1>4. \E n \in free : \A m \in free : n <= m
  <2>1. free \subseteq Nat
    OBVIOUS
  <2>2. \E n \in free : \A m \in free : ~ (<<m, n>> \in R)
    BY <1>3, <2>1, NatLessThanWellFounded, WFMin, Zenon
  <2>3. \A m, n \in free : ~ (<<m, n>> \in R) => n <= m
    BY DEF OpToRel
  <2>4. QED
    BY <2>2, <2>3, Zenon
<1>5. HotelService!Min(free) \in free
  BY <1>4 DEF HotelService!Min
<1>6. HotelService!resolveSlug(name, taken) = slug(HotelService!Min(free))
  BY DEF HotelService!resolveSlug, top
<1> DEFINE least == HotelService!Min(free)
<1>7. least \in 1 .. Cardinality(taken) + 1 /\ slug(least) \notin taken
  BY <1>1, <1>5
<1> HIDE DEF least
<1>8. least \in Nat \ {0} /\ least <= Cardinality(taken) + 1
  BY <1>2, <1>7
<1>9. QED
  BY <1>6, <1>7, <1>8 DEF least

(* What publishing writes: the hotel of the request goes live with an      *)
(* event.                                                                  *)
LEMMA HotelGoesLive ==
    ASSUME HotelInv, NEW h \in Registrars, HotelService!Publish(h)
    PROVE  /\ registrar[h].pc = "PUBLISH" /\ registrar[h].hotel \in HotelIds
           /\ hotel' \in [HotelIds -> HotelService!HotelRow \cup {NoHotel}]
           /\ hotelOutbox' \in [HotelIds -> Seq(Facts)]
           /\ \A i \in HotelIds \ {registrar[h].hotel} :
                 hotel'[i] = hotel[i] /\ hotelOutbox'[i] = hotelOutbox[i]
           /\ \A i \in {registrar[h].hotel} :
                 /\ HotelService!isLive(i)'
                 /\ hotelOutbox'[i] # <<>> /\ Len(hotelOutbox'[i]) = Len(hotelOutbox[i]) + 1
           /\ registrar' = [registrar EXCEPT ![h] = HotelService!Away]
<1> USE DEF HotelInv, HotelRows
<1> DEFINE i == registrar[h].hotel
           onSale == [hotel[i] EXCEPT !.status = "ACTIVE"]
<1>1. /\ registrar[h].pc = "PUBLISH" /\ i \in HotelIds /\ hotel[i] \in HotelService!HotelRow
      /\ hotel' = [hotel EXCEPT ![i] = onSale]
      /\ hotelOutbox' = [hotelOutbox EXCEPT ![i] = Append(@, hotel[i].facts)]
      /\ registrar' = [registrar EXCEPT ![h] = HotelService!Away]
  BY DEF HotelService!Publish, HotelService!exists, HotelService!goto, FindsHotel
<1>2. onSale \in HotelService!HotelRow /\ onSale.status = "ACTIVE" /\ hotel[i].facts \in Facts
  BY <1>1 DEF HotelService!HotelRow
<1> HIDE DEF i, onSale
<1>3. /\ hotel'[i] = onSale
      /\ hotelOutbox'[i] = Append(hotelOutbox[i], hotel[i].facts)
      /\ hotelOutbox[i] \in Seq(Facts)
      /\ \A q \in HotelIds \ {i} : hotel'[q] = hotel[q] /\ hotelOutbox'[q] = hotelOutbox[q]
  BY <1>1
<1>4. /\ hotelOutbox'[i] \in Seq(Facts) /\ hotelOutbox'[i] # <<>>
      /\ Len(hotelOutbox'[i]) = Len(hotelOutbox[i]) + 1
  BY <1>2, <1>3
<1>5. hotelOutbox' \in [HotelIds -> Seq(Facts)]
  BY <1>1, <1>3, <1>4
<1>6. QED
  BY <1>1, <1>2, <1>3, <1>4, <1>5, GuestAssumption DEF HotelService!isLive, HotelService!exists, i

(* What creating or updating writes: rows, none of them live that was not. *)
LEMMA HotelWritten ==
    ASSUME HotelInv, NEW h \in Registrars, HotelService!Create(h) \/ HotelService!Update(h)
    PROVE  /\ hotel' \in [HotelIds -> HotelService!HotelRow \cup {NoHotel}]
           /\ hotelOutbox' = hotelOutbox
           /\ \A i \in HotelIds :
                 /\ HotelService!isLive(i)' <=> HotelService!isLive(i)
                 /\ HotelService!exists(i) => HotelService!exists(i)'
           /\ registrar' = [registrar EXCEPT ![h] = HotelService!Away]
<1> USE DEF HotelInv, HotelRows
<1>1. /\ hotelOutbox' = hotelOutbox
      /\ registrar' = [registrar EXCEPT ![h] = HotelService!Away]
  BY DEF HotelService!Create, HotelService!Update, HotelService!goto
<1>2. CASE HotelService!Create(h) /\ UNCHANGED hotel
  BY <1>1, <1>2 DEF HotelService!isLive, HotelService!exists
<1>3. CASE HotelService!Create(h) /\ ~ UNCHANGED hotel
  <2> DEFINE new == [slug |-> registrar[h].slug, status |-> "DRAFT", facts |-> registrar[h].facts]
  <2>1. PICK i \in HotelIds :
          ~ HotelService!exists(i) /\ hotel' = [hotel EXCEPT ![i] = new]
    BY <1>3 DEF HotelService!Create
  <2>2. new \in HotelService!HotelRow /\ new.status = "DRAFT"
    BY <1>3 DEF HotelService!Create, FindsHotel, HotelService!HotelRow, Addresses
  <2> HIDE DEF new
  <2>3. QED
    BY <1>1, <2>1, <2>2 DEF HotelService!isLive, HotelService!exists
<1>4. CASE HotelService!Update(h)
  <2> DEFINE i == registrar[h].hotel
             new == [hotel[i] EXCEPT !.facts = registrar[h].facts]
  <2>1. /\ i \in HotelIds /\ hotel[i] \in HotelService!HotelRow
        /\ registrar[h].facts \in Facts /\ hotel' = [hotel EXCEPT ![i] = new]
    BY <1>4 DEF HotelService!Update, HotelService!exists, FindsHotel
  <2>2. new \in HotelService!HotelRow /\ new.status = hotel[i].status
    BY <2>1 DEF HotelService!HotelRow
  <2> HIDE DEF new, i
  <2>3. QED
    BY <1>1, <2>1, <2>2, GuestAssumption DEF HotelService!isLive, HotelService!exists
<1>5. QED
  BY <1>2, <1>3, <1>4

(* A step of one handler leaves the requests of the others alone, and its  *)
(* own has found what it is about.                                         *)
LEMMA HotelRequestKept ==
    ASSUME HotelInv, NEW h \in Registrars, HotelStep(h),
           \A i \in HotelIds : HotelService!exists(i) => HotelService!exists(i)'
    PROVE  /\ registrar' = [g \in Registrars |-> registrar'[g]]
           /\ \A g \in Registrars : g # h => registrar'[g] = registrar[g]
           /\ \A g \in Registrars : FindsHotel(g)'
<1> USE DEF HotelInv, HotelRows
<1>1. /\ registrar' = [g \in Registrars |-> registrar'[g]]
      /\ \A g \in Registrars : g # h => registrar'[g] = registrar[g]
  BY DEF HotelStep, HotelService!create, HotelService!ReadTakenSlugs, HotelService!LookUpSlug,
         HotelService!Create, HotelService!update, HotelService!ReadForUpdate,
         HotelService!Update, HotelService!publish, HotelService!ReadForPublish,
         HotelService!Publish, HotelService!addBranch, HotelService!ReadForBranch,
         HotelService!AddBranch, HotelService!Crash, HotelService!begin, HotelService!goto
<1>2. ASSUME NEW g \in Registrars, g # h PROVE FindsHotel(g)'
  BY <1>1, <1>2 DEF FindsHotel
<1>3. FindsHotel(h)'
  <2>1. CASE HotelService!ReadTakenSlugs(h)
    <3>1. PICK name \in Names, facts \in Facts :
            \E slug \in {HotelService!resolveSlug(name, HotelService!takenSlugs(name))}
                            \cup HotelService!givenSlugs(name) :
               registrar'[h] = [pc |-> "LOOK_UP", facts |-> facts, slug |-> slug]
      BY <2>1 DEF HotelService!ReadTakenSlugs, HotelService!begin
    <3>2. IsFiniteSet(HotelService!takenSlugs(name))
      BY FiniteSlugs, FS_Subset DEF HotelService!takenSlugs
    <3>3. HotelService!resolveSlug(name, HotelService!takenSlugs(name)) \in Addresses
      <4>1. /\ HotelService!resolveSlug(name, HotelService!takenSlugs(name)).words = name
            /\ HotelService!resolveSlug(name, HotelService!takenSlugs(name)).number \in Nat \ {0}
        BY <3>2, ResolvedIsFree
      <4>2. QED
        BY <4>1 DEF HotelService!resolveSlug, Addresses
    <3>4. HotelService!givenSlugs(name) \subseteq Addresses
      BY GuestAssumption, FS_CardinalityType DEF HotelService!givenSlugs, Addresses
    <3>5. QED
      BY <3>1, <3>3, <3>4 DEF FindsHotel
  <2>2. CASE HotelService!LookUpSlug(h)
    <3>1. registrar[h] \in [pc : {"LOOK_UP", "CREATE"}, facts : Facts, slug : Addresses]
      BY <2>2 DEF HotelService!LookUpSlug, FindsHotel
    <3>2. \/ registrar'[h] = HotelService!Away
          \/ registrar'[h] = [registrar[h] EXCEPT !.pc = "CREATE"]
      BY <2>2 DEF HotelService!LookUpSlug, HotelService!goto
    <3>3. [registrar[h] EXCEPT !.pc = "CREATE"] \in
            [pc : {"LOOK_UP", "CREATE"}, facts : Facts, slug : Addresses]
          /\ [registrar[h] EXCEPT !.pc = "CREATE"].pc = "CREATE"
      BY <3>1
    <3>4. CASE registrar'[h] = HotelService!Away
      BY <3>4 DEF HotelService!Away, FindsHotel
    <3>5. CASE registrar'[h] = [registrar[h] EXCEPT !.pc = "CREATE"]
      <4>1. /\ registrar'[h] \in [pc : {"LOOK_UP", "CREATE"}, facts : Facts, slug : Addresses]
            /\ registrar'[h].pc = "CREATE"
        BY <3>3, <3>5
      <4>2. QED
        BY <4>1 DEF FindsHotel
    <3>6. QED
      BY <3>2, <3>4, <3>5
  <2>3. CASE HotelService!ReadForUpdate(h)
    BY <2>3 DEF HotelService!ReadForUpdate, HotelService!begin, FindsHotel
  <2>4. CASE HotelService!ReadForPublish(h)
    BY <2>4 DEF HotelService!ReadForPublish, HotelService!begin, HotelService!mayPublish, FindsHotel
  <2>5. CASE HotelService!ReadForBranch(h)
    BY <2>5 DEF HotelService!ReadForBranch, HotelService!begin, FindsHotel
  <2>6. CASE \/ HotelService!Create(h) \/ HotelService!Update(h) \/ HotelService!Publish(h)
             \/ HotelService!AddBranch(h) \/ HotelService!Crash(h)
    BY <2>6 DEF HotelService!Create, HotelService!Update, HotelService!Publish,
                HotelService!AddBranch, HotelService!Crash, HotelService!goto,
                HotelService!Away, FindsHotel
  <2>7. QED
    BY <2>1, <2>2, <2>3, <2>4, <2>5, <2>6
       DEF HotelStep, HotelService!create, HotelService!update, HotelService!publish,
           HotelService!addBranch
<1>4. QED
  BY <1>1, <1>2, <1>3

(* In a quiet behaviour a step is taken while all others are away, and a   *)
(* request to publish has just found its property not live.                *)
LEMMA OthersAway ==
    ASSUME HotelInv, quiet, NEW h \in Registrars, HotelStep(h)
    PROVE  \A g \in Registrars : g # h => registrar[g] = HotelService!Away
<1> USE DEF HotelInv, HotelRows
<1>1. SUFFICES ASSUME NEW g \in Registrars, g # h, registrar[g] # HotelService!Away
      PROVE  FALSE
  OBVIOUS
<1>2. registrar[h] = HotelService!Away
  BY <1>1 DEF QuietHotels
<1>3. registrar[h].pc = "AWAY"
  BY <1>2 DEF HotelService!Away
<1>4. ~ HotelService!ReadTakenSlugs(h) /\ ~ HotelService!ReadForUpdate(h)
      /\ ~ HotelService!ReadForPublish(h) /\ ~ HotelService!ReadForBranch(h)
  BY <1>1 DEF HotelService!ReadTakenSlugs, HotelService!ReadForUpdate,
              HotelService!ReadForPublish, HotelService!ReadForBranch, HotelService!begin
<1>5. QED
  BY <1>2, <1>3, <1>4
     DEF HotelStep, HotelService!create, HotelService!LookUpSlug, HotelService!Create,
         HotelService!update, HotelService!Update, HotelService!publish, HotelService!Publish,
         HotelService!addBranch, HotelService!AddBranch, HotelService!Crash

(* A step of one handler keeps the rows and what is announced of them.     *)
LEMMA HotelStepKeeps ==
    ASSUME HotelInv, quiet' = quiet, NEW h \in Registrars, HotelStep(h)
    PROVE  HotelInv'
<1> USE DEF HotelInv, HotelRows
<1>1. CASE HotelService!Publish(h)
  <2>1. \A i \in HotelIds : HotelService!exists(i) => HotelService!exists(i)'
    BY <1>1, HotelGoesLive DEF HotelService!isLive, HotelService!exists
  <2>2. HotelRows'
    BY <1>1, <2>1, HotelGoesLive, HotelRequestKept
  <2>3. \A i \in HotelIds : (HotelService!isLive(i) => hotelOutbox[i] # <<>>)'
    BY <1>1, HotelGoesLive DEF HotelService!isLive, HotelService!exists
  <2>4. ASSUME quiet PROVE QuietHotels'
    <3>1. \A g \in Registrars : registrar'[g] = HotelService!Away
      BY <1>1, <2>4, HotelGoesLive, OthersAway
    <3>2. hotelOutbox[registrar[h].hotel] = <<>>
      BY <1>1, <2>4, HotelGoesLive DEF QuietHotels
    <3>3. \A i \in HotelIds : /\ hotelOutbox'[i] # <<>> => HotelService!isLive(i)'
                              /\ Len(hotelOutbox'[i]) <= 1
      BY <1>1, <2>4, <3>2, HotelGoesLive DEF QuietHotels, HotelService!isLive, HotelService!exists
    <3>4. QED
      BY <3>1, <3>3 DEF QuietHotels, HotelService!Away
  <2>5. QED
    BY <2>2, <2>3, <2>4
<1>2. CASE HotelService!Create(h) \/ HotelService!Update(h)
  <2>1. HotelRows' /\ \A i \in HotelIds : (HotelService!isLive(i) => hotelOutbox[i] # <<>>)'
    BY <1>2, HotelWritten, HotelRequestKept
  <2>2. ASSUME quiet PROVE QuietHotels'
    <3>1. \A g \in Registrars : registrar'[g] = HotelService!Away
      BY <1>2, <2>2, HotelWritten, OthersAway
    <3>2. QED
      BY <1>2, <2>2, <3>1, HotelWritten DEF QuietHotels, HotelService!Away
  <2>3. QED
    BY <2>1, <2>2
<1>3. CASE UNCHANGED <<hotel, hotelOutbox>> /\ ~ HotelService!Publish(h)
  <2>1. \A i \in HotelIds : /\ HotelService!isLive(i)' <=> HotelService!isLive(i)
                            /\ HotelService!exists(i)' <=> HotelService!exists(i)
    BY <1>3 DEF HotelService!isLive, HotelService!exists
  <2>2. HotelRows' /\ \A i \in HotelIds : (HotelService!isLive(i) => hotelOutbox[i] # <<>>)'
    BY <1>3, <2>1, HotelRequestKept
  <2>3. ASSUME quiet PROVE QuietHotels'
    <3>1. \A g \in Registrars : g # h => registrar'[g] = HotelService!Away
      BY <2>1, <2>3, OthersAway, HotelRequestKept
    <3>2. registrar'[h].pc = "PUBLISH" => ~ HotelService!isLive(registrar'[h].hotel)
      <4>1. CASE HotelService!ReadForPublish(h)
        BY <4>1 DEF HotelService!ReadForPublish, HotelService!mayPublish, HotelService!begin
      <4>2. CASE HotelService!LookUpSlug(h)
        <5>1. registrar[h] \in [pc : {"LOOK_UP", "CREATE"}, facts : Facts, slug : Addresses]
          BY <4>2 DEF HotelService!LookUpSlug, FindsHotel
        <5>2. QED
          BY <4>2, <5>1 DEF HotelService!LookUpSlug, HotelService!goto, HotelService!Away
      <4>3. CASE HotelService!ReadTakenSlugs(h)
        BY <4>3 DEF HotelService!ReadTakenSlugs, HotelService!begin
      <4>4. CASE HotelService!ReadForUpdate(h) \/ HotelService!ReadForBranch(h)
        <5>1. CASE HotelService!ReadForUpdate(h)
          BY <5>1 DEF HotelService!ReadForUpdate, HotelService!begin
        <5>2. CASE HotelService!ReadForBranch(h)
          BY <5>2 DEF HotelService!ReadForBranch, HotelService!begin
        <5>3. QED
          BY <4>4, <5>1, <5>2
      <4>5. CASE \/ HotelService!Create(h) \/ HotelService!Update(h)
                 \/ HotelService!AddBranch(h) \/ HotelService!Crash(h)
        BY <4>5 DEF HotelService!Create, HotelService!Update, HotelService!AddBranch,
                    HotelService!Crash, HotelService!goto, HotelService!Away
      <4>6. QED
        BY <1>3, <4>1, <4>2, <4>3, <4>4, <4>5
           DEF HotelStep, HotelService!create, HotelService!update, HotelService!publish,
               HotelService!addBranch
    <3>3. QED
      BY <1>3, <2>1, <2>3, <3>1, <3>2
         DEF QuietHotels, HotelService!Away, HotelService!isLive, HotelService!exists
  <2>4. QED
    BY <2>2, <2>3
<1>4. QED
  BY <1>1, <1>2, <1>3
     DEF HotelStep, HotelService!create, HotelService!ReadTakenSlugs, HotelService!LookUpSlug,
         HotelService!update, HotelService!ReadForUpdate, HotelService!publish,
         HotelService!ReadForPublish, HotelService!addBranch, HotelService!ReadForBranch,
         HotelService!AddBranch, HotelService!Crash

(* Every step of every service keeps what is known of the hotels.          *)
LEMMA HotelNext == HotelInv /\ [GuestNext]_guestVars => HotelInv'
<1> SUFFICES ASSUME HotelInv, [GuestNext]_guestVars PROVE HotelInv'
  OBVIOUS
<1>1. CASE UNCHANGED <<hotelVars, quiet>>
  BY <1>1 DEF hotelVars, HotelInv, HotelRows, FindsHotel, QuietHotels, HotelService!isLive,
              HotelService!exists
<1>2. CASE quiet' = quiet /\ \E h \in Registrars : HotelStep(h)
  BY <1>2, HotelStepKeeps
<1>3. QED
  BY <1>1, <1>2
     DEF GuestNext, guestVars, auth, reviews, notifications, pricing, hotels, reports,
         auditing, lists, realtime, Next, ReviewService!Next, NotificationService!Next,
         PricingService!Next, HotelService!Next, HotelStep

-----------------------------------------------------------------------------
(* A property "can never be live without search and booking having been    *)
(* told", a plan not "without booking knowing", and a review is on the     *)
(* page with the event that says so. Each is announced whatever overlaps,  *)
(* and just once where nothing does.                                       *)
THEOREM EntryIsAnnouncedHolds == GuestSpec => EntryIsAnnounced
<1>1. ReviewInv => \A s \in ReviewService!published : reviewOutbox[s] > 0
  BY DEF ReviewInv, PublishedIsAnnounced
<1>2. PlanInv => PricingService!LiveIsAnnounced
  BY DEF PlanInv, PlanRows, QuietPlans, PricingService!LiveIsAnnounced
<1>3. HotelInv => HotelService!LiveIsAnnounced
  BY DEF HotelInv, QuietHotels, HotelService!LiveIsAnnounced
<1>4. ReviewInv /\ ReviewInv' /\ [GuestNext]_guestVars =>
        [quiet => \A s \in ReviewedStays :
            reviewOutbox'[s] - reviewOutbox[s] =
               IF ReviewService!isPublished(s)' /\ ~ ReviewService!isPublished(s) THEN 1 ELSE 0
        ]_ReviewService!vars
  <2>1. SUFFICES ASSUME ReviewInv, ReviewInv', [GuestNext]_guestVars, quiet,
                        NEW s \in ReviewedStays, ~ UNCHANGED ReviewService!vars
        PROVE  reviewOutbox'[s] - reviewOutbox[s] =
                  IF ReviewService!isPublished(s)' /\ ~ ReviewService!isPublished(s) THEN 1 ELSE 0
    OBVIOUS
  <2>2. PICK h \in Moderators : ReviewStep(h)
    BY <2>1, ReviewSteps DEF ReviewService!vars, reviewVars
  <2>3. QED
    BY <2>1, <2>2, EntersOnce DEF ReviewInv
<1>5. QED
  BY <1>1, <1>2, <1>3, <1>4, ReviewInit, ReviewNext, PlanInit, PlanNext, HotelInit, HotelNext,
     PTL DEF GuestSpec, EntryIsAnnounced, ReviewService!EntryIsAnnounced

-----------------------------------------------------------------------------
(* Notifications. Of every send under way each channel is still to come,   *)
(* passed over, or has its row; and what the recipient asked of a template *)
(* is what its preferences say.                                            *)

Notice ==
    [pc : {"CHANNELS", "DEDUPE", "INSERT"}, event : DOMAIN Causes, skipped : SUBSET Channels,
     left : SUBSET Channels, suppressed : SUBSET Channels]

PreferenceRow ==
    [channel : Channels, template : NotificationService!Templates \cup {NotificationService!Everything},
     enabled : BOOLEAN]

NoticeRows ==
    /\ message \in [(DOMAIN Causes) \X Channels -> NotificationService!MessageRow \cup {NoMessage}]
    /\ sender \in [Senders -> Notice \cup {NotificationService!Idle}]
    /\ answered \in [DOMAIN Causes -> SUBSET Channels]
    /\ preference \in Seq(PreferenceRow)
    /\ asked \in [Channels \X (NotificationService!Templates \cup {NotificationService!Everything})
                     -> SUBSET BOOLEAN]

unfinished(r) == r.left \cup r.suppressed \cup r.skipped

(* No channel of a send under way is forgotten, and nothing is withheld of *)
(* a message that is not optional but for want of an address.              *)
Accounted(r) ==
    /\ \A c \in NotificationService!candidates(Causes[r.event]) :
          c \in unfinished(r) \/ message[<<r.event, c>>] # NoMessage
    /\ r.pc # "CHANNELS" => r.left # {}
    /\ ~ NotificationService!isSuppressible(Causes[r.event].template) =>
          \A c \in r.suppressed : ~ NotificationService!hasAddress(c, Causes[r.event])

SendsAccount ==
    \A h \in Senders : sender[h] # NotificationService!Idle => Accounted(sender[h])

decides(i, c, t) == preference[i].channel = c /\ preference[i].template = t

(* What the rows of a channel say of a template, or of everything.         *)
saidOf(c, t) == {preference[i].enabled : i \in {j \in DOMAIN preference : decides(j, c, t)}}

(* The rows say what was asked; of a template at most one row does.        *)
AskedIsStored ==
    /\ \A c \in Channels, t \in NotificationService!Templates \cup {NotificationService!Everything} :
          asked[<<c, t>>] = saidOf(c, t)
    /\ \A c \in Channels, t \in NotificationService!Templates :
          \A i, j \in DOMAIN preference : decides(i, c, t) /\ decides(j, c, t) => i = j

(* What is sent of an optional message was not refused, and what is        *)
(* withheld of it was not welcome where it could go.                       *)
WantsKept(r) ==
    LET t == Causes[r.event].template IN
    NotificationService!isSuppressible(t) =>
       /\ \A c \in r.left : ~ NotificationService!refused(c, t)
       /\ \A c \in r.suppressed :
             ~ (NotificationService!hasAddress(c, Causes[r.event]) /\ NotificationService!welcome(c, t))

QuietSends ==
    /\ \A g, h \in Senders : g = h \/ sender[g] = NotificationService!Idle
                                   \/ sender[h] = NotificationService!Idle
    /\ \A h \in Senders : sender[h] # NotificationService!Idle => WantsKept(sender[h])

NoticeInv ==
    /\ NoticeRows
    /\ SendsAccount
    /\ AnsweredIsRecorded
    /\ AskedIsStored
    /\ quiet => QuietSends

(* The next of some channels is one of them.                               *)
LEMMA NextIsOneOf ==
    ASSUME NEW e \in DOMAIN Causes, NEW some, some # {}
    PROVE  NotificationService!first(Causes[e], some) \in some
<1> DEFINE wanted == Causes[e]
           n == Len(wanted.preferred)
           places(c) == {i \in 1 .. n + 1 : i > n \/ wanted.preferred[i] = c}
           P == {NotificationService!place(wanted, c) : c \in some}
<1>1. n \in Nat
  BY GuestAssumption, LenProperties
<1>2. ASSUME NEW c PROVE NotificationService!place(wanted, c) \in Nat
  <2>1. places(c) \subseteq Nat /\ n + 1 \in places(c)
    BY <1>1
  <2> HIDE DEF places
  <2>2. \E i \in places(c) : \A j \in places(c) : i <= j
    BY <2>1, SmallestOf
  <2>3. NotificationService!Min(places(c)) \in places(c)
    BY <2>2 DEF NotificationService!Min
  <2>4. NotificationService!place(wanted, c) = NotificationService!Min(places(c))
    BY DEF NotificationService!place, places
  <2>5. QED
    BY <2>1, <2>3, <2>4
<1>3. P \subseteq Nat /\ P # {}
  BY <1>2
<1>4. \E i \in P : \A j \in P : i <= j
  BY <1>3, SmallestOf
<1>5. \E c \in some : \A d \in some :
         NotificationService!place(wanted, c) <= NotificationService!place(wanted, d)
  BY <1>4
<1>6. QED
  BY <1>5 DEF NotificationService!first

(* The preferences decide as the recipient's answers do: about a template, *)
(* or else about all of the channel.                                       *)
LEMMA DecidedAsAsked ==
    ASSUME NoticeInv, NEW c \in Channels, NEW t \in NotificationService!Templates
    PROVE  NotificationService!isEnabled(c, t) =
              IF asked[<<c, t>>] # {} THEN asked[<<c, t>>]
              ELSE IF asked[<<c, NotificationService!Everything>>] # {}
                   THEN asked[<<c, NotificationService!Everything>>]
                   ELSE {TRUE}
<1> DEFINE rowsOf(s) == {p \in NotificationService!ToSet(preference) : p.channel = c /\ p.template = s}
           said(s) == {p.enabled : p \in rowsOf(s)}
<1>1. ASSUME NEW s \in NotificationService!Templates \cup {NotificationService!Everything}
      PROVE  said(s) = asked[<<c, s>>] /\ (rowsOf(s) = {} <=> said(s) = {})
  <2>1. rowsOf(s) = {preference[i] : i \in {j \in DOMAIN preference : decides(j, c, s)}}
    BY DEF NotificationService!ToSet, decides
  <2>2. said(s) = saidOf(c, s)
    BY <2>1 DEF saidOf
  <2>3. asked[<<c, s>>] = saidOf(c, s)
    BY DEF NoticeInv, AskedIsStored
  <2>4. QED
    BY <2>2, <2>3
<1>2. NotificationService!isEnabled(c, t) =
         LET rows == IF rowsOf(t) # {} THEN rowsOf(t) ELSE rowsOf(NotificationService!Everything)
         IN IF rows = {} THEN {TRUE} ELSE {p.enabled : p \in rows}
  BY DEF NotificationService!isEnabled
<1> HIDE DEF rowsOf
<1>3. CASE rowsOf(t) # {}
  BY <1>1, <1>2, <1>3
<1>4. CASE rowsOf(t) = {}
  BY <1>1, <1>2, <1>4
<1>5. QED
  BY <1>3, <1>4

(* A channel that is chosen of an optional message was not refused, and    *)
(* one that is not was not welcome where it has an address; of another     *)
(* message one is withheld for want of an address only.                    *)
LEMMA ChosenWasAsked ==
    ASSUME NoticeInv, NEW e \in DOMAIN Causes,
           NEW chosen \in NotificationService!routeNotification(Causes[e])
    PROVE  LET t == Causes[e].template
               all == NotificationService!candidates(Causes[e])
               addressed(c) == NotificationService!hasAddress(c, Causes[e]) IN
           /\ all \subseteq Channels
           /\ chosen \subseteq all
           /\ NotificationService!isSuppressible(t) =>
                 /\ \A c \in chosen : ~ NotificationService!refused(c, t)
                 /\ \A c \in all \ chosen : ~ (addressed(c) /\ NotificationService!welcome(c, t))
           /\ ~ NotificationService!isSuppressible(t) => \A c \in all \ chosen : ~ addressed(c)
<1> DEFINE t == Causes[e].template
           all == NotificationService!candidates(Causes[e])
           addressed(c) == NotificationService!hasAddress(c, Causes[e])
<1>1. all \subseteq Channels
  BY GuestAssumption DEF NotificationService!candidates, NotificationService!ToSet
<1>2. t \in NotificationService!Templates
  BY DEF NotificationService!Templates, NotificationService!Events
<1>3. chosen \subseteq all
  BY DEF NotificationService!routeNotification
<1>4. ASSUME NEW c \in all
      PROVE  /\ NotificationService!refused(c, t) => NotificationService!isEnabled(c, t) = {FALSE}
             /\ NotificationService!welcome(c, t) => NotificationService!isEnabled(c, t) = {TRUE}
  <2>1. c \in Channels
    BY <1>1
  <2> DEFINE own == asked[<<c, t>>]
             every == asked[<<c, NotificationService!Everything>>]
  <2>2. NotificationService!isEnabled(c, t) = IF own # {} THEN own ELSE IF every # {} THEN every ELSE {TRUE}
    BY <1>2, <2>1, DecidedAsAsked
  <2>3. /\ NotificationService!refused(c, t) <=> (own = {FALSE} \/ (own = {} /\ every = {FALSE}))
        /\ NotificationService!welcome(c, t) <=> (own = {TRUE} \/ (own = {} /\ every \subseteq {TRUE}))
    BY DEF NotificationService!refused, NotificationService!welcome
  <2> HIDE DEF own, every
  <2>4. QED
    BY <2>2, <2>3
<1>5. ASSUME NEW c \in chosen, NotificationService!isSuppressible(t)
      PROVE  ~ NotificationService!refused(c, t)
  <2>1. TRUE \in NotificationService!isEnabled(c, t)
    BY <1>5 DEF NotificationService!routeNotification
  <2>2. QED
    BY <1>3, <1>4, <2>1
<1>6. ASSUME NEW c \in all \ chosen, addressed(c), NotificationService!isSuppressible(t)
      PROVE  ~ NotificationService!welcome(c, t)
  <2>1. (c \in chosen) \in NotificationService!isEnabled(c, t)
    BY <1>6 DEF NotificationService!routeNotification
  <2>2. (c \in chosen) = FALSE
    BY <1>6
  <2>3. FALSE \in NotificationService!isEnabled(c, t)
    BY <2>1, <2>2
  <2>4. QED
    BY <1>4, <2>3
<1>7. ASSUME NEW c \in all \ chosen, ~ NotificationService!isSuppressible(t)
      PROVE  ~ addressed(c)
  BY <1>7 DEF NotificationService!routeNotification
<1>8. QED
  BY <1>1, <1>3, <1>5, <1>6, <1>7

(* Nothing is stored, sent or asked at first.                              *)
LEMMA NoticeInit == GuestInit => NoticeInv
<1> SUFFICES ASSUME GuestInit PROVE NoticeInv
  OBVIOUS
<1> USE DEF GuestInit, NotificationService!Init, NotificationService!Events
<1>1. NoticeRows
  BY DEF NoticeRows
<1>2. AskedIsStored
  <2>1. preference = <<>> /\ DOMAIN preference = {}
    OBVIOUS
  <2>2. \A c \in Channels, t \in NotificationService!Templates \cup {NotificationService!Everything} :
           asked[<<c, t>>] = {} /\ saidOf(c, t) = {}
    BY <2>1 DEF saidOf
  <2>3. QED
    BY <2>1, <2>2 DEF AskedIsStored
<1>3. SendsAccount /\ AnsweredIsRecorded /\ QuietSends
  BY DEF SendsAccount, AnsweredIsRecorded, NotificationService!AnsweredIsRecorded, QuietSends
<1>4. QED
  BY <1>1, <1>2, <1>3 DEF NoticeInv

(* What is stored keeps to what is asked while neither changes.            *)
LEMMA AskedStays == AskedIsStored /\ UNCHANGED <<preference, asked>> => AskedIsStored'
BY DEF AskedIsStored, saidOf, decides

(* What is wanted of a request is wanted of what is left of it.            *)
LEMMA WantsStay ==
    ASSUME NEW h \in Senders, WantsKept(sender[h]), UNCHANGED asked,
           sender'[h].event = sender[h].event,
           sender'[h].left \subseteq sender[h].left,
           sender'[h].suppressed \subseteq sender[h].suppressed
    PROVE  WantsKept(sender[h])'
BY DEF WantsKept, NotificationService!refused, NotificationService!welcome

(* One request moves and nothing else is asked.                            *)
LEMMA OneSendMoves ==
    ASSUME NoticeInv, NEW h \in Senders,
           sender' = [sender EXCEPT ![h] = sender'[h]],
           sender'[h] \in Notice \cup {NotificationService!Idle},
           message' \in [(DOMAIN Causes) \X Channels -> NotificationService!MessageRow \cup {NoMessage}],
           \A k \in (DOMAIN Causes) \X Channels : message[k] # NoMessage => message'[k] # NoMessage,
           answered' \in [DOMAIN Causes -> SUBSET Channels],
           AnsweredIsRecorded',
           UNCHANGED <<preference, asked, quiet>>,
           sender'[h] # NotificationService!Idle =>
              /\ Accounted(sender[h])'
              /\ quiet => /\ WantsKept(sender[h])'
                          /\ \A g \in Senders : g = h \/ sender[g] = NotificationService!Idle
    PROVE  NoticeInv'
<1>1. \A g \in Senders : sender'[g] = IF g = h THEN sender'[h] ELSE sender[g]
  BY DEF NoticeInv, NoticeRows
<1>2. NoticeRows'
  BY <1>1 DEF NoticeInv, NoticeRows
<1>3. AskedIsStored'
  BY AskedStays DEF NoticeInv
<1>4. SendsAccount'
  <2> SUFFICES ASSUME NEW g \in Senders, sender'[g] # NotificationService!Idle
               PROVE  Accounted(sender[g])'
    BY DEF SendsAccount
  <2>1. CASE g = h
    BY <2>1
  <2>2. CASE g # h
    <3>1. sender'[g] = sender[g] /\ sender[g] \in Notice /\ Accounted(sender[g])
      BY <1>1, <2>2 DEF NoticeInv, NoticeRows, SendsAccount
    <3>2. NotificationService!candidates(Causes[sender[g].event]) \subseteq Channels
      BY <3>1, GuestAssumption DEF Notice, NotificationService!candidates, NotificationService!ToSet
    <3>3. sender[g].event \in DOMAIN Causes
      BY <3>1 DEF Notice
    <3>4. QED
      BY <3>1, <3>2, <3>3 DEF Accounted, unfinished
  <2>3. QED
    BY <2>1, <2>2
<1>5. quiet' => QuietSends'
  <2>1. SUFFICES ASSUME quiet PROVE QuietSends'
    OBVIOUS
  <2>2. \A g \in Senders : sender'[g] # NotificationService!Idle => WantsKept(sender[g])'
    <3>1. SUFFICES ASSUME NEW g \in Senders, sender'[g] # NotificationService!Idle, g # h
                   PROVE  WantsKept(sender[g])'
      BY <2>1
    <3>2. sender'[g] = sender[g] /\ WantsKept(sender[g])
      BY <1>1, <2>1, <3>1 DEF NoticeInv, QuietSends
    <3>3. QED
      BY <3>2, WantsStay
  <2>3. \A f, g \in Senders : f = g \/ sender'[f] = NotificationService!Idle
                                    \/ sender'[g] = NotificationService!Idle
    BY <1>1, <2>1 DEF NoticeInv, QuietSends
  <2>4. QED
    BY <2>2, <2>3 DEF QuietSends
<1>6. QED
  BY <1>2, <1>3, <1>4, <1>5 DEF NoticeInv

(* What a request under way has read, and what is next of it.              *)
LEMMA SendUnderWay ==
    ASSUME NoticeInv, NEW h \in Senders, sender[h] # NotificationService!Idle
    PROVE  /\ sender[h] \in Notice
           /\ sender[h].event \in DOMAIN Causes
           /\ NotificationService!candidates(Causes[sender[h].event]) \subseteq Channels
           /\ Accounted(sender[h])
           /\ quiet => /\ WantsKept(sender[h])
                       /\ \A g \in Senders : g = h \/ sender[g] = NotificationService!Idle
           /\ sender[h].left # {} => NotificationService!thisChannel(h) \in sender[h].left
           /\ sender[h].suppressed # {} =>
                 NotificationService!nextOf(h, sender[h].suppressed) \in sender[h].suppressed
<1>1. sender[h] \in Notice /\ sender[h].event \in DOMAIN Causes /\ Accounted(sender[h])
  BY DEF NoticeInv, NoticeRows, SendsAccount, Notice
<1>2. NotificationService!candidates(Causes[sender[h].event]) \subseteq Channels
  BY <1>1, GuestAssumption DEF NotificationService!candidates, NotificationService!ToSet
<1>3. quiet => /\ WantsKept(sender[h])
               /\ \A g \in Senders : g = h \/ sender[g] = NotificationService!Idle
  BY DEF NoticeInv, QuietSends
<1>4. sender[h].left # {} => NotificationService!thisChannel(h) \in sender[h].left
  BY <1>1, NextIsOneOf DEF NotificationService!thisChannel, NotificationService!nextOf
<1>5. sender[h].suppressed # {} =>
         NotificationService!nextOf(h, sender[h].suppressed) \in sender[h].suppressed
  BY <1>1, NextIsOneOf DEF NotificationService!nextOf
<1>6. QED
  BY <1>1, <1>2, <1>3, <1>4, <1>5

(* Nothing is inserted, so nothing is queued or withheld.                  *)
LEMMA NothingInserted ==
    (\A k \in (DOMAIN Causes) \X Channels : message[k] = NoMessage => message'[k] = NoMessage)
       => NotificationService!KeepsToWhatIsAsked
BY DEF NotificationService!KeepsToWhatIsAsked, NotificationService!Events

(* A request begins: the candidates are all to send or to withhold.        *)
LEMMA ReadPreferencesStep ==
    ASSUME NoticeInv, NEW h \in Senders, NotificationService!ReadPreferences(h), UNCHANGED quiet
    PROVE  NoticeInv' /\ NotificationService!KeepsToWhatIsAsked
<1> USE DEF NotificationService!Events
<1> DEFINE begun(e, chosen) ==
             NotificationService!begin(h,
                [pc |-> "CHANNELS", event |-> e, skipped |-> {}, left |-> chosen,
                 suppressed |-> NotificationService!candidates(Causes[e]) \ chosen])
<1>0. PICK e \in DOMAIN Causes : \E chosen \in NotificationService!routeNotification(Causes[e]) :
         begun(e, chosen)
  BY DEF NotificationService!ReadPreferences
<1>1. PICK chosen \in NotificationService!routeNotification(Causes[e]) : begun(e, chosen)
  BY <1>0
<1> DEFINE all == NotificationService!candidates(Causes[e])
           r == [pc |-> "CHANNELS", event |-> e, skipped |-> {}, left |-> chosen,
                 suppressed |-> all \ chosen]
<1>2. UNCHANGED <<message, preference, answered, asked>>
  BY DEF NotificationService!ReadPreferences
<1>3. sender' = [sender EXCEPT ![h] = r] /\ (quiet => \A g \in Senders : sender[g] = NotificationService!Idle)
  BY <1>1 DEF NotificationService!begin
<1>4. sender'[h] = r
  BY <1>3 DEF NoticeInv, NoticeRows
<1>5. /\ all \subseteq Channels
      /\ chosen \subseteq all
      /\ NotificationService!isSuppressible(Causes[e].template) =>
            /\ \A c \in chosen : ~ NotificationService!refused(c, Causes[e].template)
            /\ \A c \in all \ chosen :
                  ~ (NotificationService!hasAddress(c, Causes[e])
                        /\ NotificationService!welcome(c, Causes[e].template))
      /\ ~ NotificationService!isSuppressible(Causes[e].template) =>
            \A c \in all \ chosen : ~ NotificationService!hasAddress(c, Causes[e])
  BY ChosenWasAsked
<1> HIDE DEF all
<1>6. r \in Notice
  BY <1>5 DEF Notice
<1>7. Accounted(sender[h])'
  BY <1>2, <1>4, <1>5 DEF Accounted, unfinished, all
<1>8. WantsKept(sender[h])'
  <2>1. sender'[h].event = e /\ sender'[h].left = chosen /\ sender'[h].suppressed = all \ chosen
    BY <1>4
  <2>2. \A c : /\ NotificationService!refused(c, Causes[e].template)'
                  <=> NotificationService!refused(c, Causes[e].template)
               /\ NotificationService!welcome(c, Causes[e].template)'
                  <=> NotificationService!welcome(c, Causes[e].template)
    BY <1>2 DEF NotificationService!refused, NotificationService!welcome
  <2>3. QED
    BY <1>5, <2>1, <2>2 DEF WantsKept
<1>9. AnsweredIsRecorded'
  BY <1>2 DEF NoticeInv, AnsweredIsRecorded, NotificationService!AnsweredIsRecorded
<1>10. NoticeInv'
  BY <1>2, <1>3, <1>4, <1>6, <1>7, <1>8, <1>9, OneSendMoves DEF NoticeInv, NoticeRows
<1>11. QED
  BY <1>2, <1>10, NothingInserted

(* The template of the next channel: the channel is passed over, or the    *)
(* request ends, or its message is looked for.                             *)
LEMMA ReadTemplateStep ==
    ASSUME NoticeInv, NEW h \in Senders, NotificationService!ReadTemplate(h), UNCHANGED quiet
    PROVE  NoticeInv' /\ NotificationService!KeepsToWhatIsAsked
<1> DEFINE c == NotificationService!thisChannel(h)
           r == sender[h]
<1> USE DEF NotificationService!Idle
<1>1. r.pc = "CHANNELS" /\ r.left # {} /\ r # NotificationService!Idle
  BY DEF NotificationService!ReadTemplate, NotificationService!at
<1>2. /\ r \in Notice /\ r.event \in DOMAIN Causes /\ Accounted(r) /\ c \in r.left
      /\ NotificationService!candidates(Causes[r.event]) \subseteq Channels
      /\ quiet => /\ WantsKept(r)
                  /\ \A g \in Senders : g = h \/ sender[g] = NotificationService!Idle
  BY <1>1, SendUnderWay
<1>3. UNCHANGED <<message, preference, answered, asked, quiet>>
  BY DEF NotificationService!ReadTemplate
<1>4. h \in DOMAIN sender
  BY DEF NoticeInv, NoticeRows
<1>5. \/ sender' = [sender EXCEPT ![h] = [r EXCEPT !.pc = "CHANNELS", !.left = @ \ {c},
                                                  !.skipped = @ \cup {c}]]
      \/ sender' = [sender EXCEPT ![h] = NotificationService!Idle]
      \/ sender' = [sender EXCEPT ![h] = [r EXCEPT !.pc = "DEDUPE"]]
  <2> DEFINE r1 == [r EXCEPT !.pc = "CHANNELS", !.left = @ \ {c}]
             next == NotificationService!toNextChannel(h)
  <2>1. next = [sender EXCEPT ![h] = r1]
    BY <1>4 DEF NotificationService!toNextChannel
  <2>2. \/ sender' = [next EXCEPT ![h].skipped = @ \cup {c}]
        \/ sender' = [sender EXCEPT ![h] = NotificationService!Idle]
        \/ sender' = [sender EXCEPT ![h].pc = "DEDUPE"]
    BY DEF NotificationService!ReadTemplate
  <2> HIDE DEF next, c
  <2>3. next \in [Senders -> Notice \cup {NotificationService!Idle}] /\ next[h] = r1
    <3>1. r1 \in Notice
      BY <1>2 DEF Notice
    <3>2. QED
      BY <1>4, <2>1, <3>1 DEF NoticeInv, NoticeRows
  <2>4. r1.skipped = r.skipped
    BY <1>2 DEF Notice
  <2>5. [next EXCEPT ![h].skipped = @ \cup {c}] =
           [sender EXCEPT ![h] = [r EXCEPT !.pc = "CHANNELS", !.left = @ \ {c}, !.skipped = @ \cup {c}]]
    <3>1. [next EXCEPT ![h].skipped = @ \cup {c}] = [next EXCEPT ![h] = [r1 EXCEPT !.skipped = @ \cup {c}]]
      BY <2>3
    <3>2. [r1 EXCEPT !.skipped = @ \cup {c}] =
             [r EXCEPT !.pc = "CHANNELS", !.left = @ \ {c}, !.skipped = @ \cup {c}]
      BY <1>2 DEF Notice
    <3>3. QED
      BY <2>1, <3>1, <3>2, <1>4 DEF NoticeInv, NoticeRows
  <2>6. [sender EXCEPT ![h].pc = "DEDUPE"] = [sender EXCEPT ![h] = [r EXCEPT !.pc = "DEDUPE"]]
    BY <1>4
  <2>7. QED
    BY <2>2, <2>5, <2>6
<1> HIDE DEF c
<1>6. \/ sender'[h] = [r EXCEPT !.pc = "CHANNELS", !.left = @ \ {c}, !.skipped = @ \cup {c}]
      \/ sender'[h] = NotificationService!Idle
      \/ sender'[h] = [r EXCEPT !.pc = "DEDUPE"]
  BY <1>4, <1>5
<1>7. sender' = [sender EXCEPT ![h] = sender'[h]]
  BY <1>4, <1>5
<1>8. sender'[h] \in Notice \cup {NotificationService!Idle}
  <2>1. [r EXCEPT !.pc = "CHANNELS", !.left = @ \ {c}, !.skipped = @ \cup {c}] \in Notice
    BY <1>2 DEF Notice
  <2>2. [r EXCEPT !.pc = "DEDUPE"] \in Notice
    BY <1>2 DEF Notice
  <2>3. QED
    BY <1>6, <2>1, <2>2
<1>9. sender'[h] # NotificationService!Idle => Accounted(sender[h])' /\ (quiet => WantsKept(sender[h])')
  <2>1. CASE sender'[h] = [r EXCEPT !.pc = "CHANNELS", !.left = @ \ {c}, !.skipped = @ \cup {c}]
    <3>1. /\ sender'[h].pc = "CHANNELS" /\ sender'[h].event = r.event
          /\ sender'[h].left = r.left \ {c} /\ sender'[h].skipped = r.skipped \cup {c}
          /\ sender'[h].suppressed = r.suppressed
      BY <1>2, <2>1 DEF Notice
    <3>2. QED
      BY <1>2, <1>3, <3>1 DEF Accounted, unfinished, WantsKept,
         NotificationService!refused, NotificationService!welcome
  <2>2. CASE sender'[h] = [r EXCEPT !.pc = "DEDUPE"]
    <3>1. /\ sender'[h].pc = "DEDUPE" /\ sender'[h].event = r.event
          /\ sender'[h].left = r.left /\ sender'[h].skipped = r.skipped
          /\ sender'[h].suppressed = r.suppressed
      BY <1>2, <2>2 DEF Notice
    <3>2. QED
      BY <1>1, <1>2, <1>3, <3>1 DEF Accounted, unfinished, WantsKept,
         NotificationService!refused, NotificationService!welcome
  <2>3. QED
    BY <1>6, <2>1, <2>2
<1>10. AnsweredIsRecorded'
  BY <1>3 DEF NoticeInv, AnsweredIsRecorded, NotificationService!AnsweredIsRecorded
<1>11. NoticeInv'
  BY <1>2, <1>3, <1>7, <1>8, <1>9, <1>10, OneSendMoves DEF NoticeInv, NoticeRows
<1>12. QED
  BY <1>3, <1>11, NothingInserted

(* A message that is there is not sent again: its channel is done.         *)
LEMMA FindDuplicateStep ==
    ASSUME NoticeInv, NEW h \in Senders, NotificationService!FindDuplicate(h), UNCHANGED quiet
    PROVE  NoticeInv' /\ NotificationService!KeepsToWhatIsAsked
<1> DEFINE c == NotificationService!thisChannel(h)
           r == sender[h]
<1> USE DEF NotificationService!Idle
<1>1. r.pc = "DEDUPE" /\ r # NotificationService!Idle
  BY DEF NotificationService!FindDuplicate, NotificationService!at
<1>2. /\ r \in Notice /\ r.event \in DOMAIN Causes /\ Accounted(r) /\ r.left # {} /\ c \in r.left
      /\ NotificationService!candidates(Causes[r.event]) \subseteq Channels
      /\ quiet => /\ WantsKept(r)
                  /\ \A g \in Senders : g = h \/ sender[g] = NotificationService!Idle
  BY <1>1, SendUnderWay DEF Accounted
<1>3. UNCHANGED <<message, preference, answered, asked, quiet>>
  BY DEF NotificationService!FindDuplicate
<1>4. h \in DOMAIN sender
  BY DEF NoticeInv, NoticeRows
<1>5. \/ /\ sender' = [sender EXCEPT ![h] = [r EXCEPT !.pc = "CHANNELS", !.left = @ \ {c}]]
         /\ message[<<r.event, c>>] # NoMessage
      \/ sender' = [sender EXCEPT ![h] = [r EXCEPT !.pc = "INSERT"]]
  BY <1>4 DEF NotificationService!FindDuplicate, NotificationService!afterDuplicate,
              NotificationService!toNextChannel, NotificationService!key
<1> HIDE DEF c
<1>7. sender' = [sender EXCEPT ![h] = sender'[h]]
  BY <1>4, <1>5
<1>8. sender'[h] \in Notice
  <2>1. \/ sender'[h] = [r EXCEPT !.pc = "CHANNELS", !.left = @ \ {c}]
        \/ sender'[h] = [r EXCEPT !.pc = "INSERT"]
    BY <1>4, <1>5
  <2>2. [r EXCEPT !.pc = "CHANNELS", !.left = @ \ {c}] \in Notice
    BY <1>2 DEF Notice
  <2>3. [r EXCEPT !.pc = "INSERT"] \in Notice
    BY <1>2 DEF Notice
  <2>4. QED
    BY <2>1, <2>2, <2>3
<1>9. Accounted(sender[h])' /\ (quiet => WantsKept(sender[h])')
  <2>1. CASE /\ sender' = [sender EXCEPT ![h] = [r EXCEPT !.pc = "CHANNELS", !.left = @ \ {c}]]
             /\ message[<<r.event, c>>] # NoMessage
    <3>1. /\ sender'[h].pc = "CHANNELS" /\ sender'[h].event = r.event
          /\ sender'[h].left = r.left \ {c} /\ sender'[h].skipped = r.skipped
          /\ sender'[h].suppressed = r.suppressed
      BY <1>2, <1>4, <2>1 DEF Notice
    <3>2. QED
      BY <1>2, <1>3, <2>1, <3>1 DEF Accounted, unfinished, WantsKept,
         NotificationService!refused, NotificationService!welcome
  <2>2. CASE sender' = [sender EXCEPT ![h] = [r EXCEPT !.pc = "INSERT"]]
    <3>1. /\ sender'[h].pc = "INSERT" /\ sender'[h].event = r.event
          /\ sender'[h].left = r.left /\ sender'[h].skipped = r.skipped
          /\ sender'[h].suppressed = r.suppressed
      BY <1>2, <1>4, <2>2 DEF Notice
    <3>2. QED
      BY <1>2, <1>3, <3>1 DEF Accounted, unfinished, WantsKept,
         NotificationService!refused, NotificationService!welcome
  <2>3. QED
    BY <1>5, <2>1, <2>2
<1>10. AnsweredIsRecorded'
  BY <1>3 DEF NoticeInv, AnsweredIsRecorded, NotificationService!AnsweredIsRecorded
<1>11. NoticeInv'
  BY <1>2, <1>3, <1>7, <1>8, <1>9, <1>10, OneSendMoves DEF NoticeInv, NoticeRows
<1>12. QED
  BY <1>3, <1>11, NothingInserted

(* A message is stored, or refused because one was stored meanwhile.       *)
LEMMA InsertStep ==
    ASSUME NoticeInv, NEW h \in Senders, NotificationService!Insert(h), UNCHANGED quiet
    PROVE  NoticeInv' /\ NotificationService!KeepsToWhatIsAsked
<1> DEFINE c == NotificationService!thisChannel(h)
           r == sender[h]
           m == <<r.event, c>>
           row == [status |-> "QUEUED", read |-> FALSE]
<1> USE DEF NotificationService!Idle
<1>1. r.pc = "INSERT" /\ r # NotificationService!Idle
  BY DEF NotificationService!Insert, NotificationService!at
<1>2. /\ r \in Notice /\ r.event \in DOMAIN Causes /\ Accounted(r) /\ r.left # {} /\ c \in r.left
      /\ NotificationService!candidates(Causes[r.event]) \subseteq Channels
      /\ quiet => /\ WantsKept(r)
                  /\ \A g \in Senders : g = h \/ sender[g] = NotificationService!Idle
  BY <1>1, SendUnderWay DEF Accounted
<1>3. UNCHANGED <<preference, answered, asked, quiet>>
  BY DEF NotificationService!Insert
<1>4. h \in DOMAIN sender /\ m \in DOMAIN message
  BY <1>2 DEF NoticeInv, NoticeRows, Notice
<1>0. row \in NotificationService!MessageRow
  BY DEF NotificationService!MessageRow
<1>5. row \in NotificationService!MessageRow /\ row # NoMessage
  BY <1>0, GuestAssumption
<1>6. \/ sender' = [sender EXCEPT ![h] = NotificationService!Idle] /\ message' = message
      \/ /\ sender' = [sender EXCEPT ![h] = [r EXCEPT !.pc = "CHANNELS", !.left = @ \ {c}]]
         /\ message' = [message EXCEPT ![m] = row] /\ message[m] = NoMessage
  BY <1>4 DEF NotificationService!Insert, NotificationService!toNextChannel, NotificationService!key
<1> HIDE DEF c
<1>7. CASE sender' = [sender EXCEPT ![h] = NotificationService!Idle] /\ message' = message
  <2>1. AnsweredIsRecorded'
    BY <1>3, <1>7 DEF NoticeInv, AnsweredIsRecorded, NotificationService!AnsweredIsRecorded
  <2>2. NoticeInv'
    BY <1>3, <1>4, <1>7, <2>1, OneSendMoves DEF NoticeInv, NoticeRows
  <2>3. QED
    BY <1>7, <2>2, NothingInserted
<1>8. CASE /\ sender' = [sender EXCEPT ![h] = [r EXCEPT !.pc = "CHANNELS", !.left = @ \ {c}]]
           /\ message' = [message EXCEPT ![m] = row] /\ message[m] = NoMessage
  <2> HIDE DEF m, row
  <2>1. /\ message' \in [(DOMAIN Causes) \X Channels -> NotificationService!MessageRow \cup {NoMessage}]
        /\ \A k \in (DOMAIN Causes) \X Channels : message[k] # NoMessage => message'[k] # NoMessage
        /\ message'[m] # NoMessage
        /\ \A k \in (DOMAIN Causes) \X Channels : k # m => message'[k] = message[k]
    BY <1>4, <1>5, <1>8 DEF NoticeInv, NoticeRows
  <2>2. AnsweredIsRecorded'
    BY <1>3, <2>1 DEF NoticeInv, NoticeRows, AnsweredIsRecorded,
          NotificationService!AnsweredIsRecorded, NotificationService!Events
  <2>3. /\ sender'[h].pc = "CHANNELS" /\ sender'[h].event = r.event
        /\ sender'[h].left = r.left \ {c} /\ sender'[h].skipped = r.skipped
        /\ sender'[h].suppressed = r.suppressed /\ sender'[h] \in Notice
    BY <1>2, <1>4, <1>8 DEF Notice
  <2>4. Accounted(sender[h])'
    BY <1>2, <2>1, <2>3 DEF Accounted, unfinished, m
  <2>5. quiet => WantsKept(sender[h])'
    BY <1>2, <1>3, <2>3, WantsStay
  <2>6. sender' = [sender EXCEPT ![h] = sender'[h]]
    BY <1>4, <1>8
  <2>7. NoticeInv'
    BY <1>2, <1>3, <2>1, <2>2, <2>3, <2>4, <2>5, <2>6, OneSendMoves DEF NoticeInv, NoticeRows
  <2>8. ASSUME quiet, NEW e \in DOMAIN Causes, NEW d \in Channels,
               message[<<e, d>>] = NoMessage, message'[<<e, d>>] # NoMessage
        PROVE  /\ e = r.event /\ d \in r.left /\ message'[<<e, d>>].status = "QUEUED"
               /\ NotificationService!isSuppressible(Causes[e].template) =>
                     ~ NotificationService!refused(d, Causes[e].template)
    <3>1. <<e, d>> = m
      BY <2>1, <2>8
    <3>2. e = r.event /\ d = c /\ message'[<<e, d>>] = row
      BY <1>4, <1>8, <3>1 DEF m
    <3>3. QED
      BY <1>2, <2>8, <3>2 DEF row, WantsKept
  <2>9. NotificationService!KeepsToWhatIsAsked
    BY <2>8 DEF NotificationService!KeepsToWhatIsAsked, NotificationService!Events
  <2>10. QED
    BY <2>7, <2>9
<1>9. QED
  BY <1>6, <1>7, <1>8

(* A message withheld is recorded, or passed over.                         *)
LEMMA WithholdStep ==
    ASSUME NoticeInv, NEW h \in Senders, NotificationService!Withhold(h), UNCHANGED quiet
    PROVE  NoticeInv' /\ NotificationService!KeepsToWhatIsAsked
<1> DEFINE r == sender[h]
           c == NotificationService!nextOf(h, r.suppressed)
           m == <<r.event, c>>
           row == [status |-> "SUPPRESSED", read |-> FALSE]
           next == [sender EXCEPT ![h].suppressed = @ \ {c}]
           kept == [r EXCEPT !.suppressed = @ \ {c}]
           passed == [r EXCEPT !.suppressed = @ \ {c}, !.skipped = @ \cup {c}]
<1> USE DEF NotificationService!Idle
<1>1. r.pc = "CHANNELS" /\ r.left = {} /\ r.suppressed # {} /\ r # NotificationService!Idle
  BY DEF NotificationService!Withhold, NotificationService!at
<1>2. /\ r \in Notice /\ r.event \in DOMAIN Causes /\ Accounted(r) /\ c \in r.suppressed
      /\ NotificationService!candidates(Causes[r.event]) \subseteq Channels
      /\ quiet => /\ WantsKept(r)
                  /\ \A g \in Senders : g = h \/ sender[g] = NotificationService!Idle
  BY <1>1, SendUnderWay
<1>3. UNCHANGED <<preference, answered, asked, quiet>>
  BY DEF NotificationService!Withhold
<1>4. h \in DOMAIN sender /\ m \in DOMAIN message /\ sender[h] \in Notice
  BY <1>2 DEF NoticeInv, NoticeRows, Notice
<1>5. row \in NotificationService!MessageRow
  BY DEF NotificationService!MessageRow
<1>6. row # NoMessage
  BY <1>5, GuestAssumption
<1>7. \/ /\ message' = [message EXCEPT ![m] = IF @ = NoMessage THEN row ELSE @]
         /\ sender' = next
      \/ /\ sender' = [next EXCEPT ![h].skipped = @ \cup {c}]
         /\ message' = message
  BY DEF NotificationService!Withhold
<1> HIDE DEF c, m, row
<1>8. next = [sender EXCEPT ![h] = kept]
  BY <1>4
<1>9. [next EXCEPT ![h].skipped = @ \cup {c}] = [sender EXCEPT ![h] = passed]
  <2>1. next[h] = kept /\ DOMAIN next = DOMAIN sender
    BY <1>4, <1>8
  <2>2. kept.skipped = r.skipped /\ [kept EXCEPT !.skipped = @ \cup {c}] = passed
    BY <1>4 DEF Notice
  <2>3. [next EXCEPT ![h].skipped = @ \cup {c}] = [next EXCEPT ![h] = [kept EXCEPT !.skipped = @ \cup {c}]]
    BY <1>4, <2>1
  <2>4. QED
    BY <1>4, <1>8, <2>2, <2>3 DEF NoticeInv, NoticeRows
<1>10. /\ kept \in Notice /\ kept.pc = r.pc /\ kept.event = r.event /\ kept.left = r.left
       /\ kept.skipped = r.skipped /\ kept.suppressed = r.suppressed \ {c}
  BY <1>4 DEF Notice
<1>11. /\ passed \in Notice /\ passed.pc = r.pc /\ passed.event = r.event /\ passed.left = r.left
       /\ passed.skipped = r.skipped \cup {c} /\ passed.suppressed = r.suppressed \ {c}
  BY <1>2, <1>4 DEF Notice
<1> HIDE DEF next, kept, passed
<1>12. CASE /\ message' = [message EXCEPT ![m] = IF @ = NoMessage THEN row ELSE @]
            /\ sender' = next
  <2>1. /\ message' \in [(DOMAIN Causes) \X Channels -> NotificationService!MessageRow \cup {NoMessage}]
        /\ \A k \in (DOMAIN Causes) \X Channels : message[k] # NoMessage => message'[k] # NoMessage
        /\ message'[m] # NoMessage
        /\ \A k \in (DOMAIN Causes) \X Channels : k # m => message'[k] = message[k]
        /\ message[m] = NoMessage => message'[m] = row
    BY <1>4, <1>5, <1>6, <1>12 DEF NoticeInv, NoticeRows
  <2>2. AnsweredIsRecorded'
    BY <1>3, <2>1 DEF NoticeInv, NoticeRows, AnsweredIsRecorded,
          NotificationService!AnsweredIsRecorded, NotificationService!Events
  <2>3. sender'[h] = kept /\ sender' = [sender EXCEPT ![h] = sender'[h]]
    BY <1>4, <1>8, <1>12
  <2>4. Accounted(sender[h])'
    BY <1>1, <1>2, <1>10, <2>1, <2>3 DEF Accounted, unfinished, m
  <2>5. quiet => WantsKept(sender[h])'
    BY <1>2, <1>3, <1>10, <2>3, WantsStay
  <2>6. NoticeInv'
    BY <1>2, <1>3, <1>10, <2>1, <2>2, <2>3, <2>4, <2>5, OneSendMoves DEF NoticeInv, NoticeRows
  <2>7. ASSUME quiet, NEW e \in DOMAIN Causes, NEW d \in Channels,
               message[<<e, d>>] = NoMessage, message'[<<e, d>>] # NoMessage
        PROVE  /\ e = r.event /\ d \in r.suppressed /\ message'[<<e, d>>].status = "SUPPRESSED"
               /\ ~ (/\ NotificationService!hasAddress(d, Causes[e])
                     /\ NotificationService!isSuppressible(Causes[e].template) =>
                           NotificationService!welcome(d, Causes[e].template))
    <3>1. <<e, d>> = m
      BY <2>1, <2>7
    <3>2. e = r.event /\ d = c /\ message'[<<e, d>>] = row
      BY <2>1, <2>7, <3>1 DEF m
    <3>3. QED
      BY <1>2, <2>7, <3>2 DEF row, Accounted, WantsKept
  <2>8. NotificationService!KeepsToWhatIsAsked
    BY <2>7 DEF NotificationService!KeepsToWhatIsAsked, NotificationService!Events
  <2>9. QED
    BY <2>6, <2>8
<1>13. CASE sender' = [next EXCEPT ![h].skipped = @ \cup {c}] /\ message' = message
  <2>1. sender'[h] = passed /\ sender' = [sender EXCEPT ![h] = sender'[h]]
    BY <1>4, <1>9, <1>13
  <2>2. Accounted(sender[h])'
    BY <1>1, <1>2, <1>11, <1>13, <2>1 DEF Accounted, unfinished
  <2>3. quiet => WantsKept(sender[h])'
    BY <1>2, <1>3, <1>11, <2>1, WantsStay
  <2>4. AnsweredIsRecorded'
    BY <1>3, <1>13 DEF NoticeInv, AnsweredIsRecorded, NotificationService!AnsweredIsRecorded
  <2>5. NoticeInv'
    BY <1>2, <1>3, <1>11, <1>13, <2>1, <2>2, <2>3, <2>4, OneSendMoves DEF NoticeInv, NoticeRows
  <2>6. QED
    BY <1>13, <2>5, NothingInserted
<1>14. QED
  BY <1>7, <1>12, <1>13

(* An answer accounts for what has its row.                                *)
LEMMA AnswerStep ==
    ASSUME NoticeInv, NEW h \in Senders, NotificationService!Answer(h), UNCHANGED quiet
    PROVE  NoticeInv' /\ NotificationService!KeepsToWhatIsAsked
<1> DEFINE r == sender[h]
           e == r.event
           all == NotificationService!candidates(Causes[e])
<1> USE DEF NotificationService!Idle
<1>1. r.pc = "CHANNELS" /\ r.left = {} /\ r.suppressed = {} /\ r # NotificationService!Idle
  BY DEF NotificationService!Answer, NotificationService!at
<1>2. r \in Notice /\ e \in DOMAIN Causes /\ Accounted(r) /\ all \subseteq Channels
  BY <1>1, SendUnderWay
<1>3. /\ UNCHANGED <<message, preference, asked, quiet>>
      /\ sender' = [sender EXCEPT ![h] = NotificationService!Idle]
      /\ answered' = [answered EXCEPT ![e] = @ \cup (all \ r.skipped)]
  BY DEF NotificationService!Answer
<1> HIDE DEF all, e
<1>4. \A c \in all \ r.skipped : message[<<e, c>>] # NoMessage
  BY <1>1, <1>2 DEF Accounted, unfinished, all, e
<1>5. /\ answered' \in [DOMAIN Causes -> SUBSET Channels]
      /\ \A f \in DOMAIN Causes : \A c \in answered'[f] :
            c \in answered[f] \/ (f = e /\ c \in all \ r.skipped)
  BY <1>2, <1>3 DEF NoticeInv, NoticeRows
<1>6. AnsweredIsRecorded'
  BY <1>3, <1>4, <1>5 DEF NoticeInv, AnsweredIsRecorded, NotificationService!AnsweredIsRecorded,
        NotificationService!Events
<1>7. sender'[h] = NotificationService!Idle /\ sender' = [sender EXCEPT ![h] = sender'[h]]
  BY <1>3 DEF NoticeInv, NoticeRows
<1>8. NoticeInv'
  BY <1>3, <1>5, <1>6, <1>7, OneSendMoves DEF NoticeInv, NoticeRows
<1>9. QED
  BY <1>3, <1>8, NothingInserted

(* A request that dies leaves the rows as they are.                        *)
LEMMA SendCrashStep ==
    ASSUME NoticeInv, NEW h \in Senders, NotificationService!Crash(h), UNCHANGED quiet
    PROVE  NoticeInv' /\ NotificationService!KeepsToWhatIsAsked
<1>1. /\ UNCHANGED <<message, preference, answered, asked, quiet>>
      /\ sender' = [sender EXCEPT ![h] = NotificationService!Idle]
  BY DEF NotificationService!Crash
<1>2. AnsweredIsRecorded'
  BY <1>1 DEF NoticeInv, AnsweredIsRecorded, NotificationService!AnsweredIsRecorded
<1>3. sender'[h] = NotificationService!Idle /\ sender' = [sender EXCEPT ![h] = sender'[h]]
  BY <1>1 DEF NoticeInv, NoticeRows
<1>4. NoticeInv'
  BY <1>1, <1>2, <1>3, OneSendMoves DEF NoticeInv, NoticeRows
<1>5. QED
  BY <1>1, <1>4, NothingInserted

(* Statements that read or mark messages, or write templates, leave what   *)
(* is under way and what is asked.                                         *)
LEMMA SendsStay ==
    ASSUME NoticeInv, UNCHANGED <<sender, answered, preference, asked, quiet>>,
           message' \in [(DOMAIN Causes) \X Channels -> NotificationService!MessageRow \cup {NoMessage}],
           \A k \in (DOMAIN Causes) \X Channels : message[k] = NoMessage <=> message'[k] = NoMessage
    PROVE  NoticeInv' /\ NotificationService!KeepsToWhatIsAsked
<1>1. NoticeRows'
  BY DEF NoticeInv, NoticeRows
<1>2. AskedIsStored'
  BY AskedStays DEF NoticeInv
<1>3. AnsweredIsRecorded'
  BY DEF NoticeInv, NoticeRows, AnsweredIsRecorded, NotificationService!AnsweredIsRecorded,
         NotificationService!Events
<1>4. SendsAccount'
  <2> SUFFICES ASSUME NEW g \in Senders, sender'[g] # NotificationService!Idle
               PROVE  Accounted(sender[g])'
    BY DEF SendsAccount
  <2>1. sender'[g] = sender[g] /\ sender[g] # NotificationService!Idle
    OBVIOUS
  <2>2. /\ sender[g] \in Notice /\ sender[g].event \in DOMAIN Causes /\ Accounted(sender[g])
        /\ NotificationService!candidates(Causes[sender[g].event]) \subseteq Channels
    BY <2>1, SendUnderWay
  <2>3. QED
    BY <2>1, <2>2 DEF Accounted, unfinished
<1>5. quiet' => QuietSends'
  BY WantsStay DEF NoticeInv, QuietSends
<1>6. QED
  BY <1>1, <1>2, <1>3, <1>4, <1>5, NothingInserted DEF NoticeInv

(* A template is written.                                                  *)
LEMMA UpsertTemplateStep ==
    ASSUME NoticeInv, NotificationService!UpsertTemplate, UNCHANGED quiet
    PROVE  NoticeInv' /\ NotificationService!KeepsToWhatIsAsked
<1>1. UNCHANGED <<message, sender, answered, preference, asked, quiet>>
  BY DEF NotificationService!UpsertTemplate, NotificationService!oneStatement
<1>2. QED
  BY <1>1, SendsStay DEF NoticeInv, NoticeRows

(* One message is marked read.                                             *)
LEMMA MarkReadStep ==
    ASSUME NoticeInv, NotificationService!MarkRead, UNCHANGED quiet
    PROVE  NoticeInv' /\ NotificationService!KeepsToWhatIsAsked
<1>1. UNCHANGED <<sender, answered, preference, asked, quiet>>
  BY DEF NotificationService!MarkRead, NotificationService!oneStatement
<1>2. PICK m \in DOMAIN message : message[m] # NoMessage /\ message' = [message EXCEPT ![m].read = TRUE]
  BY DEF NotificationService!MarkRead
<1>3. m \in (DOMAIN Causes) \X Channels /\ message[m] \in NotificationService!MessageRow
  BY <1>2 DEF NoticeInv, NoticeRows
<1>4. [message[m] EXCEPT !.read = TRUE] \in NotificationService!MessageRow
  BY <1>3 DEF NotificationService!MessageRow
<1>5. [message[m] EXCEPT !.read = TRUE] # NoMessage
  BY <1>4, GuestAssumption
<1>6. message' = [message EXCEPT ![m] = [message[m] EXCEPT !.read = TRUE]]
  BY <1>2
<1>7. /\ message' \in [(DOMAIN Causes) \X Channels -> NotificationService!MessageRow \cup {NoMessage}]
      /\ \A k \in (DOMAIN Causes) \X Channels : message[k] = NoMessage <=> message'[k] = NoMessage
  BY <1>2, <1>3, <1>4, <1>5, <1>6 DEF NoticeInv, NoticeRows
<1>8. QED
  BY <1>1, <1>7, SendsStay

(* All messages in the app are marked read.                                *)
LEMMA MarkAllReadStep ==
    ASSUME NoticeInv, NotificationService!MarkAllRead, UNCHANGED quiet
    PROVE  NoticeInv' /\ NotificationService!KeepsToWhatIsAsked
<1>1. UNCHANGED <<sender, answered, preference, asked, quiet>>
  BY DEF NotificationService!MarkAllRead, NotificationService!oneStatement
<1>2. message' = [m \in DOMAIN message |->
          IF m[2] = "IN_APP" /\ message[m] # NoMessage THEN [message[m] EXCEPT !.read = TRUE]
          ELSE message[m]]
  BY DEF NotificationService!MarkAllRead
<1>3. DOMAIN message = (DOMAIN Causes) \X Channels
  BY DEF NoticeInv, NoticeRows
<1>4. ASSUME NEW k \in (DOMAIN Causes) \X Channels
      PROVE  /\ message'[k] \in NotificationService!MessageRow \cup {NoMessage}
             /\ message[k] = NoMessage <=> message'[k] = NoMessage
  <2>1. message[k] \in NotificationService!MessageRow \cup {NoMessage}
    BY DEF NoticeInv, NoticeRows
  <2>2. CASE message'[k] = message[k]
    BY <2>1, <2>2
  <2>3. CASE message[k] # NoMessage /\ message'[k] = [message[k] EXCEPT !.read = TRUE]
    <3>1. message'[k] \in NotificationService!MessageRow
      BY <2>1, <2>3 DEF NotificationService!MessageRow
    <3>2. QED
      BY <2>3, <3>1, GuestAssumption
  <2>4. QED
    BY <1>2, <1>3, <2>2, <2>3
<1>5. message' \in [(DOMAIN Causes) \X Channels -> NotificationService!MessageRow \cup {NoMessage}]
  BY <1>2, <1>3, <1>4
<1>6. QED
  BY <1>1, <1>4, <1>5, SendsStay

(* The row that a preference of one template is written to is the one that *)
(* decides of it, if there is one.                                         *)
LEMMA RowIsTheOne ==
    ASSUME NEW c \in Channels, NEW t \in NotificationService!Templates \cup {NotificationService!Everything},
           preference \in Seq(PreferenceRow)
    PROVE  LET n == NotificationService!rowOf(c, t) IN
           /\ n # 0 => n \in DOMAIN preference /\ decides(n, c, t) /\ t \in NotificationService!Templates
           /\ n = 0 /\ t \in NotificationService!Templates => \A i \in DOMAIN preference : ~ decides(i, c, t)
<1> DEFINE covers(p) == p.channel = c /\ p.template = t /\ t # NotificationService!Everything
           I == {i \in 1 .. Len(preference) : covers(preference[i])}
           n == NotificationService!rowOf(c, t)
<1>1. n = IF I # {} THEN NotificationService!Min(I) ELSE 0
  BY DEF NotificationService!rowOf, NotificationService!SelectInSeq
<1>2. DOMAIN preference = 1 .. Len(preference) /\ Len(preference) \in Nat
  BY LenProperties
<1>3. CASE I = {}
  <2>1. n = 0
    BY <1>1, <1>3
  <2>2. \A i \in DOMAIN preference : ~ covers(preference[i])
    BY <1>2, <1>3
  <2>3. t \in NotificationService!Templates => t # NotificationService!Everything
    BY GuestAssumption
  <2>4. QED
    BY <2>1, <2>2, <2>3 DEF decides
<1>4. CASE I # {}
  <2>1. I \subseteq Nat
    BY <1>2
  <2> HIDE DEF I
  <2>2. \E i \in I : \A j \in I : i <= j
    BY <1>4, <2>1, SmallestOf
  <2>3. n \in I
    BY <1>1, <1>4, <2>2 DEF NotificationService!Min
  <2>4. QED
    BY <1>2, <2>3 DEF I, decides
<1>5. QED
  BY <1>3, <1>4

(* A preference is written where it is found, or added.                    *)
LEMMA UpdatePreferenceStep ==
    ASSUME NoticeInv, NotificationService!UpdatePreference, UNCHANGED quiet
    PROVE  NoticeInv' /\ NotificationService!KeepsToWhatIsAsked
<1> DEFINE Scopes == NotificationService!Templates \cup {NotificationService!Everything}
           Written(c, t, on) ==
             /\ preference' =
                  IF NotificationService!rowOf(c, t) = 0
                  THEN Append(preference, [channel |-> c, template |-> t, enabled |-> on])
                  ELSE [preference EXCEPT ![NotificationService!rowOf(c, t)].enabled = on]
             /\ asked' = [asked EXCEPT ![<<c, t>>] =
                    IF t = NotificationService!Everything THEN @ \cup {on} ELSE {on}]
<1>1. /\ UNCHANGED <<message, sender, answered, quiet>>
      /\ quiet => \A h \in Senders : sender[h] = NotificationService!Idle
  BY DEF NotificationService!UpdatePreference, NotificationService!oneStatement
<1>2. \E c \in Channels, t \in Scopes, on \in BOOLEAN : Written(c, t, on)
  BY DEF NotificationService!UpdatePreference
<1>3. PICK c \in Channels, t \in Scopes, on \in BOOLEAN : Written(c, t, on)
  BY <1>2
<1> DEFINE n == NotificationService!rowOf(c, t)
           row == [channel |-> c, template |-> t, enabled |-> on]
<1>4. /\ preference \in Seq(PreferenceRow) /\ DOMAIN preference = 1 .. Len(preference)
      /\ Len(preference) \in Nat /\ \A i \in DOMAIN preference : preference[i] \in PreferenceRow
  BY LenProperties, ElementOfSeq DEF NoticeInv, NoticeRows
<1>5. /\ n # 0 => n \in DOMAIN preference /\ decides(n, c, t) /\ t \in NotificationService!Templates
      /\ n = 0 /\ t \in NotificationService!Templates => \A i \in DOMAIN preference : ~ decides(i, c, t)
  BY <1>4, RowIsTheOne
<1>6. /\ n = 0 => preference' = Append(preference, row)
      /\ n # 0 => preference' = [preference EXCEPT ![n].enabled = on]
  BY <1>3
<1>7. asked' = [asked EXCEPT ![<<c, t>>] =
         IF t = NotificationService!Everything THEN asked[<<c, t>>] \cup {on} ELSE {on}]
  BY <1>3
<1>8. row \in PreferenceRow
  BY DEF PreferenceRow
<1> HIDE DEF n, row
<1> DEFINE Others ==
             \A d \in Channels, s \in Scopes : d # c \/ s # t =>
                \A i : /\ (i \in DOMAIN preference' /\ decides(i, d, s)') <=> (i \in DOMAIN preference /\ decides(i, d, s))
                       /\ i \in DOMAIN preference' /\ decides(i, d, s)' => preference'[i].enabled = preference[i].enabled
           ThisOne ==
             t \in NotificationService!Templates =>
                \E k \in DOMAIN preference' :
                   /\ decides(k, c, t)' /\ preference'[k].enabled = on
                   /\ \A i \in DOMAIN preference' : decides(i, c, t)' => i = k
           AnswerAdded ==
             t = NotificationService!Everything => saidOf(c, t)' = saidOf(c, t) \cup {on}
<1>9. preference' \in Seq(PreferenceRow) /\ Others /\ ThisOne /\ AnswerAdded
  <2>1. CASE n = 0
    <3>1. /\ preference' \in Seq(PreferenceRow) /\ DOMAIN preference' = 1 .. Len(preference) + 1
          /\ \A i \in DOMAIN preference : preference'[i] = preference[i]
          /\ preference'[Len(preference) + 1] = row
      BY <1>4, <1>6, <1>8, <2>1, AppendProperties
    <3>2. Others
      BY <1>4, <3>1 DEF decides, row
    <3>3. ThisOne
      <4>1. SUFFICES ASSUME t \in NotificationService!Templates PROVE ThisOne
        OBVIOUS
      <4>2. \A i \in DOMAIN preference : ~ decides(i, c, t)
        BY <1>5, <2>1, <4>1
      <4>3. PICK k \in 1 .. Len(preference) + 1 : k = Len(preference) + 1
        BY <1>4
      <4>4. k \in DOMAIN preference' /\ decides(k, c, t)' /\ preference'[k].enabled = on
        BY <1>4, <3>1, <4>3 DEF decides, row
      <4>5. \A i \in DOMAIN preference' : decides(i, c, t)' => i = k
        BY <1>4, <3>1, <4>2, <4>3 DEF decides
      <4>6. QED
        BY <4>4, <4>5
    <3>4. AnswerAdded
      <4>1. PICK k \in 1 .. Len(preference) + 1 : k = Len(preference) + 1
        BY <1>4
      <4>2. /\ preference'[k] = row /\ decides(k, c, t)' /\ preference'[k].enabled = on
            /\ DOMAIN preference' = (DOMAIN preference) \cup {k}
            /\ k \notin DOMAIN preference
        BY <1>4, <3>1, <4>1 DEF decides, row
      <4>3. {j \in DOMAIN preference' : decides(j, c, t)'} = {j \in DOMAIN preference : decides(j, c, t)} \cup {k}
        BY <3>1, <4>2 DEF decides
      <4>4. saidOf(c, t)' = {preference'[i].enabled : i \in {j \in DOMAIN preference : decides(j, c, t)} \cup {k}}
        BY <4>3 DEF saidOf
      <4>5. \A i \in DOMAIN preference : preference'[i].enabled = preference[i].enabled
        BY <3>1
      <4>6. QED
        BY <4>2, <4>4, <4>5 DEF saidOf
    <3>5. QED
      BY <3>1, <3>2, <3>3, <3>4
  <2>2. CASE n # 0
    <3>1. n \in DOMAIN preference /\ decides(n, c, t) /\ t \in NotificationService!Templates
      BY <1>5, <2>2
    <3>2. preference' = [preference EXCEPT ![n] = [preference[n] EXCEPT !.enabled = on]]
      BY <1>6, <2>2, <3>1
    <3>3. [preference[n] EXCEPT !.enabled = on] \in PreferenceRow
      BY <1>4, <3>1 DEF PreferenceRow
    <3>4. /\ preference' \in Seq(PreferenceRow) /\ DOMAIN preference' = DOMAIN preference
          /\ \A i \in DOMAIN preference : i # n => preference'[i] = preference[i]
          /\ preference'[n].channel = c /\ preference'[n].template = t /\ preference'[n].enabled = on
      <4>1. preference' \in Seq(PreferenceRow)
        BY <1>4, <3>1, <3>2, <3>3, ExceptSeq
      <4>2. /\ [preference[n] EXCEPT !.enabled = on].channel = c
            /\ [preference[n] EXCEPT !.enabled = on].template = t
            /\ [preference[n] EXCEPT !.enabled = on].enabled = on
        BY <1>4, <3>1 DEF PreferenceRow, decides
      <4>3. QED
        BY <3>1, <3>2, <4>1, <4>2
    <3>5. Others
      BY <3>1, <3>4 DEF decides
    <3>6. ThisOne
      <4>1. \A i \in DOMAIN preference : decides(i, c, t) => i = n
        BY <3>1 DEF NoticeInv, AskedIsStored
      <4>2. QED
        BY <3>1, <3>4, <4>1 DEF decides
    <3>7. AnswerAdded
      BY <3>1, GuestAssumption
    <3>8. QED
      BY <3>4, <3>5, <3>6, <3>7
  <2>3. QED
    BY <2>1, <2>2
<1> HIDE DEF Others, ThisOne, AnswerAdded
<1>10. /\ asked' \in [Channels \X Scopes -> SUBSET BOOLEAN]
       /\ \A d \in Channels, s \in Scopes : d # c \/ s # t => asked'[<<d, s>>] = asked[<<d, s>>]
       /\ t = NotificationService!Everything => asked'[<<c, t>>] = asked[<<c, t>>] \cup {on}
       /\ t # NotificationService!Everything => asked'[<<c, t>>] = {on}
  <2>1. asked \in [Channels \X Scopes -> SUBSET BOOLEAN] /\ <<c, t>> \in Channels \X Scopes
    BY DEF NoticeInv, NoticeRows
  <2>2. asked[<<c, t>>] \in SUBSET BOOLEAN
    BY <2>1
  <2>3. asked' \in [Channels \X Scopes -> SUBSET BOOLEAN]
    BY <1>7, <2>1, <2>2
  <2>4. /\ \A d \in Channels, s \in Scopes : d # c \/ s # t => asked'[<<d, s>>] = asked[<<d, s>>]
        /\ asked'[<<c, t>>] = IF t = NotificationService!Everything THEN asked[<<c, t>>] \cup {on} ELSE {on}
    BY <1>7, <2>1
  <2>5. QED
    BY <2>3, <2>4
<1>11. AskedIsStored'
  <2>1. ASSUME NEW d \in Channels, NEW s \in Scopes, d # c \/ s # t
        PROVE  asked'[<<d, s>>] = saidOf(d, s)'
    <3>1. \A i : /\ (i \in DOMAIN preference' /\ decides(i, d, s)') <=> (i \in DOMAIN preference /\ decides(i, d, s))
                 /\ i \in DOMAIN preference' /\ decides(i, d, s)' => preference'[i].enabled = preference[i].enabled
      BY <1>9, <2>1 DEF Others
    <3>2. {i \in DOMAIN preference' : decides(i, d, s)'} = {i \in DOMAIN preference : decides(i, d, s)}
      BY <3>1
    <3>3. saidOf(d, s)' = saidOf(d, s)
      BY <3>1, <3>2 DEF saidOf
    <3>4. asked[<<d, s>>] = saidOf(d, s)
      BY DEF NoticeInv, AskedIsStored
    <3>5. QED
      BY <1>10, <2>1, <3>3, <3>4
  <2>2. asked'[<<c, t>>] = saidOf(c, t)'
    <3>1. CASE t = NotificationService!Everything
      <4>1. asked[<<c, t>>] = saidOf(c, t)
        BY DEF NoticeInv, AskedIsStored
      <4>2. saidOf(c, t)' = saidOf(c, t) \cup {on}
        BY <1>9, <3>1 DEF AnswerAdded
      <4>3. asked'[<<c, t>>] = asked[<<c, t>>] \cup {on}
        BY <1>10, <3>1
      <4>4. QED
        BY <4>1, <4>2, <4>3
    <3>2. CASE t # NotificationService!Everything
      <4>1. PICK k \in DOMAIN preference' :
               /\ decides(k, c, t)' /\ preference'[k].enabled = on
               /\ \A i \in DOMAIN preference' : decides(i, c, t)' => i = k
        BY <1>9, <3>2 DEF ThisOne
      <4>2. {i \in DOMAIN preference' : decides(i, c, t)'} = {k}
        BY <4>1
      <4>3. saidOf(c, t)' = {on}
        BY <4>1, <4>2 DEF saidOf
      <4>4. QED
        BY <1>10, <3>2, <4>3
    <3>3. QED
      BY <3>1, <3>2
  <2>3. ASSUME NEW d \in Channels, NEW s \in NotificationService!Templates
        PROVE  \A i, j \in DOMAIN preference' : decides(i, d, s)' /\ decides(j, d, s)' => i = j
    <3>1. CASE d = c /\ s = t
      BY <1>9, <3>1 DEF ThisOne
    <3>2. CASE d # c \/ s # t
      <4>1. \A i : (i \in DOMAIN preference' /\ decides(i, d, s)') => (i \in DOMAIN preference /\ decides(i, d, s))
        BY <1>9, <3>2 DEF Others
      <4>2. \A i, j \in DOMAIN preference : decides(i, d, s) /\ decides(j, d, s) => i = j
        BY DEF NoticeInv, AskedIsStored
      <4>3. QED
        BY <4>1, <4>2
    <3>3. QED
      BY <3>1, <3>2
  <2>4. QED
    BY <2>1, <2>2, <2>3 DEF AskedIsStored
<1>12. NoticeRows'
  BY <1>1, <1>9, <1>10 DEF NoticeInv, NoticeRows
<1>13. AnsweredIsRecorded' /\ SendsAccount'
  BY <1>1 DEF NoticeInv, AnsweredIsRecorded, NotificationService!AnsweredIsRecorded, SendsAccount,
        Accounted, unfinished
<1>14. quiet' => QuietSends'
  BY <1>1 DEF QuietSends
<1>15. QED
  BY <1>1, <1>11, <1>12, <1>13, <1>14, NothingInserted DEF NoticeInv

(* While other services run, the notifications stay.                       *)
LEMMA NoticesStay ==
    ASSUME NoticeInv, UNCHANGED <<noticeVars, quiet>>
    PROVE  NoticeInv' /\ NotificationService!KeepsToWhatIsAsked
<1>1. UNCHANGED <<message, preference, sender, answered, asked, quiet>>
  BY DEF noticeVars
<1>2. QED
  BY <1>1, SendsStay DEF NoticeInv, NoticeRows

(* Every step of the services keeps the bookkeeping of the sends.          *)
LEMMA NoticeNext ==
    NoticeInv /\ [GuestNext]_guestVars => NoticeInv' /\ NotificationService!KeepsToWhatIsAsked
<1> SUFFICES ASSUME NoticeInv, [GuestNext]_guestVars
             PROVE  NoticeInv' /\ NotificationService!KeepsToWhatIsAsked
  OBVIOUS
<1>1. CASE notifications
  <2>1. NotificationService!Next /\ UNCHANGED quiet
    BY <1>1 DEF notifications, NotificationService!Next
  <2>2. ASSUME NEW h \in Senders, NotificationService!send(h) \/ NotificationService!Crash(h)
        PROVE  NoticeInv' /\ NotificationService!KeepsToWhatIsAsked
    BY <2>1, <2>2, ReadPreferencesStep, ReadTemplateStep, FindDuplicateStep, InsertStep,
       WithholdStep, AnswerStep, SendCrashStep DEF NotificationService!send
  <2>3. QED
    BY <2>1, <2>2, UpsertTemplateStep, UpdatePreferenceStep, MarkReadStep, MarkAllReadStep
       DEF NotificationService!Next
<1>2. CASE reports \/ auditing \/ lists \/ realtime \/ UNCHANGED guestVars
  <2>1. UNCHANGED <<noticeVars, quiet>>
    BY <1>2 DEF reports, auditing, lists, realtime, guestVars
  <2>2. QED
    BY <2>1, NoticesStay
<1>3. CASE auth \/ reviews \/ pricing \/ hotels
  <2>1. UNCHANGED noticeVars
    BY <1>3 DEF auth, reviews, pricing, hotels
  <2>2. UNCHANGED quiet
    BY <1>3 DEF auth, reviews, pricing, hotels, Next, ReviewService!Next, PricingService!Next,
          HotelService!Next
  <2>3. QED
    BY <2>1, <2>2, NoticesStay
<1>4. QED
  BY <1>1, <1>2, <1>3 DEF GuestNext

(* A send that was answered has left a row for every channel that it did   *)
(* not pass over, whatever failed, died or was delivered again meanwhile.  *)
THEOREM AnsweredIsRecordedHolds == GuestSpec => []AnsweredIsRecorded
<1>1. NoticeInv => AnsweredIsRecorded
  BY DEF NoticeInv
<1>2. QED
  BY <1>1, NoticeInit, NoticeNext, PTL DEF GuestSpec

(* While requests do not overlap, an optional message the recipient        *)
(* refused, by its template or with all of the channel, is not queued, and *)
(* one he welcomes, or that is not optional, is withheld for want of an    *)
(* address only.                                                           *)
THEOREM QuietOptOutAlwaysHolds == GuestSpec => QuietOptOutHolds
<1>1. NoticeInv /\ [GuestNext]_guestVars =>
         NoticeInv' /\ [NotificationService!KeepsToWhatIsAsked]_(NotificationService!vars)
  BY NoticeNext
<1>2. QED
  BY <1>1, NoticeInit, PTL DEF GuestSpec, QuietOptOutHolds, NotificationService!QuietOptOutHolds
-----------------------------------------------------------------------------
(* Types, service by service.                                              *)

(* The sum of scores from one to five.                                     *)
LEMMA SumOfScores ==
    ASSUME NEW S, IsFiniteSet(S), NEW f, \A x \in S : f[x] \in 1 .. 5
    PROVE  /\ SumFunctionOnSet(f, S) \in Nat
           /\ Cardinality(S) <= SumFunctionOnSet(f, S)
           /\ SumFunctionOnSet(f, S) <= 5 * Cardinality(S)
<1> DEFINE within(s) == /\ SumFunctionOnSet(f, s) \in Nat
                        /\ Cardinality(s) <= SumFunctionOnSet(f, s)
                        /\ SumFunctionOnSet(f, s) <= 5 * Cardinality(s)
           P == {s \in SUBSET S : within(s)}
<1>1. ASSUME NEW s \in SUBSET S, \A t \in SUBSET s : t # s => t \in P PROVE s \in P
  <2>1. CASE s = {}
    BY <2>1, SumOfNone, FS_EmptySet
  <2>2. CASE s # {}
    <3>1. PICK x \in s : TRUE
      BY <2>2
    <3> DEFINE t == s \ {x}
    <3>2. IsFiniteSet(s) /\ f[x] \in 1 .. 5 /\ \A y \in s : f[y] \in Int
      BY FS_Subset
    <3>3. t \in SUBSET s /\ t # s
      BY <3>1
    <3>4. within(t)
      BY <1>1, <3>3
    <3>5. SumFunctionOnSet(f, s) = f[x] + SumFunctionOnSet(f, t)
      BY <3>1, <3>2, SumRemove
    <3>6. Cardinality(s) \in Nat /\ Cardinality(t) = Cardinality(s) - 1 /\ Cardinality(t) \in Nat
      BY <3>1, <3>2, FS_RemoveElement, FS_CardinalityType
    <3> HIDE DEF t
    <3>7. within(s)
      BY <3>2, <3>4, <3>5, <3>6
    <3>8. QED
      BY <3>7
  <2>3. QED
    BY <2>1, <2>2
<1>2. P = SUBSET S
  <2> HIDE DEF P
  <2>1. P \in SUBSET SUBSET S
    BY DEF P
  <2>2. QED
    BY <1>1, <2>1, SubsetInduction
<1>3. S \in P
  BY <1>2
<1>4. QED
  BY <1>3

(* A quotient that is rounded lies between bounds of the dividend.         *)
LEMMA RoundedBetween ==
    ASSUME NEW n \in Nat \ {0}, NEW t \in Nat, n <= t, t <= 5 * n
    PROVE  ReviewService!rounded(10 * t, n) \in 10 .. 50
<1> DEFINE a == 2 * (10 * t) + n
           q == a \div (2 * n)
<1>1. q \in Int /\ (2 * n) * q <= a /\ a < (2 * n) * (q + 1)
  OBVIOUS
<1>2. a >= (2 * n) * 10 /\ a < (2 * n) * 51
  OBVIOUS
<1> HIDE DEF a, q
<1>3. q >= 10
  <2>1. SUFFICES ASSUME q + 1 <= 10 PROVE FALSE
    BY <1>1
  <2>2. (2 * n) * (q + 1) <= (2 * n) * 10
    BY <1>1, <2>1
  <2>3. a \in Int /\ (2 * n) * (q + 1) \in Int /\ (2 * n) * 10 \in Int
    BY <1>1 DEF a
  <2>4. QED
    BY <1>1, <1>2, <2>2, <2>3
<1>4. q <= 50
  <2>1. SUFFICES ASSUME 51 <= q PROVE FALSE
    BY <1>1
  <2>2. (2 * n) * 51 <= (2 * n) * q
    BY <1>1, <2>1
  <2>3. a \in Int /\ (2 * n) * q \in Int /\ (2 * n) * 51 \in Int
    BY <1>1 DEF a
  <2>4. QED
    BY <1>1, <1>2, <2>2, <2>3
<1>5. QED
  BY <1>1, <1>3, <1>4 DEF ReviewService!rounded, q, a

(* Overall ratings are from one to five, in tenths.                        *)
LEMMA OverallBetween ==
    ASSUME NEW card \in ScoreCards
    PROVE  ReviewService!overallRating(card) \in 10 .. 50
<1> DEFINE S == DOMAIN card
           t == SumFunctionOnSet(card, S)
           n == Cardinality(S)
<1>1. IsFiniteSet(S) /\ S # {} /\ \A x \in S : card[x] \in 1 .. 5
  BY RowsAssumption
<1>2. n \in Nat \ {0}
  BY <1>1, FS_CardinalityType, FS_EmptySet
<1>3. t \in Nat /\ n <= t /\ t <= 5 * n
  BY <1>1, SumOfScores
<1>4. ReviewService!MapThenSumSet(LAMBDA c : card[c], S) = t
  BY DEF ReviewService!MapThenSumSet, ReviewService!MapThenFoldSet, SumFunctionOnSet,
         FoldFunctionOnSet, MapThenFoldSet
<1>5. ReviewService!Cardinality(S) = n
  BY DEF ReviewService!Cardinality, Cardinality
<1>6. ReviewService!overallRating(card) = ReviewService!rounded(10 * t, n)
  BY <1>4, <1>5 DEF ReviewService!overallRating
<1> HIDE DEF t, n
<1>7. QED
  BY <1>2, <1>3, <1>6, RoundedBetween

(* The number of rated stays is that of the published reviews at most.     *)
AllStays == Cardinality(ReviewedStays)

ReviewBounds ==
    /\ rating.reviewCount \in 0 .. AllStays
    /\ \A h \in Moderators :
          moderator[h].pc = "UPSERT" => moderator[h].aggregate.reviewCount \in 0 .. AllStays
    /\ reviewRequests \in 0 .. MaxReviewRequests[quiet]

ReviewTypes == ReviewInv /\ ReviewBounds

(* A rating counts some of the stays.                                      *)
LEMMA RatingCounts ==
    ReviewService!aggregateRatings(ReviewService!publishedRatings).reviewCount \in 0 .. AllStays
<1> DEFINE S == ReviewService!published
           rows == ReviewService!publishedRatings
<1>1. DOMAIN rows = S
  BY DEF ReviewService!publishedRatings
<1>2. S \in SUBSET ReviewedStays
  BY DEF ReviewService!published
<1>3. Cardinality(S) \in 0 .. AllStays
  BY <1>2, RowsAssumption, FS_Subset, FS_CardinalityType DEF AllStays
<1>4. ReviewService!Cardinality(DOMAIN rows) = Cardinality(S)
  BY <1>1 DEF ReviewService!Cardinality, Cardinality
<1> HIDE DEF S, rows
<1>5. CASE ReviewService!Cardinality(DOMAIN rows) = 0
  <2>1. ReviewService!aggregateRatings(rows) = ReviewService!EMPTY_AGGREGATE
    BY <1>5 DEF ReviewService!aggregateRatings
  <2>2. ReviewService!EMPTY_AGGREGATE.reviewCount = 0
    BY DEF ReviewService!EMPTY_AGGREGATE
  <2>3. QED
    BY <1>3, <1>4, <1>5, <2>1, <2>2 DEF rows
<1>6. CASE ReviewService!Cardinality(DOMAIN rows) # 0
  <2>1. ReviewService!aggregateRatings(rows).reviewCount = ReviewService!Cardinality(DOMAIN rows)
    BY <1>6 DEF ReviewService!aggregateRatings
  <2>2. QED
    BY <1>3, <1>4, <2>1 DEF rows
<1>7. QED
  BY <1>5, <1>6

(* Nothing is rated and nobody has asked at first.                         *)
LEMMA ReviewTypesInit == GuestInit => ReviewTypes
<1> SUFFICES ASSUME GuestInit PROVE ReviewTypes
  OBVIOUS
<1>1. ReviewInv
  BY ReviewInit
<1>2. quiet \in BOOLEAN /\ AllStays \in Nat
  BY RowsAssumption, FS_CardinalityType DEF GuestInit, ReviewService!Init, AllStays
<1>3. MaxReviewRequests[quiet] \in Nat
  BY <1>2, RowsAssumption
<1>4. ReviewBounds
  BY <1>2, <1>3
     DEF ReviewBounds, GuestInit, ReviewService!Init, ReviewService!EMPTY_AGGREGATE,
         ReviewService!AtRest
<1>5. QED
  BY <1>1, <1>4 DEF ReviewTypes

(* A step of review-service keeps the counts.                              *)
LEMMA ReviewCountsKept ==
    ASSUME ReviewTypes, quiet' = quiet, quiet \in BOOLEAN, NEW h \in Moderators, ReviewStep(h)
    PROVE  ReviewBounds'
<1> USE DEF ReviewTypes, ReviewBounds
<1>1. MaxReviewRequests[quiet] \in Nat /\ moderator = [g \in Moderators |-> moderator[g]]
  BY RowsAssumption DEF ReviewInv, ReviewRows
<1>2. /\ \A g \in Moderators : g # h => moderator'[g] = moderator[g]
      /\ reviewRequests' = reviewRequests
         \/ (reviewRequests < MaxReviewRequests[quiet] /\ reviewRequests' = reviewRequests + 1)
  BY <1>1
     DEF ReviewStep, ReviewService!create, ReviewService!moderateReview,
         ReviewService!respond, ReviewService!recomputeRating,
         ReviewService!ReadForCreate, ReviewService!ReadForModerate,
         ReviewService!ReadForRespond, ReviewService!begin,
         ReviewService!Create, ReviewService!Moderate, ReviewService!Respond,
         ReviewService!ReadPublished, ReviewService!UpsertRating, ReviewService!Crash,
         ReviewService!thenRecompute, ReviewService!AtRest
<1>3. /\ moderator'[h].pc = "UPSERT" => moderator'[h].aggregate.reviewCount \in 0 .. AllStays
      /\ rating'.reviewCount \in 0 .. AllStays
  <2>1. CASE ReviewService!ReadPublished(h)
    BY <1>1, <2>1, RatingCounts DEF ReviewService!ReadPublished
  <2>2. CASE ReviewService!UpsertRating(h)
    BY <1>1, <2>2 DEF ReviewService!UpsertRating, ReviewService!AtRest
  <2>3. CASE ~ ReviewService!recomputeRating(h)
    BY <1>1, <2>3
       DEF ReviewStep, ReviewService!create, ReviewService!moderateReview,
           ReviewService!respond, ReviewService!recomputeRating,
           ReviewService!ReadForCreate, ReviewService!ReadForModerate,
           ReviewService!ReadForRespond, ReviewService!begin,
           ReviewService!Create, ReviewService!Moderate, ReviewService!Respond,
           ReviewService!Crash, ReviewService!thenRecompute, ReviewService!AtRest
  <2>4. QED
    BY <2>1, <2>2, <2>3 DEF ReviewService!recomputeRating
<1>4. AllStays' = AllStays
  BY DEF AllStays
<1>5. QED
  BY <1>1, <1>2, <1>3, <1>4

(* Every step of every service keeps what reviews are.                     *)
LEMMA ReviewTypesNext ==
    ReviewTypes /\ quiet \in BOOLEAN /\ [GuestNext]_guestVars => ReviewTypes'
<1> SUFFICES ASSUME ReviewTypes, quiet \in BOOLEAN, [GuestNext]_guestVars PROVE ReviewTypes'
  OBVIOUS
<1>1. ReviewInv'
  BY ReviewNext DEF ReviewTypes
<1>2. CASE UNCHANGED <<reviewVars, quiet>>
  BY <1>1, <1>2 DEF ReviewTypes, ReviewBounds, reviewVars, AllStays
<1>3. CASE quiet' = quiet /\ \E h \in Moderators : ReviewStep(h)
  BY <1>1, <1>3, ReviewCountsKept DEF ReviewTypes
<1>4. QED
  BY <1>2, <1>3, ReviewSteps

(* The properties that are there.                                          *)
present == {i \in HotelIds : HotelService!exists(i)}

(* What a client's own address may end in.                                 *)
numbers == 1 .. Cardinality(HotelIds)

HotelBounds ==
    /\ \A i \in present : hotel[i].slug.number \in 1 .. Cardinality(HotelIds)
    /\ branch \subseteq HotelIds \X BranchCodes
    /\ hotelRequests \in 0 .. MaxHotelRequests[quiet]
    /\ \A h \in Registrars :
          /\ registrar[h].pc \in {"LOOK_UP", "CREATE"} =>
                registrar[h].slug.number \in (1 .. Cardinality(present) + 1) \cup numbers
          /\ registrar[h].pc = "BRANCH" => registrar[h].row \in HotelIds \X BranchCodes

HotelTypes == HotelInv /\ HotelBounds

(* Properties are finitely many.                                           *)
LEMMA PresentIsFinite ==
    /\ IsFiniteSet(present) /\ Cardinality(present) \in Nat
    /\ Cardinality(HotelIds) \in Nat /\ Cardinality(present) <= Cardinality(HotelIds)
    /\ (\E i \in HotelIds : i \notin present) => Cardinality(present) + 1 <= Cardinality(HotelIds)
<1>1. IsFiniteSet(HotelIds) /\ present \in SUBSET HotelIds
  BY GuestAssumption DEF present
<1>2. /\ IsFiniteSet(present) /\ Cardinality(present) <= Cardinality(HotelIds)
      /\ Cardinality(HotelIds) = Cardinality(present) => HotelIds = present
  BY <1>1, FS_Subset
<1>3. Cardinality(present) \in Nat /\ Cardinality(HotelIds) \in Nat
  BY <1>1, <1>2, FS_CardinalityType
<1>4. QED
  BY <1>1, <1>2, <1>3

(* A number that is resolved is at most one more than there are properties.*)
LEMMA ResolvedIsSmall ==
    ASSUME NEW name, NEW taken \in SUBSET HotelService!slugs
    PROVE  HotelService!resolveSlug(name, taken).number \in 1 .. Cardinality(present) + 1
<1> DEFINE f == [i \in present |-> hotel[i].slug]
<1>1. f \in Surjection(present, HotelService!slugs)
  BY DEF Surjection, HotelService!slugs, present
<1>2. IsFiniteSet(HotelService!slugs) /\ Cardinality(HotelService!slugs) <= Cardinality(present)
  BY <1>1, PresentIsFinite, FS_Surjection
<1>3. /\ IsFiniteSet(taken) /\ Cardinality(taken) <= Cardinality(HotelService!slugs)
      /\ Cardinality(taken) \in Nat /\ Cardinality(HotelService!slugs) \in Nat
  BY <1>2, FS_Subset, FS_CardinalityType
<1>4. /\ HotelService!resolveSlug(name, taken).number \in Nat \ {0}
      /\ HotelService!resolveSlug(name, taken).number <= Cardinality(taken) + 1
  BY <1>3, ResolvedIsFree
<1>5. QED
  BY <1>2, <1>3, <1>4, PresentIsFinite

(* No property is there at first.                                          *)
LEMMA HotelTypesInit == GuestInit => HotelTypes
<1> SUFFICES ASSUME GuestInit PROVE HotelTypes
  OBVIOUS
<1>1. quiet \in BOOLEAN /\ MaxHotelRequests[quiet] \in Nat
  BY RowsAssumption DEF GuestInit, HotelService!Init
<1>2. present = {}
  BY DEF GuestInit, HotelService!Init, HotelService!exists, present
<1>3. HotelBounds
  BY <1>1, <1>2 DEF HotelBounds, GuestInit, HotelService!Init, HotelService!Away
<1>4. QED
  BY <1>3, HotelInit DEF HotelTypes

(* A step of hotel-service keeps numbers, branches and requests in bounds. *)
LEMMA HotelBoundsKept ==
    ASSUME HotelTypes, quiet' = quiet, quiet \in BOOLEAN, NEW h \in Registrars, HotelStep(h)
    PROVE  HotelBounds'
<1> USE DEF HotelTypes, HotelBounds
<1>1. /\ MaxHotelRequests[quiet] \in Nat
      /\ registrar = [g \in Registrars |-> registrar[g]]
      /\ hotel \in [HotelIds -> HotelService!HotelRow \cup {NoHotel}]
  BY RowsAssumption DEF HotelInv, HotelRows
<1>2. /\ \A g \in Registrars : g # h => registrar'[g] = registrar[g]
      /\ hotelRequests' = hotelRequests
         \/ (hotelRequests < MaxHotelRequests[quiet] /\ hotelRequests' = hotelRequests + 1)
  BY <1>1
     DEF HotelStep, HotelService!create, HotelService!ReadTakenSlugs, HotelService!LookUpSlug,
         HotelService!Create, HotelService!update, HotelService!ReadForUpdate,
         HotelService!Update, HotelService!publish, HotelService!ReadForPublish,
         HotelService!Publish, HotelService!addBranch, HotelService!ReadForBranch,
         HotelService!AddBranch, HotelService!Crash, HotelService!begin, HotelService!goto
<1>3. present \subseteq present' /\ present' \subseteq HotelIds
      /\ \A i \in present' : hotel'[i].slug.number \in 1 .. Cardinality(HotelIds)
  <2>1. CASE HotelService!Create(h) /\ hotel' # hotel
    <3>1. PICK i \in HotelIds :
            /\ ~ HotelService!exists(i)
            /\ hotel' = [hotel EXCEPT ![i] =
                  [slug |-> registrar[h].slug, status |-> "DRAFT", facts |-> registrar[h].facts]]
      BY <2>1 DEF HotelService!Create
    <3>2. registrar[h].slug.number \in (1 .. Cardinality(present) + 1) \cup numbers
      BY <2>1 DEF HotelService!Create
    <3>3. registrar[h].slug.number \in 1 .. Cardinality(HotelIds)
      BY <3>1, <3>2, PresentIsFinite DEF present, numbers
    <3>4. /\ hotel'[i].slug.number = registrar[h].slug.number
          /\ \A q \in HotelIds : q # i => hotel'[q] = hotel[q]
      BY <1>1, <3>1
    <3>5. QED
      BY <3>1, <3>3, <3>4 DEF present, HotelService!exists
  <2>2. CASE HotelService!Publish(h) \/ HotelService!Update(h)
    <3>1. PICK i \in HotelIds :
            /\ HotelService!exists(i)
            /\ \E row : /\ row.slug = hotel[i].slug
                        /\ row \in HotelService!HotelRow
                        /\ hotel' = [hotel EXCEPT ![i] = row]
      <4>1. registrar[h].pc \in {"UPDATE", "PUBLISH"} /\ FindsHotel(h)
        BY <2>2 DEF HotelService!Publish, HotelService!Update, HotelInv, HotelRows
      <4> DEFINE i == registrar[h].hotel
      <4>2. i \in HotelIds /\ HotelService!exists(i)
        BY <4>1 DEF FindsHotel
      <4>3. hotel[i] \in HotelService!HotelRow
        BY <1>1, <4>2 DEF HotelService!exists
      <4>4. CASE HotelService!Publish(h)
        <5> DEFINE row == [hotel[i] EXCEPT !.status = "ACTIVE"]
        <5>1. hotel' = [hotel EXCEPT ![i] = row]
          BY <4>4 DEF HotelService!Publish
        <5>2. row \in HotelService!HotelRow /\ row.slug = hotel[i].slug
          BY <4>3 DEF HotelService!HotelRow
        <5>3. QED
          BY <4>2, <5>1, <5>2
      <4>5. CASE HotelService!Update(h)
        <5> DEFINE row == [hotel[i] EXCEPT !.facts = registrar[h].facts]
        <5>1. hotel' = [hotel EXCEPT ![i] = row] /\ registrar[h].facts \in Facts
          BY <4>1, <4>5 DEF HotelService!Update, FindsHotel
        <5>2. row \in HotelService!HotelRow /\ row.slug = hotel[i].slug
          BY <4>3, <5>1 DEF HotelService!HotelRow
        <5>3. QED
          BY <4>2, <5>1, <5>2
      <4>6. QED
        BY <2>2, <4>4, <4>5
    <3>2. /\ hotel'[i].slug = hotel[i].slug
          /\ \A q \in HotelIds : q # i => hotel'[q] = hotel[q]
      BY <1>1, <3>1
    <3>3. hotel'[i] # NoHotel
      BY <1>1, <3>1, GuestAssumption
    <3>4. QED
      BY <3>1, <3>2, <3>3 DEF present, HotelService!exists
  <2>3. CASE UNCHANGED hotel
    BY <2>3 DEF present, HotelService!exists
  <2>4. QED
    BY <2>1, <2>2, <2>3
       DEF HotelStep, HotelService!create, HotelService!ReadTakenSlugs, HotelService!LookUpSlug,
           HotelService!update, HotelService!ReadForUpdate,
           HotelService!publish, HotelService!ReadForPublish,
           HotelService!addBranch, HotelService!ReadForBranch,
           HotelService!AddBranch, HotelService!Crash
<1>4. /\ Cardinality(present) \in Nat /\ Cardinality(present') \in Nat
      /\ Cardinality(present) <= Cardinality(present')
  <2>1. IsFiniteSet(present')
    BY <1>3, GuestAssumption, FS_Subset
  <2>2. QED
    BY <1>3, <2>1, PresentIsFinite, FS_Subset, FS_CardinalityType
<1>5. /\ registrar'[h].pc \in {"LOOK_UP", "CREATE"} =>
            registrar'[h].slug.number \in (1 .. Cardinality(present) + 1) \cup numbers
      /\ registrar'[h].pc = "BRANCH" => registrar'[h].row \in HotelIds \X BranchCodes
      /\ branch' \subseteq HotelIds \X BranchCodes
  <2>1. CASE HotelService!ReadTakenSlugs(h)
    <3>1. PICK name \in Names, facts \in Facts :
            \E slug \in {HotelService!resolveSlug(name, HotelService!takenSlugs(name))}
                            \cup HotelService!givenSlugs(name) :
               registrar'[h] = [pc |-> "LOOK_UP", facts |-> facts, slug |-> slug]
      BY <1>1, <2>1 DEF HotelService!ReadTakenSlugs, HotelService!begin
    <3>2. HotelService!takenSlugs(name) \subseteq HotelService!slugs
      BY DEF HotelService!takenSlugs
    <3>3. branch' = branch
      BY <2>1 DEF HotelService!ReadTakenSlugs
    <3>4. HotelService!resolveSlug(name, HotelService!takenSlugs(name)).number
             \in 1 .. Cardinality(present) + 1
      BY <3>2, ResolvedIsSmall
    <3>5. ASSUME NEW slug \in HotelService!givenSlugs(name) PROVE slug.number \in numbers
      <4>1. PICK n \in 1 .. Cardinality(HotelIds) : slug = [words |-> name, number |-> n]
        BY DEF HotelService!givenSlugs, HotelService!Cardinality, Cardinality
      <4>2. QED
        BY <4>1 DEF numbers
    <3>6. QED
      BY <3>1, <3>3, <3>4, <3>5
  <2>2. CASE HotelService!LookUpSlug(h)
    <3>1. registrar[h] \in [pc : {"LOOK_UP", "CREATE"}, facts : Facts, slug : Addresses]
      BY <2>2 DEF HotelService!LookUpSlug, HotelInv, HotelRows, FindsHotel
    <3>2. registrar[h].slug.number \in (1 .. Cardinality(present) + 1) \cup numbers
      BY <3>1
    <3>3. registrar'[h] = HotelService!Away \/ registrar'[h] = [registrar[h] EXCEPT !.pc = "CREATE"]
      BY <1>1, <2>2 DEF HotelService!LookUpSlug, HotelService!goto
    <3>4. branch' = branch
      BY <2>2 DEF HotelService!LookUpSlug
    <3>5. [registrar[h] EXCEPT !.pc = "CREATE"].slug = registrar[h].slug
          /\ [registrar[h] EXCEPT !.pc = "CREATE"].pc = "CREATE"
      BY <3>1
    <3>6. branch' \subseteq HotelIds \X BranchCodes
      BY <3>4
    <3>7. CASE registrar'[h] = HotelService!Away
      BY <3>6, <3>7 DEF HotelService!Away
    <3>8. CASE registrar'[h] = [registrar[h] EXCEPT !.pc = "CREATE"]
      <4>1. registrar'[h].slug = registrar[h].slug /\ registrar'[h].pc = "CREATE"
        BY <3>5, <3>8
      <4>2. QED
        BY <3>2, <3>6, <4>1
    <3>9. QED
      BY <3>3, <3>7, <3>8
  <2>3. CASE HotelService!ReadForBranch(h)
    BY <1>1, <2>3 DEF HotelService!ReadForBranch, HotelService!begin
  <2>4. CASE HotelService!AddBranch(h)
    BY <1>1, <2>4 DEF HotelService!AddBranch, HotelService!goto, HotelService!Away
  <2>5. CASE HotelService!ReadForUpdate(h) \/ HotelService!ReadForPublish(h)
    <3>1. CASE HotelService!ReadForUpdate(h)
      BY <1>1, <3>1 DEF HotelService!ReadForUpdate, HotelService!begin
    <3>2. CASE HotelService!ReadForPublish(h)
      BY <1>1, <3>2 DEF HotelService!ReadForPublish, HotelService!begin
    <3>3. QED
      BY <2>5, <3>1, <3>2
  <2>6. CASE \/ HotelService!Create(h) \/ HotelService!Update(h) \/ HotelService!Publish(h)
             \/ HotelService!Crash(h)
    BY <1>1, <2>6
       DEF HotelService!Create, HotelService!Update, HotelService!Publish, HotelService!Crash,
           HotelService!goto, HotelService!Away
  <2>7. QED
    BY <2>1, <2>2, <2>3, <2>4, <2>5, <2>6
       DEF HotelStep, HotelService!create, HotelService!update, HotelService!publish,
           HotelService!addBranch
<1>6. ASSUME NEW g \in Registrars
      PROVE  /\ registrar'[g].pc \in {"LOOK_UP", "CREATE"} =>
                   registrar'[g].slug.number \in (1 .. Cardinality(present') + 1) \cup numbers
             /\ registrar'[g].pc = "BRANCH" => registrar'[g].row \in HotelIds \X BranchCodes
  <2>1. /\ registrar'[g].pc \in {"LOOK_UP", "CREATE"} =>
              registrar'[g].slug.number \in (1 .. Cardinality(present) + 1) \cup numbers
        /\ registrar'[g].pc = "BRANCH" => registrar'[g].row \in HotelIds \X BranchCodes
    BY <1>2, <1>5
  <2>2. QED
    BY <1>4, <2>1
<1>7. hotelRequests' \in 0 .. MaxHotelRequests[quiet]
  BY <1>1, <1>2
<1>8. QED
  BY <1>3, <1>5, <1>6, <1>7

(* Every step of every service keeps what properties are.                  *)
LEMMA HotelTypesNext ==
    HotelTypes /\ quiet \in BOOLEAN /\ [GuestNext]_guestVars => HotelTypes'
<1> SUFFICES ASSUME HotelTypes, quiet \in BOOLEAN, [GuestNext]_guestVars PROVE HotelTypes'
  OBVIOUS
<1>1. HotelInv'
  BY HotelNext DEF HotelTypes
<1>2. CASE UNCHANGED <<hotelVars, quiet>>
  <2>1. present' = present
    BY <1>2 DEF hotelVars, present, HotelService!exists
  <2>2. QED
    BY <1>1, <1>2, <2>1 DEF HotelTypes, HotelBounds, hotelVars
<1>3. CASE quiet' = quiet /\ \E h \in Registrars : HotelStep(h)
  BY <1>1, <1>3, HotelBoundsKept DEF HotelTypes
<1>4. QED
  BY <1>2, <1>3
     DEF GuestNext, guestVars, auth, reviews, notifications, pricing, hotels, reports,
         auditing, lists, realtime, Next, ReviewService!Next, NotificationService!Next,
         PricingService!Next, HotelService!Next, HotelStep

(* Templates are of a template and a channel, and requests in bounds.      *)
NoticeBounds ==
    /\ template \in [NotificationService!Templates \X Channels -> BOOLEAN \cup {NoTemplate}]
    /\ noticeRequests \in 0 .. MaxNoticeRequests[quiet]

(* No template but those authored before, and no request.                  *)
LEMMA NoticeBoundsInit == GuestInit => NoticeBounds
<1> SUFFICES ASSUME GuestInit PROVE NoticeBounds
  OBVIOUS
<1>1. quiet \in BOOLEAN /\ MaxNoticeRequests[quiet] \in Nat /\ noticeRequests = 0
  BY RowsAssumption DEF GuestInit, NotificationService!Init
<1>2. template \in [NotificationService!Templates \X Channels -> BOOLEAN \cup {NoTemplate}]
  BY DEF GuestInit, NotificationService!Init
<1>3. QED
  BY <1>1, <1>2 DEF NoticeBounds

(* A step of notification-service keeps templates and requests in bounds.  *)
LEMMA NoticeBoundsKept ==
    ASSUME NoticeBounds, quiet \in BOOLEAN, NotificationService!Next
    PROVE  NoticeBounds'
<1>1. MaxNoticeRequests[quiet] \in Nat /\ quiet' = quiet
  BY RowsAssumption DEF NotificationService!Next
<1>2. noticeRequests' = noticeRequests
      \/ (noticeRequests < MaxNoticeRequests[quiet] /\ noticeRequests' = noticeRequests + 1)
  BY DEF NotificationService!Next, NotificationService!send, NotificationService!ReadPreferences,
         NotificationService!ReadTemplate, NotificationService!FindDuplicate,
         NotificationService!Insert, NotificationService!Withhold, NotificationService!Answer,
         NotificationService!Crash, NotificationService!UpsertTemplate,
         NotificationService!UpdatePreference, NotificationService!MarkRead,
         NotificationService!MarkAllRead, NotificationService!oneStatement,
         NotificationService!begin
<1>3. CASE NotificationService!UpsertTemplate
  <2>1. PICK which \in DOMAIN template, requires \in BOOLEAN :
          template' = [template EXCEPT ![which] = requires]
    BY <1>3 DEF NotificationService!UpsertTemplate
  <2>2. template' \in [NotificationService!Templates \X Channels -> BOOLEAN \cup {NoTemplate}]
    BY <2>1 DEF NoticeBounds
  <2>3. QED
    BY <1>1, <1>2, <2>2 DEF NoticeBounds
<1>4. CASE UNCHANGED template
  BY <1>1, <1>2, <1>4 DEF NoticeBounds
<1>5. QED
  BY <1>3, <1>4
     DEF NotificationService!Next, NotificationService!send, NotificationService!ReadPreferences,
         NotificationService!ReadTemplate, NotificationService!FindDuplicate,
         NotificationService!Insert, NotificationService!Withhold, NotificationService!Answer,
         NotificationService!Crash, NotificationService!UpdatePreference,
         NotificationService!MarkRead, NotificationService!MarkAllRead

(* Every step of every service keeps templates and requests in bounds.     *)
LEMMA NoticeBoundsNext ==
    NoticeBounds /\ quiet \in BOOLEAN /\ [GuestNext]_guestVars => NoticeBounds'
<1> SUFFICES ASSUME NoticeBounds, quiet \in BOOLEAN, [GuestNext]_guestVars PROVE NoticeBounds'
  OBVIOUS
<1>1. CASE UNCHANGED <<noticeVars, quiet>>
  BY <1>1 DEF NoticeBounds, noticeVars
<1>2. CASE NotificationService!Next
  BY <1>2, NoticeBoundsKept
<1>3. QED
  BY <1>1, <1>2
     DEF GuestNext, guestVars, auth, reviews, notifications, pricing, hotels, reports,
         auditing, lists, realtime, Next, ReviewService!Next, PricingService!Next,
         HotelService!Next

(* Only a booking that may redeem the code has redeemed it.                *)
Redeeming ==
    /\ redemption \subseteq Redeemers
    /\ \A h \in Pricers : pricer[h].pc = "REDEEM" => pricer[h].booking \in Redeemers
    /\ pricingRequests \in 0 .. MaxPricingRequests[quiet]

PriceTypes == PriceInv /\ Redeeming

(* No booking has redeemed the code at first.                              *)
LEMMA PriceTypesInit == GuestInit => PriceTypes
<1> SUFFICES ASSUME GuestInit PROVE PriceTypes
  OBVIOUS
<1>1. quiet \in BOOLEAN /\ MaxPricingRequests[quiet] \in Nat
  BY RowsAssumption DEF GuestInit, PricingService!Init
<1>2. Redeeming
  BY <1>1 DEF Redeeming, GuestInit, PricingService!Init, PricingService!Rests
<1>3. QED
  BY <1>2, PriceInit DEF PriceTypes

(* A step of pricing-service keeps redemptions to those that may.          *)
LEMMA RedeemingKept ==
    ASSUME PriceTypes, quiet' = quiet, quiet \in BOOLEAN, NEW h \in Pricers, PlanStep(h)
    PROVE  Redeeming'
<1>1. MaxPricingRequests[quiet] \in Nat /\ pricer = [g \in Pricers |-> pricer[g]]
  BY RowsAssumption DEF PriceTypes, PriceInv, PlanInv, PlanRows
<1>2. /\ \A g \in Pricers : g # h => pricer'[g] = pricer[g]
      /\ pricingRequests' = pricingRequests
         \/ (pricingRequests < MaxPricingRequests[quiet]
             /\ pricingRequests' = pricingRequests + 1)
  BY <1>1
     DEF PlanStep, PricingService!CreateRatePlan, PricingService!ReadForPublish,
         PricingService!Publish, PricingService!ReadForPromotion, PricingService!CreatePromotion,
         PricingService!ReadForRedeem, PricingService!Redeem, PricingService!Crash,
         PricingService!begin, PricingService!done
<1>3. CASE PricingService!ReadForRedeem(h)
  <2>1. PICK b \in Redeemers : pricer' = [pricer EXCEPT ![h] = [pc |-> "REDEEM", booking |-> b]]
    BY <1>3 DEF PricingService!ReadForRedeem, PricingService!begin
  <2>2. pricer'[h].booking \in Redeemers /\ redemption' = redemption
    BY <1>1, <1>3, <2>1 DEF PricingService!ReadForRedeem, PricingService!promotion
  <2>3. QED
    BY <1>1, <1>2, <2>2 DEF PriceTypes, Redeeming
<1>4. CASE ~ PricingService!ReadForRedeem(h)
  <2>1. pricer'[h].pc # "REDEEM"
    BY <1>1, <1>4
       DEF PlanStep, PricingService!CreateRatePlan, PricingService!ReadForPublish,
           PricingService!Publish, PricingService!ReadForPromotion,
           PricingService!CreatePromotion, PricingService!Redeem, PricingService!Crash,
           PricingService!begin, PricingService!done, PricingService!Rests
  <2>2. redemption' \subseteq Redeemers
    <3>1. CASE PricingService!Redeem(h)
      BY <3>1 DEF PricingService!Redeem, PriceTypes, Redeeming
    <3>2. CASE UNCHANGED redemption
      BY <3>2 DEF PriceTypes, Redeeming
    <3>3. QED
      BY <1>4, <3>1, <3>2
         DEF PlanStep, PricingService!CreateRatePlan, PricingService!ReadForPublish,
             PricingService!Publish, PricingService!ReadForPromotion,
             PricingService!CreatePromotion, PricingService!Crash, PricingService!promotion
  <2>3. QED
    BY <1>1, <1>2, <2>1, <2>2 DEF PriceTypes, Redeeming
<1>5. QED
  BY <1>3, <1>4

(* Every step of every service keeps redemptions to those that may.        *)
LEMMA PriceTypesNext ==
    PriceTypes /\ quiet \in BOOLEAN /\ [GuestNext]_guestVars => PriceTypes'
<1> SUFFICES ASSUME PriceTypes, quiet \in BOOLEAN, [GuestNext]_guestVars PROVE PriceTypes'
  OBVIOUS
<1>1. PriceInv'
  BY PriceNext DEF PriceTypes
<1>2. CASE UNCHANGED <<pricingVars, quiet>>
  BY <1>1, <1>2 DEF PriceTypes, Redeeming, pricingVars
<1>3. CASE quiet' = quiet /\ \E h \in Pricers : PlanStep(h)
  BY <1>1, <1>3, RedeemingKept DEF PriceTypes
<1>4. QED
  BY <1>2, <1>3
     DEF GuestNext, guestVars, auth, reviews, notifications, pricing, hotels, reports,
         auditing, lists, realtime, Next, ReviewService!Next, NotificationService!Next,
         PricingService!Next, HotelService!Next, PlanStep

(* Rooms are those of hotels that are heard and of users there are; a night*)
(* was reported or has no row; and a behaviour is quiet or it is not.      *)
Rooms == RealtimeGateway!hotelChannels \cup RealtimeGateway!userChannels

SocketTypes ==
    /\ SocketInv
    /\ joined \in [Sockets -> SUBSET Rooms]
    /\ night \in [Nights -> Performances \cup {NoNight}]
    /\ quiet \in BOOLEAN

(* No socket is open and no night reported at first.                       *)
LEMMA SocketTypesInit == GuestInit => SocketTypes
<1> SUFFICES ASSUME GuestInit PROVE SocketTypes
  OBVIOUS
<1>1. joined \in [Sockets -> SUBSET Rooms] /\ night \in [Nights -> Performances \cup {NoNight}]
  BY DEF GuestInit, RealtimeGateway!Init, ReportingService!Init
<1>2. quiet \in BOOLEAN
  BY DEF GuestInit, HotelService!Init
<1>3. QED
  BY <1>1, <1>2, SocketInit DEF SocketTypes

(* Every step of every service leaves sockets in rooms that there are.     *)
LEMMA SocketTypesNext == SocketTypes /\ [GuestNext]_guestVars => SocketTypes'
<1> SUFFICES ASSUME SocketTypes, [GuestNext]_guestVars PROVE SocketTypes'
  OBVIOUS
<1>1. SocketInv'
  BY SocketNext DEF SocketTypes
<1>2. quiet' = quiet
  BY DEF GuestNext, guestVars, auth, reviews, notifications, pricing, hotels, reports,
         auditing, lists, realtime, Next, ReviewService!Next, NotificationService!Next,
         PricingService!Next, HotelService!Next
<1>3. night' \in [Nights -> Performances \cup {NoNight}]
  <2>1. CASE ReportingService!Next
    BY <2>1
       DEF SocketTypes, ReportingService!Next, ReportingService!RecordDaily,
           ReportingService!Performance, ReportingService!ComparePrevious,
           ReportingService!Trend, ReportingService!Today, ReportingService!ChannelMix,
           ReportingService!HousekeepingPerformance
  <2>2. CASE UNCHANGED night
    BY <2>2 DEF SocketTypes
  <2>3. QED
    BY <2>1, <2>2
       DEF GuestNext, guestVars, reportVars, auth, reviews, notifications, pricing, hotels,
           reports, auditing, lists, realtime
<1>4. joined' \in [Sockets -> SUBSET Rooms]
  <2>1. CASE UNCHANGED joined
    BY <2>1 DEF SocketTypes, Rooms, RealtimeGateway!hotelChannels, RealtimeGateway!userChannels
  <2>2. ASSUME NEW s \in Sockets, RealtimeGateway!Verified(s)
        PROVE  joined' \in [Sockets -> SUBSET Rooms]
    <3>1. PICK p \in Principals :
            joined' = [joined EXCEPT ![s] = {RealtimeGateway!userChannel(p.id)}]
      BY <2>2 DEF RealtimeGateway!Verified
    <3>2. RealtimeGateway!userChannel(p.id) \in Rooms
      BY DEF Rooms, RealtimeGateway!userChannels
    <3>3. QED
      BY <3>1, <3>2 DEF SocketTypes
  <2>3. ASSUME NEW s \in Sockets, RealtimeGateway!Subscribe(s)
        PROVE  joined' \in [Sockets -> SUBSET Rooms]
    <3>1. PICK channel \in Rooms : joined' = [joined EXCEPT ![s] = @ \cup {channel}]
      BY <2>3 DEF RealtimeGateway!Subscribe, Rooms
    <3>2. QED
      BY <3>1 DEF SocketTypes
  <2>4. ASSUME NEW s \in Sockets, RealtimeGateway!Unsubscribe(s) \/ RealtimeGateway!Disconnect(s)
        PROVE  joined' \in [Sockets -> SUBSET Rooms]
    BY <2>4 DEF SocketTypes, RealtimeGateway!Unsubscribe, RealtimeGateway!Disconnect
  <2>5. CASE RealtimeGateway!Next
    BY <2>1, <2>2, <2>3, <2>4, <2>5
       DEF RealtimeGateway!Next, RealtimeGateway!Connect, RealtimeGateway!Broadcast,
           RealtimeGateway!Notify
  <2>6. QED
    BY <2>1, <2>5
       DEF GuestNext, guestVars, socketVars, auth, reviews, notifications, pricing, hotels,
           reports, auditing, lists, realtime
<1>5. Rooms' = Rooms
  BY DEF Rooms, RealtimeGateway!hotelChannels, RealtimeGateway!userChannels
<1>6. QED
  BY <1>1, <1>2, <1>3, <1>4, <1>5 DEF SocketTypes

GuestTypes ==
    SocketTypes /\ ReviewTypes /\ HotelTypes /\ PriceTypes /\ NoticeInv /\ NoticeBounds

(* The columns of the services' tables are as the invariants say.          *)
LEMMA GuestColumns == GuestTypes /\ TypeOK => GuestTypeOK
<1> SUFFICES ASSUME GuestTypes, TypeOK PROVE GuestTypeOK
  OBVIOUS
<1>1. ReviewService!TypeOK
  <2>1. /\ review \in [ReviewedStays -> ReviewService!ReviewRow \cup {NoReview}]
        /\ reviewOutbox \in [ReviewedStays -> Nat]
    BY DEF GuestTypes, ReviewTypes, ReviewInv, ReviewRows
  <2>2. ASSUME NEW s \in ReviewedStays, ReviewService!exists(s)
        PROVE  review[s].overallRating \in 10 .. 50
    <3>1. review[s] \in ReviewService!ReviewRow
      BY <2>1, <2>2 DEF ReviewService!exists
    <3>2. QED
      BY <3>1, OverallBetween DEF ReviewService!ReviewRow
  <2>3. AllStays = ReviewService!Cardinality(ReviewedStays)
    BY DEF AllStays, ReviewService!Cardinality, Cardinality
  <2>4. QED
    BY <2>1, <2>2, <2>3 DEF GuestTypes, ReviewTypes, ReviewBounds, ReviewService!TypeOK
<1>2. NotificationService!TypeOK
  BY DEF GuestTypes, NoticeInv, NoticeRows, NoticeBounds, NotificationService!TypeOK,
         NotificationService!Events
<1>3. PricingService!TypeOK
  BY DEF GuestTypes, PriceTypes, PriceInv, PlanInv, PlanRows, TermsMayBe, Redeeming,
         PricingService!TypeOK
<1>4. HotelService!TypeOK
  <2>1. \A i \in HotelIds : HotelService!exists(i) =>
           hotel[i].slug.number \in 1 .. Cardinality(HotelIds)
    BY DEF GuestTypes, HotelTypes, HotelBounds, present
  <2>2. HotelService!Cardinality(HotelIds) = Cardinality(HotelIds)
    BY DEF HotelService!Cardinality, Cardinality
  <2>3. QED
    BY <2>1, <2>2
       DEF GuestTypes, HotelTypes, HotelBounds, HotelInv, HotelRows, HotelService!TypeOK
<1>5. ReportingService!TypeOK
  BY DEF GuestTypes, SocketTypes, ReportingService!TypeOK
<1>6. RealtimeGateway!TypeOK
  <2>1. joined \in [Sockets -> SUBSET Rooms]
        /\ principal \in [Sockets -> Principals \cup {Nobody, Verifying}]
    BY DEF GuestTypes, SocketTypes, SocketInv
  <2>2. \A s \in Sockets : ~ RealtimeGateway!isVerified(s) => joined[s] = {}
    BY <2>1 DEF GuestTypes, SocketTypes, SocketInv, JoinedIsAllowed
  <2>3. QED
    BY <2>1, <2>2 DEF RealtimeGateway!TypeOK, Rooms
<1>7. QED
  BY <1>1, <1>2, <1>3, <1>4, <1>5, <1>6 DEF GuestTypeOK

(* Every column of the tables of the services around a stay stays in its   *)
(* set, however many rows, requests and users there are: a rating is of    *)
(* one to five and of stays that there are, the number that tells two      *)
(* hotels of one name apart never exceeds that of hotels, and a socket of  *)
(* nobody is in no room.                                                   *)
THEOREM GuestTypeHolds == GuestSpec => []GuestTypeOK
<1>1. GuestInit => GuestTypes
  BY SocketTypesInit, ReviewTypesInit, HotelTypesInit, PriceTypesInit, NoticeInit,
     NoticeBoundsInit DEF GuestTypes
<1>2. GuestTypes /\ [GuestNext]_guestVars => GuestTypes'
  <2>1. GuestTypes => quiet \in BOOLEAN
    BY DEF GuestTypes, SocketTypes
  <2>2. QED
    BY <2>1, SocketTypesNext, ReviewTypesNext, HotelTypesNext, PriceTypesNext, NoticeNext,
       NoticeBoundsNext DEF GuestTypes
<1>3. QED
  BY <1>1, <1>2, GuestColumns, AuthInGuestServices, TypeCorrect, PTL DEF GuestSpec
=============================================================================

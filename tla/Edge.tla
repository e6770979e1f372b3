-------------------------------- MODULE Edge --------------------------------
(***************************************************************************)
(* One process of the api-gateway and the services behind it, as far as a  *)
(* call decides who may enter: RouteRateLimitGuard, EdgeAuthGuard, the     *)
(* controller that forwards, the headers that carry the principal, and the *)
(* services' own guard. What a handler does is another module's business;  *)
(* here it runs or it does not.                                            *)
(*                                                                         *)
(* Every await ends a step. An answer may be given up before the service   *)
(* is through, and the service goes on. The circuit breaker of an upstream *)
(* may be open at any time (CircuitBreaker says when). Bodies, query       *)
(* strings and the global throttle in front of the guards are left out.    *)
(***************************************************************************)
EXTENDS Access

CONSTANTS
    Clients,   \* the addresses the gateway sees
    Calls,     \* calls that are under way at once
    Requests,  \* Requests[b]: what may be asked, alone or in a crowd
    MaxCalls,  \* MaxCalls[b]: bound on the calls of a behaviour
    Tokens, Holder, Genuine, ExpiresAt,
    NoToken,
    Deployed,  \* the upstreams that have a URL
    Scale,     \* the limits of the routing table are divided by it
    Window,
    Horizon,   \* Horizon[b]: bound on the clock
    MaxKeys    \* the number of counters at which stale ones are evicted

IsPath(path) == path \in Seq({path[i] : i \in DOMAIN path})

(* Paths are sequences of segments, and no scaled limit of the table is 0. *)
(* A token's claims are those auth-service signs: the id of one of its     *)
(* accounts, which is not empty as accessTokenClaimsSchema would let it    *)
(* be, and roles of Role.                                                  *)
ASSUME EdgeAssumption ==
    /\ \A b \in BOOLEAN : \A r \in Requests[b] :
          IsPath(r.path) /\ r.token \in Tokens \cup {NoToken}
    /\ NoToken \notin Tokens
    /\ Genuine \in [Tokens -> BOOLEAN]
    /\ ExpiresAt \in [Tokens -> Nat]
    /\ \A t \in Tokens :
          /\ Holder[t] = [id |-> Holder[t].id, roles |-> Holder[t].roles]
          /\ Holder[t].roles \subseteq Role
          /\ Holder[t] # NoPrincipal
    /\ Scale \in 1 .. 5
    /\ Window \in Nat \ {0}

VARIABLES
    now,
    hits,    \* the calls the guard remembers as admitted, [at, nth], per client and path
    call,    \* call[c]: the call, what became of it and how far the service is
    entered, \* every admission of the last window, per client and path
    made,
    crowd    \* whether many call at once

vars == <<now, hits, call, entered, made, crowd>>

Idle == [pc |-> "IDLE", answer |-> "NONE", ran |-> FALSE]

Init ==
    /\ crowd \in BOOLEAN
    /\ now = 0
    /\ hits = <<>>
    /\ call = [c \in Calls |-> Idle]
    /\ entered = <<>>
    /\ made = 0

-----------------------------------------------------------------------------
(* route-rate-limit.guard.ts *)

limitOf(path) == matchRoute(path).rateLimitPerMinute \div Scale

limited(path) == matchRoute(path).rateLimitPerMinute # 0

key(client, path) == [client |-> client, path |-> path]

(* Of the calls a log has of a client at a path, those the window holds.   *)
within(log, k) == IF k \in DOMAIN log THEN {a \in log[k] : now - a.at < Window} ELSE {}

oldest(calls) == CHOOSE at \in {a.at : a \in calls} : \A a \in calls : at <= a.at

with(log, k, calls) == [o \in DOMAIN log \cup {k} |-> IF o = k THEN calls ELSE log[o]]

(* Mutant: a counter is stale when one of its calls is.                    *)
stale_some(calls) == \E a \in calls : now - a.at >= Window

stale(calls) == \A a \in calls : now - a.at >= Window

evictStale(log) ==
    IF Cardinality(DOMAIN log) < MaxKeys THEN log
    ELSE [k \in {o \in DOMAIN log : ~ stale(log[o])} |-> log[k]]

tooMany(client, path) ==
    limited(path) /\ Cardinality(within(hits, key(client, path))) >= limitOf(path)

(* The time after which a refused call may be tried again. *)
retryAfter(client, path) == Window - (now - oldest(within(hits, key(client, path))))

remember(client, path) ==
    LET k == key(client, path)
        recent == within(hits, k)
        this == [at |-> now, nth |-> Cardinality(recent)]
    IN IF ~ limited(path) THEN UNCHANGED <<hits, entered>>
       ELSE IF tooMany(client, path) THEN hits' = with(hits, k, recent) /\ UNCHANGED entered
       ELSE /\ hits' = evictStale(with(hits, k, recent \cup {this}))
            /\ entered' = with(entered, k, within(entered, k) \cup {this})

-----------------------------------------------------------------------------
(* edge-auth.guard.ts, until it awaits the verification of the token.      *)

refused(code) == [pc |-> "OVER", answer |-> code, principal |-> NoPrincipal]

atTheDoor(request) ==
    LET r == matchRoute(request.path) IN
    CASE r = NoRoute -> refused("NOT_FOUND")
      [] r # NoRoute /\ request.token # NoToken ->
            [pc |-> "VERIFY", answer |-> "NONE", principal |-> NoPrincipal]
      [] r # NoRoute /\ request.token = NoToken /\ r.public ->
            [pc |-> "FORWARD", answer |-> "NONE", principal |-> NoPrincipal]
      [] r # NoRoute /\ request.token = NoToken /\ ~ r.public -> refused("UNAUTHENTICATED")

over(c) == call[c].pc \in {"IDLE", "OVER"}

Receive(c) ==
    /\ over(c)
    /\ made < MaxCalls[crowd]
    /\ made' = made + 1
    /\ \E client \in Clients, request \in Requests[crowd] :
          LET outcome == IF tooMany(client, request.path) THEN refused("RATE_LIMITED")
                         ELSE atTheDoor(request)
          IN /\ remember(client, request.path)
             /\ call' = [call EXCEPT ![c] =
                   [pc |-> outcome.pc, answer |-> outcome.answer, principal |-> outcome.principal,
                    ran |-> FALSE, client |-> client, request |-> request, at |-> now,
                    retryAfter |-> IF outcome.answer = "RATE_LIMITED"
                                   THEN retryAfter(client, request.path) ELSE 0]]
    /\ UNCHANGED <<now, crowd>>

moves(c, to) == call' = [call EXCEPT ![c].pc = to] /\ UNCHANGED <<now, hits, entered, made, crowd>>

answers(c, code, to) ==
    /\ call' = [call EXCEPT ![c].pc = to, ![c].answer = IF @ = "NONE" THEN code ELSE @]
    /\ UNCHANGED <<now, hits, entered, made, crowd>>

valid(token) == Genuine[token] /\ now < ExpiresAt[token]

(* verifyAsync and accessTokenClaimsSchema. A token that does not hold is  *)
(* no obstacle on a public route.                                          *)
Verify(c) ==
    /\ call[c].pc = "VERIFY"
    /\ LET token == call[c].request.token IN
       IF valid(token)
       THEN /\ call' = [call EXCEPT ![c].pc = "FORWARD", ![c].principal = Holder[token]]
            /\ UNCHANGED <<now, hits, entered, made, crowd>>
       ELSE IF matchRoute(call[c].request.path).public THEN moves(c, "FORWARD")
       ELSE answers(c, IF Genuine[token] THEN "TOKEN_EXPIRED" ELSE "UNAUTHENTICATED", "OVER")

-----------------------------------------------------------------------------
(* gateway.controller.ts, proxy.service.ts and upstream.registry.ts        *)

upstreamOf(c) == matchRoute(call[c].request.path).upstream

(* resolveUpstreamUrl, and the breaker of the upstream.                    *)
Forward(c) ==
    /\ call[c].pc = "FORWARD"
    /\ IF upstreamOf(c) \notin Deployed THEN answers(c, "UPSTREAM_UNAVAILABLE", "OVER")
       ELSE answers(c, "CIRCUIT_OPEN", "OVER") \/ moves(c, "SENT")

(* buildHeaders sets the principal's headers only when there is one, and   *)
(* ForwardedPrincipalMiddleware takes a complete set back for a principal. *)
forwarded(principal) ==
    [principal EXCEPT !.roles = @ \cap Role]

(* AllExceptionsFilter: the code under which an exception is answered. A   *)
(* service's own router throws a plain HTTP 404.                           *)
normalise(exception) ==
    CASE exception.kind = "DOMAIN" -> exception.code
      [] exception.kind = "ZOD" -> "VALIDATION_FAILED"
      [] exception.kind = "HTTP" ->
            CASE exception.status = 401 -> "UNAUTHENTICATED"
              [] exception.status = 403 -> "FORBIDDEN"
              [] exception.status = 404 -> "NOT_FOUND"
              [] exception.status = 409 -> "CONFLICT"
              [] exception.status = 429 -> "RATE_LIMITED"
              [] exception.status = 503 -> "UPSTREAM_UNAVAILABLE"
              [] exception.status = 504 -> "UPSTREAM_TIMEOUT"
              [] OTHER -> IF exception.status >= 500 THEN "INTERNAL_ERROR" ELSE "VALIDATION_FAILED"
      [] exception.kind = "OTHER" -> "INTERNAL_ERROR"

endpointAt(c) == endpointOf(upstreamOf(c), call[c].request.method, call[c].request.path)

(* The call reaches the service: the handler runs, or the guard refuses.   *)
Serve(c) ==
    /\ call[c].pc = "SENT"
    /\ LET e == endpointAt(c)
           decision == canActivate(e, forwarded(call[c].principal))
       IN IF e = NoEndpoint THEN answers(c, normalise([kind |-> "HTTP", status |-> 404]), "OVER")
          ELSE IF decision # "OK" THEN answers(c, normalise([kind |-> "DOMAIN", code |-> decision]), "OVER")
          ELSE /\ call' = [call EXCEPT ![c].pc = "RAN", ![c].ran = TRUE]
               /\ UNCHANGED <<now, hits, entered, made, crowd>>

(* The handler returns, or throws what it likes. *)
Return(c) ==
    /\ call[c].pc = "RAN"
    /\ \/ answers(c, "OK", "OVER")
       \/ \E exception \in {[kind |-> "DOMAIN", code |-> "CONFLICT"], [kind |-> "ZOD"], [kind |-> "OTHER"]} :
             answers(c, normalise(exception), "OVER")

(* The timer aborts the call; the service does not notice. *)
TimeOut(c) ==
    /\ call[c].pc \in {"SENT", "RAN"}
    /\ call[c].answer = "NONE"
    /\ answers(c, "UPSTREAM_TIMEOUT", call[c].pc)

(* The connection is refused, or breaks while the service is at work. *)
BreakOff(c) ==
    /\ call[c].pc \in {"SENT", "RAN"}
    /\ answers(c, "UPSTREAM_UNAVAILABLE", "OVER")

Tick ==
    /\ now < Horizon[crowd]
    /\ now' = now + 1
    /\ entered' = [k \in DOMAIN entered |-> {a \in entered[k] : now' - a.at < Window}]
    /\ UNCHANGED <<hits, call, made, crowd>>

admit(c) == Receive(c) \/ Verify(c)
proxy(c) == Forward(c) \/ TimeOut(c) \/ BreakOff(c)
serve(c) == Serve(c) \/ Return(c)

Next == (\E c \in Calls : admit(c) \/ proxy(c) \/ serve(c)) \/ Tick

Spec == Init /\ [][Next]_vars

-----------------------------------------------------------------------------
(* Properties. *)

decided(c) == call[c].pc # "IDLE" /\ (call[c].ran \/ call[c].answer # "NONE")

(* The controller of whatever service declares the endpoint.               *)
declared(request) ==
    LET some == {e \in {endpointOf(u, request.method, request.path) : u \in DOMAIN ControllerOf} :
                    e # NoEndpoint}
    IN IF some = {} THEN NoEndpoint ELSE CHOOSE e \in some : TRUE

mayDo(principal, e) ==
    /\ e.roles # {} => principal.roles \cap e.roles # {}
    /\ e.permissions \subseteq UNION {ROLE_PERMISSIONS[r] : r \in principal.roles}

held(c) ==
    /\ call[c].request.token # NoToken
    /\ Genuine[call[c].request.token]
    /\ call[c].at < ExpiresAt[call[c].request.token]

(* guards.ts: "a route is protected unless someone deliberately opens it"; *)
(* route-table.ts: "declaration order does not silently decide security".  *)
(* Through the routing table, the gateway's guard, the headers and the     *)
(* service's guard together, a handler runs for whom its controller        *)
(* declares it for and for nobody else: on a protected endpoint it is the  *)
(* holder of the call's token, who brought it in time. A declared endpoint *)
(* is found, a public one asks nobody for a token, and who may do it all   *)
(* is never told that he may not. What the doors refuse has not run.       *)
EntryAsDeclared ==
    \A c \in Calls : decided(c) =>
        LET e == declared(call[c].request)
            principal == call[c].principal
            may == held(c) /\ mayDo(Holder[call[c].request.token], e)
        IN /\ call[c].ran => e # NoEndpoint /\ (e.public \/ may)
           /\ call[c].ran /\ ~ e.public => principal = Holder[call[c].request.token]
           /\ call[c].answer = "NOT_FOUND" => e = NoEndpoint \/ call[c].ran
           /\ call[c].answer \in {"UNAUTHENTICATED", "TOKEN_EXPIRED", "FORBIDDEN"} =>
                 /\ ~ call[c].ran
                 /\ e # NoEndpoint => ~ e.public
           /\ call[c].answer = "UNAUTHENTICATED" /\ call[c].request.token # NoToken =>
                 ~ held(c) \/ principal = NoPrincipal
           /\ call[c].answer = "FORBIDDEN" /\ e # NoEndpoint => held(c) /\ ~ may
           /\ call[c].answer \in {"RATE_LIMITED", "CIRCUIT_OPEN"} => ~ call[c].ran

(* route-rate-limit.guard.ts: "this guard is what makes that statement     *)
(* true". In no window are more calls of one client admitted to a path     *)
(* than its route allows; a call is refused only when that many were, and  *)
(* it is told the moment at which the oldest of them stops counting.       *)
AdmittedWithinLimit ==
    [][/\ entered' # entered => \A k \in DOMAIN entered' : Cardinality(entered'[k]) <= limitOf(k.path)
       /\ \A c \in Calls :
             call'[c] # call[c] /\ call'[c].answer = "RATE_LIMITED" =>
                LET inside == within(entered, key(call'[c].client, call'[c].request.path)) IN
                /\ Cardinality(inside) = limitOf(call'[c].request.path)
                /\ now + call'[c].retryAfter = oldest(inside) + Window]_vars
=============================================================================

----------------------------- MODULE RequestChain -----------------------------
(***************************************************************************)
(* A request on its way through the handlers gin runs for it: the global   *)
(* middlewares of SetupRouter (router.go) in their order, the rate limiter *)
(* among them, AuthMiddleware on protected routes, and the handlers of     *)
(* auth and users as far as tokens are concerned. A request goes down the  *)
(* chain until a middleware aborts it or the handler has returned, and     *)
(* back up through what middlewares do after c.Next(). A panic goes up     *)
(* until Recovery catches it.                                              *)
(***************************************************************************)
EXTENDS RateLimiter, Sequences

CONSTANTS
    Users,          \* BOUND: user ids
    None,           \* no token, no origin, no user
    Listed, Other,  \* an origin of CORS_ALLOWED_ORIGINS, and one that is not
    TokenLife       \* JWT_EXPIRY_HOURS, in ticks

ASSUME ChainAssumption == None \notin Users /\ TokenLife \in Nat

VARIABLES
    config,     \* CORS for all, with credentials; whether requests are limited
    phase,      \* "idle", "down", "up", "panic" or "done", for each goroutine
    at,         \* the position in the chain
    req,        \* what the client sent: [route, origin, token]
    status,     \* the status of the response, 0 before there is one
    header,     \* the response headers set so far
    logged,     \* the status in the log line of Logger, 0 before it
    user,       \* c.Get("userID"), or None
    accounts,   \* the users that exist
    issued,     \* the tokens signed with JWT_SECRET
    lastLogin   \* history: when Login last issued a token to a user, or -1

local     == <<phase, at, req, status, header, logged, user>>
chainvars == <<vars, config, local, accounts, issued, lastLogin>>
auths     == <<config, accounts, issued, lastLogin>>
limiter   == <<limits, held, heldAt, ip, sweep, window>>

-----------------------------------------------------------------------------
(* Routes and chains. *)

Protected == {"me", "users"}
Routes    == Protected \union {"login", "health", "missing", "preflight"}

\* [mutant of Global] the limiter before CORS: its 429 cannot be read by a
\* script of an allowed origin, and preflights are limited too.
GlobalLimiterFirst ==
    <<"RequestID", "Logger", "Recovery", "SecurityHeaders", "RateLimiter", "CORS">>

Global == <<"RequestID", "Logger", "Recovery", "SecurityHeaders", "CORS", "RateLimiter">>

\* gin runs the global middlewares for routes it does not know, too.
ChainOf(route) ==
    Global \o IF route \in Protected THEN <<"Auth", "Handler">> ELSE <<"Handler">>

Here(r) == ChainOf(req[r].route)[at[r]]
On(r, middleware) == phase[r] = "down" /\ Here(r) = middleware

Next_(r) == at' = [at EXCEPT ![r] = @ + 1] /\ UNCHANGED phase
Abort(r) == phase' = [phase EXCEPT ![r] = "up"] /\ UNCHANGED at

Answer(r, code) == status' = [status EXCEPT ![r] = code]
SetHeaders(r, hs) == header' = [header EXCEPT ![r] = @ \union hs]

NoRequest == [route |-> "health", origin |-> None, token |-> None]

\* The response headers that matter; "security" and "cors" stand for several.
Headers == {"X-Request-ID", "security", "cors", "origin *", "origin echoed",
            "credentials"}

Token == [user : Users, exp : Nat]

ChainInit ==
    /\ Init
    /\ config \in [all : BOOLEAN, credentials : BOOLEAN, limited : BOOLEAN]
    /\ phase = [r \in Requests |-> "idle"]
    /\ at = [r \in Requests |-> 1]
    /\ req = [r \in Requests |-> NoRequest]
    /\ status = [r \in Requests |-> 0]
    /\ header = [r \in Requests |-> {}]
    /\ logged = [r \in Requests |-> 0]
    /\ user = [r \in Requests |-> None]
    /\ accounts = Users
    /\ issued = {}
    /\ lastLogin = [u \in Users |-> -1]

-----------------------------------------------------------------------------
(* Down. *)

\* A client sends a request, with or without a token it got from Login. None
\* also stands for a header or a signature that does not validate.
Arrive(r, route, origin, token) ==
    /\ phase[r] = "idle"
    /\ phase' = [phase EXCEPT ![r] = "down"]
    /\ at' = [at EXCEPT ![r] = 1]
    /\ req' = [req EXCEPT ![r] = [route |-> route, origin |-> origin, token |-> token]]
    /\ UNCHANGED <<vars, auths, status, header, logged, user>>

\* RequestID and SecurityHeaders set headers; Logger and Recovery go on.
PassThrough(r) ==
    /\ phase[r] = "down"
    /\ \/ Here(r) = "RequestID" /\ SetHeaders(r, {"X-Request-ID"})
       \/ Here(r) = "SecurityHeaders" /\ SetHeaders(r, {"security"})
       \/ Here(r) \in {"Logger", "Recovery"} /\ UNCHANGED header
    /\ Next_(r)
    /\ UNCHANGED <<vars, auths, req, status, logged, user>>

\* Access-Control-Allow-Origin for the origin of a request.
AllowOrigin(origin) ==
    IF config.all
    THEN IF ~config.credentials THEN {"origin *"}
         ELSE IF origin # None THEN {"origin echoed"} ELSE {}
    ELSE IF origin = Listed THEN {"origin echoed"} ELSE {}

\* A preflight is answered here.
SetCORS(r) ==
    /\ On(r, "CORS")
    /\ SetHeaders(r, {"cors"} \union AllowOrigin(req[r].origin)
                        \union IF config.credentials THEN {"credentials"} ELSE {})
    /\ IF req[r].route = "preflight" THEN Answer(r, 204) /\ Abort(r)
                                     ELSE Next_(r) /\ UNCHANGED status
    /\ UNCHANGED <<vars, auths, req, logged, user>>

\* Handler of the rate limiter, if it is enabled: getLimiter, then Allow.
SkipLimiter(r) ==
    /\ On(r, "RateLimiter") /\ ~config.limited
    /\ Next_(r)
    /\ UNCHANGED <<vars, auths, req, status, header, logged, user>>

AskLimiter(r) ==
    /\ On(r, "RateLimiter") /\ config.limited
    /\ \E a \in Ips : GetLimiter(r, a)
    /\ UNCHANGED <<auths, local>>

\* [mutant of Limit] c.Abort is forgotten: gin goes on with the next handler.
LimitGoesOn(r) ==
    /\ On(r, "RateLimiter")
    /\ \/ Admit(r) /\ UNCHANGED status
       \/ Reject(r) /\ Answer(r, 429)
    /\ Next_(r)
    /\ UNCHANGED <<auths, req, header, logged, user>>

Limit(r) ==
    /\ On(r, "RateLimiter")
    /\ \/ Admit(r) /\ Next_(r) /\ UNCHANGED status
       \/ Reject(r) /\ Answer(r, 429) /\ Abort(r)
    /\ UNCHANGED <<auths, req, header, logged, user>>

\* [mutant of Valid] the expiry is not verified.
ValidForever(token) == token \in issued

\* ValidateToken: signed with the secret and not expired.
Valid(token) == token \in issued /\ now < token.exp

\* AuthMiddleware; the claims go into the context of the request.
Authenticate(r) ==
    /\ On(r, "Auth")
    /\ IF Valid(req[r].token)
       THEN /\ user' = [user EXCEPT ![r] = req[r].token.user]
            /\ Next_(r)
            /\ UNCHANGED status
       ELSE Answer(r, 401) /\ Abort(r) /\ UNCHANGED user
    /\ UNCHANGED <<vars, auths, req, header, logged>>

-----------------------------------------------------------------------------
(* Handlers. They answer as their last act. *)

Finish(r, code) == Answer(r, code) /\ Abort(r)

\* Login: a token for a user whose password matches, 401 otherwise.
Login(r) ==
    /\ On(r, "Handler") /\ req[r].route = "login"
    /\ \/ \E u \in accounts :
             /\ issued' = issued \union {[user |-> u, exp |-> now + TokenLife]}
             /\ lastLogin' = [lastLogin EXCEPT ![u] = now]
             /\ Finish(r, 200)
       \/ Finish(r, 401) /\ UNCHANGED <<issued, lastLogin>>
    /\ UNCHANGED <<vars, config, accounts, req, header, logged, user>>

\* GetProfile reads the user of the context: from the cache, where a deleted one
\* may still be, or from the database, which may fail.
GetProfile(r) ==
    /\ On(r, "Handler") /\ req[r].route = "me"
    /\ \E code \in IF user[r] = None THEN {401}
                   ELSE {200, 500} \union IF user[r] \in accounts THEN {} ELSE {404} :
          Finish(r, code)
    /\ UNCHANGED <<vars, auths, req, header, logged, user>>

\* The routes of users: any user who is logged in may delete any other. The
\* answer comes after the commit, or is an error.
DeleteAccount(r) ==
    /\ On(r, "Handler") /\ req[r].route = "users"
    /\ \/ \E u \in Users :
             /\ accounts' = accounts \ {u}
             /\ Finish(r, IF u \in accounts THEN 200 ELSE 404)
       \/ Finish(r, 500) /\ UNCHANGED accounts
    /\ UNCHANGED <<vars, config, issued, lastLogin, req, header, logged, user>>

\* Health, logout and documents answer 200 or 503, unknown routes 404.
AnswerPlainly(r) ==
    /\ On(r, "Handler")
    /\ \/ req[r].route = "health" /\ \E code \in {200, 503} : Finish(r, code)
       \/ req[r].route = "missing" /\ Finish(r, 404)
    /\ UNCHANGED <<vars, auths, req, header, logged, user>>

\* A handler panics. Every handler of the router answers in its last statement,
\* so nothing of it is left to panic once the answer is written.
Panic(r) ==
    /\ On(r, "Handler")
    /\ phase' = [phase EXCEPT ![r] = "panic"]
    /\ UNCHANGED <<vars, auths, at, req, status, header, logged, user>>

-----------------------------------------------------------------------------
(* Up: what is left of each middleware the request has passed. *)

Unwound(r) ==
    IF at[r] > 1 THEN at' = [at EXCEPT ![r] = @ - 1] /\ UNCHANGED phase
    ELSE phase' = [phase EXCEPT ![r] = "done"] /\ UNCHANGED at

\* c.Next() returned: Logger writes its line.
GoUp(r) ==
    /\ phase[r] = "up"
    /\ Unwound(r)
    /\ logged' = IF Here(r) = "Logger" THEN [logged EXCEPT ![r] = status[r]] ELSE logged
    /\ UNCHANGED <<vars, auths, req, status, header, user>>

\* [mutant of PanicUp] the recovered request goes down the chain once more.
PanicUpTryAgain(r) ==
    /\ phase[r] = "panic"
    /\ IF Here(r) = "Recovery"
       THEN phase' = [phase EXCEPT ![r] = "down"] /\ UNCHANGED <<at, status>>
       ELSE Unwound(r) /\ UNCHANGED status
    /\ UNCHANGED <<vars, auths, req, header, logged, user>>

\* A panic: the deferred function of Recovery answers 500, the others have none.
PanicUp(r) ==
    /\ phase[r] = "panic"
    /\ IF Here(r) = "Recovery"
       THEN Answer(r, 500) /\ Abort(r)
       ELSE Unwound(r) /\ UNCHANGED status
    /\ UNCHANGED <<vars, auths, req, header, logged, user>>

\* The client has its answer, and the goroutine serves the next request.
Forget(r) ==
    /\ phase[r] = "done"
    /\ phase' = [phase EXCEPT ![r] = "idle"]
    /\ req' = [req EXCEPT ![r] = NoRequest]
    /\ status' = [status EXCEPT ![r] = 0]
    /\ header' = [header EXCEPT ![r] = {}]
    /\ logged' = [logged EXCEPT ![r] = 0]
    /\ user' = [user EXCEPT ![r] = None]
    /\ UNCHANGED <<vars, auths, at>>

-----------------------------------------------------------------------------
Serve(r) ==
    \/ PassThrough(r) \/ SetCORS(r)
    \/ SkipLimiter(r) \/ AskLimiter(r) \/ Limit(r) \/ Authenticate(r)
    \/ Login(r) \/ GetProfile(r) \/ DeleteAccount(r) \/ AnswerPlainly(r) \/ Panic(r)
    \/ GoUp(r) \/ PanicUp(r)

ChainNext ==
    \/ \E r \in Requests :
          \/ \E route \in Routes, origin \in {None, Listed, Other},
                token \in issued \union {None} : Arrive(r, route, origin, token)
          \/ Serve(r) \/ Forget(r)
    \/ (Cleanup \/ Tick \/ OpenWindow) /\ UNCHANGED <<auths, local>>

ChainSpec == ChainInit /\ [][ChainNext]_chainvars

\* The goroutine of a request is scheduled. Nobody has to send one.
ChainFairness == \A r \in Requests : WF_chainvars(Serve(r))

ChainFairSpec == ChainSpec /\ ChainFairness

-----------------------------------------------------------------------------
(* Properties. *)

\* The state is well-formed, that of the limiter included.
ChainTypeOK ==
    /\ TypeOK
    /\ config \in [all : BOOLEAN, credentials : BOOLEAN, limited : BOOLEAN]
    /\ phase \in [Requests -> {"idle", "down", "up", "panic", "done"}]
    /\ at \in [Requests -> Nat]
    /\ \A r \in Requests : at[r] \in 1..Len(ChainOf(req[r].route))
    /\ req \in [Requests -> [route : Routes, origin : {None, Listed, Other},
                             token : Token \union {None}]]
    /\ status \in [Requests -> {0, 200, 204, 401, 404, 429, 500, 503}]
    /\ header \in [Requests -> SUBSET Headers]
    /\ logged \in [Requests -> {0, 200, 204, 401, 404, 429, 500, 503}]
    /\ user \in [Requests -> Users \union {None}]
    /\ accounts \subseteq Users /\ issued \subseteq Token

Done(r) == phase[r] = "done"

\* Whoever ends a request, a middleware that aborts it, a handler or a panic,
\* the client gets one answer, and the log says what it was told; the answer has
\* the request id, the security headers and the CORS headers a browser needs to
\* show it ("browsers require explicit origin when credentials are included").
AnswersComplete ==
    \A r \in Requests : Done(r) =>
        /\ status[r] # 0 /\ logged[r] = status[r]
        /\ {"X-Request-ID", "security", "cors"} \subseteq header[r]
        /\ ~({"origin *", "credentials"} \subseteq header[r])
        /\ req[r].route = "preflight" => status[r] = 204

\* Who ends a request ends it for all: no middleware or handler further down runs
\* and answers again, Recovery does not answer over an answer, and what the client
\* was told stays as it is until the request is over.
AnsweredOnce ==
    [][\A r \in Requests : status[r] # 0 /\ ~Done(r)
          => status'[r] = status[r] /\ phase'[r] \in {"up", "done"}]_chainvars

\* A protected handler begins only for a user who logged in less than a token's
\* life ago, on whichever request, and it begins as that user.
ProtectedNeedsLogin ==
    [][\A r \in Requests :
          On(r, "Handler")' /\ at'[r] # at[r] /\ req[r].route \in Protected =>
              /\ user'[r] # None
              /\ lastLogin[user'[r]] # -1
              /\ now < lastLogin[user'[r]] + TokenLife]_chainvars

\* Every request that arrived is answered, whatever panics, is limited or
\* stalls on the way.
EveryRequestAnswered ==
    \A r \in Requests : phase[r] = "down" ~> phase[r] = "done"

-----------------------------------------------------------------------------
(* Why AnswersComplete, AnsweredOnce and ProtectedNeedsLogin hold.            *)

Has(r, name) == name \in header[r]
Complete(r)  == Has(r, "X-Request-ID") /\ Has(r, "security") /\ Has(r, "cors")
Preflight(r) == req[r].route = "preflight"

\* The headers of CORS follow the configuration.
Honest(r) == /\ Has(r, "credentials") => config.credentials
             /\ Has(r, "origin *") => ~config.credentials

\* What a request has by the time it is at a place of its chain: on its way down
\* what it has passed and no answer, on its way up an answer, and after Logger the
\* log line.
OnItsWay(r) ==
    /\ phase[r] = "down" =>
          /\ at[r] > 1 => Has(r, "X-Request-ID")
          /\ at[r] > 4 => Has(r, "security")
          /\ at[r] > 5 => Has(r, "cors") /\ ~Preflight(r)
    /\ phase[r] \in {"idle", "down", "panic"} => status[r] = 0
    /\ phase[r] = "panic" => at[r] > 2 /\ Complete(r) /\ ~Preflight(r)
    /\ phase[r] = "up" \/ phase[r] = "done" =>
          /\ Complete(r) /\ status[r] # 0
          /\ Preflight(r) => status[r] = 204
          /\ at[r] = 1 => logged[r] = status[r]
    /\ phase[r] = "done" => at[r] = 1
    /\ Honest(r)

\* A token comes from a login, and the last login of its user outlives it.
TokensFromLogins ==
    /\ lastLogin \in [Users -> {-1} \union 0..now]
    /\ \A token \in issued : /\ lastLogin[token.user] # -1
                             /\ token.exp =< lastLogin[token.user] + TokenLife
=============================================================================

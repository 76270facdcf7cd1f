------------------------- MODULE RequestChainProofs -------------------------
(***************************************************************************)
(* Proofs about RequestChain, for any number of requests, addresses, users *)
(* and tokens: its types, what every answer has, who reaches a protected   *)
(* handler, and that the limiter in the chain keeps its bound.             *)
(***************************************************************************)
EXTENDS RequestChain, RateLimiterProofs

USE ChainAssumption

-----------------------------------------------------------------------------
(* The limiter in the chain.                                                  *)

\* A step of the chain is a step of the limiter or leaves it alone.
LEMMA LimiterStep == [ChainNext]_chainvars => [Next]_vars
<1>1. \A r \in Requests : PassThrough(r) \/ SetCORS(r) \/ SkipLimiter(r) \/ Authenticate(r)
                          => UNCHANGED vars
  BY DEF PassThrough, SetCORS, SkipLimiter, Authenticate
<1>2. \A r \in Requests : Login(r) \/ GetProfile(r) \/ DeleteAccount(r) \/ AnswerPlainly(r)
                          \/ Panic(r) => UNCHANGED vars
  BY DEF Login, GetProfile, DeleteAccount, AnswerPlainly, Panic
<1>3. \A r \in Requests : GoUp(r) \/ PanicUp(r) \/ Forget(r) => UNCHANGED vars
  BY DEF GoUp, PanicUp, Forget
<1>4. \A r, route, origin, token : Arrive(r, route, origin, token) => UNCHANGED vars
  BY DEF Arrive
<1>5. \A r \in Requests : AskLimiter(r) \/ Limit(r) => Next
  BY DEF AskLimiter, Limit, Next
<1>6. Cleanup \/ Tick \/ OpenWindow => Next
  BY DEF Next
<1>7. UNCHANGED chainvars => UNCHANGED vars
  BY DEF chainvars
<1> QED
  BY <1>1, <1>2, <1>3, <1>4, <1>5, <1>6, <1>7 DEF ChainNext, Serve

\* In the chain the limiter behaves as it does alone.
LEMMA LimiterRuns == ChainSpec => Spec
<1>1. ChainInit => Init
  BY DEF ChainInit
<1> QED
  BY <1>1, LimiterStep, PTL DEF ChainSpec, Spec

\* The limiter keeps its bound behind the middlewares that precede it, whatever
\* the requests that pass it do.
THEOREM ChainRateLimited == ChainSpec => []RateBound
BY LimiterRuns, RateLimited, PTL

-----------------------------------------------------------------------------
(* Places in the chain.                                                       *)

Phases == {"idle", "down", "up", "panic", "done"}
Codes  == {0, 200, 204, 401, 404, 429, 500, 503}

\* The phases and status codes that steps assign.
LEMMA Values ==
    /\ "idle" \in Phases /\ "down" \in Phases /\ "up" \in Phases
    /\ "panic" \in Phases /\ "done" \in Phases
    /\ 0 \in Codes /\ 200 \in Codes /\ 204 \in Codes /\ 401 \in Codes
    /\ 404 \in Codes /\ 429 \in Codes /\ 500 \in Codes /\ 503 \in Codes
BY DEF Phases, Codes

LastPlace(route) == IF route \in Protected THEN 8 ELSE 7

\* The order of the middlewares, as router.go has it.
LEMMA ChainValues ==
    ASSUME NEW route \in Routes
    PROVE  /\ Len(ChainOf(route)) = LastPlace(route)
           /\ ChainOf(route)[1] = "RequestID" /\ ChainOf(route)[2] = "Logger"
           /\ ChainOf(route)[3] = "Recovery" /\ ChainOf(route)[4] = "SecurityHeaders"
           /\ ChainOf(route)[5] = "CORS" /\ ChainOf(route)[6] = "RateLimiter"
           /\ ChainOf(route)[7] = IF route \in Protected THEN "Auth" ELSE "Handler"
           /\ route \in Protected => ChainOf(route)[8] = "Handler"
BY DEF ChainOf, Global, LastPlace

\* ChainTypeOK in parts, without the limiter and the length of the chain.
ConfigOK == config \in [all : BOOLEAN, credentials : BOOLEAN, limited : BOOLEAN]
PhaseOK  == phase \in [Requests -> Phases]
AtOK     == at \in [Requests -> Nat]
ReqOK    == req \in [Requests -> [route : Routes, origin : {None, Listed, Other},
                                  token : Token \union {None}]]
StatusOK == status \in [Requests -> Codes]
HeaderOK == header \in [Requests -> SUBSET Headers]
LoggedOK == logged \in [Requests -> Codes]
UserOK   == user \in [Requests -> Users \union {None}]
IssuedOK == issued \subseteq Token
HoldersOK == accounts \subseteq Users

Typed == /\ ConfigOK /\ PhaseOK /\ AtOK /\ ReqOK /\ StatusOK
         /\ HeaderOK /\ LoggedOK /\ UserOK /\ IssuedOK /\ HoldersOK

InChain(r) == at[r] \in 1..LastPlace(req[r].route)

\* ChainTypeOK from its parts.
LEMMA TypeParts ==
    ASSUME TypeOK, Typed, \A r \in Requests : InChain(r)
    PROVE  ChainTypeOK
<1> USE DEF Typed
<1>1. \A r \in Requests : req[r].route \in Routes
  BY DEF ReqOK
<1>2. \A r \in Requests : at[r] \in 1..Len(ChainOf(req[r].route))
  BY <1>1, ChainValues DEF InChain
<1>3. phase \in [Requests -> {"idle", "down", "up", "panic", "done"}]
  BY DEF PhaseOK, Phases
<1>4. /\ status \in [Requests -> {0, 200, 204, 401, 404, 429, 500, 503}]
      /\ logged \in [Requests -> {0, 200, 204, 401, 404, 429, 500, 503}]
  BY DEF StatusOK, LoggedOK, Codes
<1> QED
  BY <1>2, <1>3, <1>4
     DEF ChainTypeOK, ConfigOK, AtOK, ReqOK, HeaderOK, UserOK, IssuedOK, HoldersOK

\* Which middleware a request is in, by its place in the chain.
LEMMA Places ==
    ASSUME NEW r \in Requests, ReqOK, InChain(r)
    PROVE  /\ Here(r) = "RequestID" <=> at[r] = 1
           /\ Here(r) = "Logger" <=> at[r] = 2
           /\ Here(r) = "Recovery" <=> at[r] = 3
           /\ Here(r) = "SecurityHeaders" <=> at[r] = 4
           /\ Here(r) = "CORS" <=> at[r] = 5
           /\ Here(r) = "RateLimiter" <=> at[r] = 6
           /\ Here(r) = "Auth" <=> at[r] = 7 /\ req[r].route \in Protected
           /\ Here(r) = "Handler" <=> at[r] = LastPlace(req[r].route)
<1>1. req[r].route \in Routes
  BY DEF ReqOK
<1>2. at[r] \in {1, 2, 3, 4, 5, 6, 7, 8} /\ (req[r].route \notin Protected => at[r] # 8)
  BY DEF InChain, LastPlace
<1> QED
  BY <1>1, <1>2, ChainValues DEF Here, LastPlace

\* The place of a request at the end of its chain, and while it is in it.
LEMMA Ends ==
    ASSUME NEW r \in Requests, AtOK, InChain(r)
    PROVE  /\ at[r] \in Nat /\ 1 =< at[r] /\ at[r] =< LastPlace(req[r].route)
           /\ LastPlace(req[r].route) \in {7, 8}
           /\ LastPlace(req[r].route) = 8 <=> req[r].route \in Protected
BY DEF AtOK, InChain, LastPlace

-----------------------------------------------------------------------------
(* Types.                                                                     *)

\* What actions are built from keeps the types of what it changes.
LEMMA Moves ==
    ASSUME NEW r \in Requests, PhaseOK, AtOK,
           Next_(r) \/ Abort(r) \/ Unwound(r)
    PROVE  PhaseOK' /\ AtOK'
<1>1. CASE Next_(r)
  BY <1>1 DEF Next_, PhaseOK, AtOK
<1>2. CASE Abort(r)
  BY <1>2, Values DEF Abort, PhaseOK, AtOK
<1>3. CASE Unwound(r)
  BY <1>3, Values DEF Unwound, PhaseOK, AtOK
<1> QED
  BY <1>1, <1>2, <1>3

\* An answer keeps the status codes typed.
LEMMA Answers ==
    ASSUME NEW r \in Requests, StatusOK, NEW code \in Codes, Answer(r, code)
    PROVE  StatusOK'
BY DEF StatusOK, Answer

\* Setting headers keeps them typed.
LEMMA HeadersSet ==
    ASSUME NEW r \in Requests, HeaderOK, NEW hs \in SUBSET Headers, SetHeaders(r, hs)
    PROVE  HeaderOK'
BY DEF HeaderOK, SetHeaders

\* What a step leaves alone stays typed.
LEMMA Kept ==
    /\ ConfigOK /\ UNCHANGED config => ConfigOK'
    /\ PhaseOK /\ UNCHANGED phase => PhaseOK'
    /\ AtOK /\ UNCHANGED at => AtOK'
    /\ ReqOK /\ UNCHANGED req => ReqOK'
    /\ StatusOK /\ UNCHANGED status => StatusOK'
    /\ HeaderOK /\ UNCHANGED header => HeaderOK'
    /\ LoggedOK /\ UNCHANGED logged => LoggedOK'
    /\ UserOK /\ UNCHANGED user => UserOK'
    /\ IssuedOK /\ UNCHANGED issued => IssuedOK'
    /\ HoldersOK /\ UNCHANGED accounts => HoldersOK'
BY DEF ConfigOK, PhaseOK, AtOK, ReqOK, StatusOK, HeaderOK, LoggedOK, UserOK, IssuedOK,
       HoldersOK

\* The steps down the chain keep the types.
LEMMA TypedDown ==
    ASSUME Typed, NEW r \in Requests,
           \/ PassThrough(r) \/ SetCORS(r) \/ SkipLimiter(r) \/ AskLimiter(r) \/ Limit(r)
           \/ Authenticate(r)
    PROVE  Typed'
<1> USE Kept, Moves, Values DEF Typed, auths
<1>1. CASE PassThrough(r)
  <2>1. {"X-Request-ID"} \in SUBSET Headers /\ {"security"} \in SUBSET Headers
    BY DEF Headers
  <2>2. HeaderOK'
    BY <1>1, <2>1, HeadersSet DEF PassThrough
  <2> QED
    BY <1>1, <2>2 DEF PassThrough
<1>2. CASE SetCORS(r)
  <2>1. {"cors"} \union AllowOrigin(req[r].origin)
          \union (IF config.credentials THEN {"credentials"} ELSE {}) \in SUBSET Headers
    BY DEF Headers, AllowOrigin
  <2>2. HeaderOK'
    BY <1>2, <2>1, HeadersSet DEF SetCORS
  <2>3. StatusOK'
    BY <1>2, Answers DEF SetCORS
  <2> QED
    BY <1>2, <2>2, <2>3 DEF SetCORS
<1>3. CASE SkipLimiter(r) \/ AskLimiter(r)
  BY <1>3 DEF SkipLimiter, AskLimiter, local
<1>4. CASE Limit(r)
  BY <1>4, Answers DEF Limit
<1>5. CASE Authenticate(r)
  <2>1. UserOK'
    BY <1>5 DEF Authenticate, Valid, UserOK, IssuedOK, Token
  <2> QED
    BY <1>5, <2>1, Answers DEF Authenticate
<1> QED
  BY <1>1, <1>2, <1>3, <1>4, <1>5

\* The handlers keep the types.
LEMMA TypedHandler ==
    ASSUME TypeOK, Typed, NEW r \in Requests,
           Login(r) \/ GetProfile(r) \/ DeleteAccount(r) \/ AnswerPlainly(r) \/ Panic(r)
    PROVE  Typed'
<1> USE Kept, Moves, Answers, Values DEF Typed, auths
<1>1. CASE Login(r)
  <2>1. now + TokenLife \in Nat
    BY DEF TypeOK
  <2>2. IssuedOK'
    BY <1>1, <2>1 DEF Login, IssuedOK, HoldersOK, Token
  <2> QED
    BY <1>1, <2>2 DEF Login, Finish
<1>2. CASE GetProfile(r)
  BY <1>2 DEF GetProfile, Finish
<1>3. CASE DeleteAccount(r)
  <2>1. HoldersOK'
    BY <1>3 DEF DeleteAccount, HoldersOK
  <2> QED
    BY <1>3, <2>1 DEF DeleteAccount, Finish
<1>4. CASE AnswerPlainly(r)
  BY <1>4 DEF AnswerPlainly, Finish
<1>5. CASE Panic(r)
  <2>1. PhaseOK'
    BY <1>5 DEF Panic, PhaseOK
  <2> QED
    BY <1>5, <2>1 DEF Panic
<1> QED
  BY <1>1, <1>2, <1>3, <1>4, <1>5

\* The way up, and the beginning and the end of a request, keep the types.
LEMMA TypedEnds ==
    ASSUME Typed, NEW r \in Requests,
           \/ GoUp(r) \/ PanicUp(r) \/ Forget(r)
           \/ \E route \in Routes, origin \in {None, Listed, Other},
                 token \in issued \union {None} : Arrive(r, route, origin, token)
    PROVE  Typed'
<1> USE Kept, Moves, Answers, Values DEF Typed, auths
<1>1. CASE GoUp(r)
  <2>1. LoggedOK'
    BY <1>1 DEF GoUp, LoggedOK, StatusOK
  <2> QED
    BY <1>1, <2>1 DEF GoUp
<1>2. CASE PanicUp(r)
  BY <1>2 DEF PanicUp
<1>3. CASE Forget(r)
  <2>1. PhaseOK' /\ UserOK'
    BY <1>3 DEF Forget, PhaseOK, UserOK
  <2>2. StatusOK' /\ LoggedOK' /\ HeaderOK'
    BY <1>3 DEF Forget, StatusOK, LoggedOK, HeaderOK
  <2>3. NoRequest \in [route : Routes, origin : {None, Listed, Other}, token : Token \union {None}]
    BY DEF NoRequest, Routes
  <2>4. ReqOK'
    BY <1>3, <2>3 DEF Forget, ReqOK
  <2> QED
    BY <1>3, <2>1, <2>2, <2>4 DEF Forget
<1>4. ASSUME NEW route \in Routes, NEW origin \in {None, Listed, Other},
             NEW token \in issued \union {None}, Arrive(r, route, origin, token)
      PROVE  Typed'
  <2>1. PhaseOK' /\ AtOK'
    BY <1>4 DEF Arrive, PhaseOK, AtOK
  <2>2. ReqOK'
    BY <1>4 DEF Arrive, ReqOK, IssuedOK
  <2> QED
    BY <1>4, <2>1, <2>2 DEF Arrive
<1> QED
  BY <1>1, <1>2, <1>3, <1>4

\* Every step of the chain keeps the types.
LEMMA TypedStep ==
    ASSUME TypeOK, Typed, [ChainNext]_chainvars
    PROVE  Typed'
<1>1. CASE UNCHANGED <<auths, local>>
  BY <1>1, Kept DEF Typed, auths, local
<1>2. UNCHANGED chainvars => UNCHANGED <<auths, local>>
  BY DEF chainvars, auths, local
<1> QED
  BY <1>1, <1>2, TypedDown, TypedHandler, TypedEnds DEF ChainNext, Serve

-----------------------------------------------------------------------------
(* What the parts of a step do to a request and to the others.                *)

\* Next, Abort and the return of a middleware move one request and no other.
LEMMA MoveEffect ==
    ASSUME NEW r \in Requests, PhaseOK, AtOK
    PROVE  /\ Next_(r) => at'[r] = at[r] + 1 /\ phase'[r] = phase[r]
           /\ Abort(r) => at'[r] = at[r] /\ phase'[r] = "up"
           /\ Unwound(r) /\ at[r] > 1 => at'[r] = at[r] - 1 /\ phase'[r] = phase[r]
           /\ Unwound(r) /\ ~(at[r] > 1) => at'[r] = at[r] /\ phase'[r] = "done"
           /\ Next_(r) \/ Abort(r) \/ Unwound(r) =>
                 \A q \in Requests \ {r} : phase'[q] = phase[q] /\ at'[q] = at[q]
BY DEF PhaseOK, AtOK, Next_, Abort, Unwound

\* An answer is that of one request.
LEMMA AnswerEffect ==
    ASSUME NEW r \in Requests, StatusOK, NEW code, Answer(r, code)
    PROVE  status'[r] = code /\ \A q \in Requests \ {r} : status'[q] = status[q]
BY DEF StatusOK, Answer

\* Headers are added to one request, and none is removed.
LEMMA HeaderEffect ==
    ASSUME NEW r \in Requests, HeaderOK, NEW hs, SetHeaders(r, hs)
    PROVE  /\ header'[r] = header[r] \union hs
           /\ \A q \in Requests \ {r} : header'[q] = header[q]
BY DEF HeaderOK, SetHeaders

-----------------------------------------------------------------------------
(* The way of a request.                                                      *)

OnWay(r) == InChain(r) /\ OnItsWay(r)

\* What belongs to one request.
Untouched(q) ==
    /\ phase'[q] = phase[q] /\ at'[q] = at[q] /\ req'[q] = req[q]
    /\ status'[q] = status[q] /\ header'[q] = header[q] /\ logged'[q] = logged[q]

\* Completeness and honesty of a header depend on the header and the configuration.
LEMMA SameHeader ==
    ASSUME NEW r \in Requests, header'[r] = header[r], UNCHANGED config
    PROVE  /\ Complete(r)' <=> Complete(r)
           /\ Honest(r)' <=> Honest(r)
           /\ \A name : Has(r, name)' <=> Has(r, name)
BY DEF Has, Complete, Honest

\* What is expected of a request depends on what was sent.
LEMMA SameRequest ==
    ASSUME NEW r \in Requests, req'[r] = req[r]
    PROVE  /\ Preflight(r)' <=> Preflight(r)
           /\ LastPlace(req[r].route)' = LastPlace(req[r].route)
BY DEF Preflight, LastPlace

\* A request that a step does not touch stays where it was, with what it had.
LEMMA OtherWays ==
    ASSUME NEW q \in Requests, OnWay(q), Untouched(q), UNCHANGED config
    PROVE  OnWay(q)'
BY SameHeader, SameRequest DEF OnWay, Untouched, InChain, OnItsWay

\* No step of a request touches another one, or the configuration.
LEMMA AloneServing ==
    ASSUME Typed, NEW r \in Requests, Serve(r), NEW q \in Requests \ {r}
    PROVE  UNCHANGED config /\ Untouched(q)
<1> USE MoveEffect, AnswerEffect, HeaderEffect DEF Typed, Untouched, auths
<1>1. CASE PassThrough(r)
  BY <1>1 DEF PassThrough
<1>2. CASE SetCORS(r)
  BY <1>2 DEF SetCORS
<1>3. CASE SkipLimiter(r) \/ AskLimiter(r)
  BY <1>3 DEF SkipLimiter, AskLimiter, local
<1>4. CASE Limit(r) \/ Authenticate(r)
  BY <1>4 DEF Limit, Authenticate
<1>5. CASE Login(r) \/ DeleteAccount(r)
  BY <1>5 DEF Login, DeleteAccount, Finish
<1>6. CASE GetProfile(r) \/ AnswerPlainly(r)
  BY <1>6 DEF GetProfile, AnswerPlainly, Finish
<1>7. CASE Panic(r)
  BY <1>7 DEF Panic, PhaseOK
<1>8. CASE GoUp(r)
  <2>1. logged'[q] = logged[q]
    BY <1>8 DEF GoUp, LoggedOK
  <2> QED
    BY <1>8, <2>1 DEF GoUp
<1>9. CASE PanicUp(r)
  BY <1>9 DEF PanicUp
<1> QED
  BY <1>1, <1>2, <1>3, <1>4, <1>5, <1>6, <1>7, <1>8, <1>9 DEF Serve

Arrives(r) == \E route \in Routes, origin \in {None, Listed, Other},
                 token \in issued \union {None} : Arrive(r, route, origin, token)

\* Arrival and end of a request touch no other.
LEMMA AloneAtTheEnds ==
    ASSUME Typed, NEW r \in Requests, Forget(r) \/ Arrives(r), NEW q \in Requests \ {r}
    PROVE  UNCHANGED config /\ Untouched(q)
BY DEF Typed, PhaseOK, AtOK, ReqOK, StatusOK, HeaderOK, LoggedOK, Forget, Arrives, Arrive,
       Untouched, auths

\* A request at its handler or behind CORS that gets an answer turns round.
LEMMA TurnsRound ==
    ASSUME NEW r \in Requests, OnWay(r), phase[r] = "down", at[r] > 5,
           status'[r] # 0, phase'[r] = "up", at'[r] = at[r], req'[r] = req[r],
           header'[r] = header[r], UNCHANGED config
    PROVE  OnWay(r)'
BY SameHeader, SameRequest DEF OnWay, InChain, OnItsWay, Complete

\* A handler runs after all middlewares, and leaves an answer or a panic behind.
LEMMA HandlerWay ==
    ASSUME Typed, NEW r \in Requests, OnWay(r),
           Login(r) \/ GetProfile(r) \/ DeleteAccount(r) \/ AnswerPlainly(r) \/ Panic(r)
    PROVE  OnWay(r)'
<1> USE DEF Typed
<1>1. phase[r] = "down" /\ Here(r) = "Handler"
  <2>1. On(r, "Handler") \/ Panic(r)
    BY DEF Login, GetProfile, DeleteAccount, AnswerPlainly
  <2> QED
    BY <2>1 DEF On, Panic
<1>2. InChain(r)
  BY DEF OnWay
<1>3. at[r] > 5
  BY <1>1, <1>2, Places, Ends
<1>4. CASE Panic(r)
  <2>1. /\ phase'[r] = "panic" /\ at'[r] = at[r] /\ req'[r] = req[r]
        /\ header'[r] = header[r] /\ status'[r] = status[r] /\ UNCHANGED config
    BY <1>4 DEF Panic, PhaseOK, auths
  <2> QED
    BY <1>1, <1>2, <1>3, <2>1, SameHeader, SameRequest, Ends
       DEF OnWay, InChain, OnItsWay, Complete
<1>5. CASE Login(r) \/ GetProfile(r) \/ DeleteAccount(r) \/ AnswerPlainly(r)
  <2>1. /\ \E code : code # 0 /\ Finish(r, code)
        /\ UNCHANGED <<req, header, config>>
    <3>1. CASE Login(r)
      BY <3>1 DEF Login
    <3>2. CASE GetProfile(r)
      BY <3>2 DEF GetProfile, auths
    <3>3. CASE DeleteAccount(r)
      BY <3>3 DEF DeleteAccount
    <3>4. CASE AnswerPlainly(r)
      BY <3>4 DEF AnswerPlainly, auths
    <3> QED
      BY <1>5, <3>1, <3>2, <3>3, <3>4
  <2>2. status'[r] # 0 /\ phase'[r] = "up" /\ at'[r] = at[r]
    BY <2>1, MoveEffect, AnswerEffect DEF Finish
  <2> QED
    BY <1>1, <1>3, <2>1, <2>2, TurnsRound
<1> QED
  BY <1>4, <1>5

\* A middleware that passes a request on has added what it adds.
LEMMA PassWay ==
    ASSUME Typed, NEW r \in Requests, OnWay(r), PassThrough(r)
    PROVE  OnWay(r)'
<1> USE DEF Typed
<1>1. InChain(r) /\ OnItsWay(r)
  BY DEF OnWay
<1>2. phase[r] = "down" /\ at[r] \in {1, 2, 3, 4}
  BY <1>1, Places DEF PassThrough
<1>3. /\ at'[r] = at[r] + 1 /\ phase'[r] = "down" /\ req'[r] = req[r]
      /\ status'[r] = status[r] /\ UNCHANGED config
  BY <1>2, MoveEffect DEF PassThrough, auths
<1>4. InChain(r)'
  BY <1>1, <1>2, <1>3, Ends, SameRequest DEF InChain
<1>5. CASE at[r] \in {1, 4}
  <2>1. PICK name \in {"X-Request-ID", "security"} :
           /\ header'[r] = header[r] \union {name}
           /\ name = IF at[r] = 1 THEN "X-Request-ID" ELSE "security"
    BY <1>1, <1>5, Places, HeaderEffect DEF PassThrough
  <2>2. /\ Has(r, name)' /\ \A other : Has(r, other) => Has(r, other)'
        /\ Honest(r)' <=> Honest(r)
    BY <1>3, <2>1 DEF Has, Honest
  <2> QED
    BY <1>1, <1>2, <1>3, <1>4, <1>5, <2>1, <2>2 DEF OnWay, OnItsWay
<1>6. CASE at[r] \in {2, 3}
  <2>1. header'[r] = header[r]
    BY <1>1, <1>6, Places DEF PassThrough
  <2> QED
    BY <1>1, <1>2, <1>3, <1>4, <1>6, <2>1, SameHeader DEF OnWay, OnItsWay
<1> QED
  BY <1>2, <1>5, <1>6

\* CORS passes a request on with its headers, or answers a preflight.
LEMMA CORSWay ==
    ASSUME Typed, NEW r \in Requests, OnWay(r), SetCORS(r)
    PROVE  OnWay(r)'
<1> USE DEF Typed
<1>1. InChain(r) /\ OnItsWay(r)
  BY DEF OnWay
<1>2. phase[r] = "down" /\ at[r] = 5 /\ req'[r] = req[r] /\ UNCHANGED config
  BY <1>1, Places DEF SetCORS, On, auths
<1>3. header'[r] = header[r] \union ({"cors"} \union AllowOrigin(req[r].origin)
                        \union IF config.credentials THEN {"credentials"} ELSE {})
  BY HeaderEffect DEF SetCORS
<1>4. Has(r, "X-Request-ID") /\ Has(r, "security") /\ Honest(r)
  BY <1>1, <1>2 DEF OnItsWay
<1>5. Complete(r)'
  BY <1>3, <1>4 DEF Complete, Has
<1>6. Honest(r)'
  BY <1>2, <1>3, <1>4 DEF Honest, Has, AllowOrigin
<1>7. CASE Preflight(r)
  <2>1. status'[r] = 204 /\ phase'[r] = "up" /\ at'[r] = at[r]
    BY <1>7, MoveEffect, AnswerEffect DEF SetCORS, Preflight
  <2> QED
    BY <1>1, <1>2, <1>5, <1>6, <1>7, <2>1, SameRequest DEF OnWay, InChain, OnItsWay
<1>8. CASE ~Preflight(r)
  <2>1. phase'[r] = "down" /\ at'[r] = 6 /\ status'[r] = 0
    BY <1>1, <1>2, <1>8, MoveEffect DEF SetCORS, Preflight, OnItsWay
  <2>2. InChain(r)'
    BY <1>1, <1>2, <2>1, Ends, SameRequest DEF InChain
  <2> QED
    BY <1>2, <1>5, <1>6, <1>8, <2>1, <2>2, SameRequest DEF OnWay, OnItsWay, Complete
<1> QED
  BY <1>7, <1>8

\* A request behind CORS goes one place further.
LEMMA GoesOn ==
    ASSUME NEW r \in Requests, AtOK, OnWay(r), phase[r] = "down", at[r] > 5,
           at'[r] \in {at[r], at[r] + 1}, at'[r] =< LastPlace(req[r].route),
           phase'[r] = "down", req'[r] = req[r], header'[r] = header[r],
           status'[r] = status[r], UNCHANGED config
    PROVE  OnWay(r)'
<1>1. InChain(r) /\ OnItsWay(r)
  BY DEF OnWay
<1>2. InChain(r)'
  BY <1>1, Ends, SameRequest DEF InChain
<1> QED
  BY <1>1, <1>2, SameRequest, SameHeader, Ends DEF OnWay, OnItsWay

\* The limiter and the authentication pass a request on, or answer and abort.
LEMMA LimiterWay ==
    ASSUME Typed, NEW r \in Requests, OnWay(r),
           SkipLimiter(r) \/ AskLimiter(r) \/ Limit(r) \/ Authenticate(r)
    PROVE  OnWay(r)'
<1> USE DEF Typed
<1>1. InChain(r)
  BY DEF OnWay
<1>2. /\ phase[r] = "down" /\ req'[r] = req[r] /\ header'[r] = header[r] /\ UNCHANGED config
      /\ Here(r) = "RateLimiter" \/ Here(r) = "Auth"
  BY DEF SkipLimiter, AskLimiter, Limit, Authenticate, On, auths, local
<1>3. at[r] > 5 /\ at[r] + 1 =< LastPlace(req[r].route)
  BY <1>1, <1>2, Places, Ends
<1>4. \/ (Next_(r) \/ UNCHANGED <<phase, at>>) /\ status' = status
      \/ Abort(r) /\ \E code : code # 0 /\ Answer(r, code)
  BY DEF SkipLimiter, AskLimiter, Limit, Authenticate, local
<1>5. CASE (Next_(r) \/ UNCHANGED <<phase, at>>) /\ status' = status
  <2>1. at'[r] \in {at[r], at[r] + 1} /\ phase'[r] = "down"
    BY <1>2, <1>5, MoveEffect
  <2>2. at'[r] =< LastPlace(req[r].route)
    BY <1>1, <1>3, <2>1, Ends
  <2> QED
    BY <1>2, <1>3, <1>5, <2>1, <2>2, GoesOn
<1>6. CASE Abort(r) /\ \E code : code # 0 /\ Answer(r, code)
  <2>1. status'[r] # 0 /\ phase'[r] = "up" /\ at'[r] = at[r]
    BY <1>6, MoveEffect, AnswerEffect
  <2> QED
    BY <1>2, <1>3, <2>1, TurnsRound
<1> QED
  BY <1>4, <1>5, <1>6

\* On the way up the answer stays, and Logger logs it.
LEMMA GoUpWay ==
    ASSUME Typed, NEW r \in Requests, OnWay(r), GoUp(r)
    PROVE  OnWay(r)'
<1> USE DEF Typed
<1>1. InChain(r) /\ OnItsWay(r)
  BY DEF OnWay
<1>2. /\ phase[r] = "up" /\ req'[r] = req[r] /\ header'[r] = header[r] /\ UNCHANGED config
      /\ status'[r] = status[r] /\ Unwound(r)
  BY DEF GoUp, auths
<1>3. Complete(r)' /\ Honest(r)' /\ status'[r] # 0 /\ (Preflight(r)' => status'[r] = 204)
  BY <1>1, <1>2, SameHeader, SameRequest DEF OnItsWay
<1>4. CASE at[r] > 1
  <2>1. at'[r] = at[r] - 1 /\ phase'[r] = "up"
    BY <1>2, <1>4, MoveEffect
  <2>2. at[r] = 2 => logged'[r] = status[r]
    BY <1>1, Places DEF GoUp, LoggedOK
  <2>3. InChain(r)'
    BY <1>1, <1>2, <1>4, <2>1, Ends, SameRequest DEF InChain
  <2>4. at'[r] = 1 => logged'[r] = status'[r]
    BY <1>1, <1>2, <2>1, <2>2, Ends
  <2> QED
    BY <1>3, <2>1, <2>3, <2>4 DEF OnWay, OnItsWay
<1>5. CASE ~(at[r] > 1)
  <2>1. at[r] = 1
    BY <1>1, <1>5, Ends
  <2>2. at'[r] = 1 /\ phase'[r] = "done" /\ logged'[r] = logged[r]
    BY <1>1, <1>2, <1>5, <2>1, MoveEffect, Places DEF GoUp
  <2>3. InChain(r)' /\ logged[r] = status[r]
    BY <1>1, <1>2, <2>1, <2>2, Ends, SameRequest DEF InChain, OnItsWay
  <2> QED
    BY <1>2, <1>3, <2>2, <2>3 DEF OnWay, OnItsWay
<1> QED
  BY <1>4, <1>5

\* A panic passes every middleware but Recovery, which answers 500.
LEMMA PanicUpWay ==
    ASSUME Typed, NEW r \in Requests, OnWay(r), PanicUp(r)
    PROVE  OnWay(r)'
<1> USE DEF Typed
<1>1. InChain(r) /\ OnItsWay(r)
  BY DEF OnWay
<1>2. /\ phase[r] = "panic" /\ req'[r] = req[r] /\ header'[r] = header[r] /\ UNCHANGED config
  BY DEF PanicUp, auths
<1>3. at[r] > 2 /\ Complete(r)' /\ Honest(r)' /\ ~Preflight(r)'
  BY <1>1, <1>2, SameHeader, SameRequest DEF OnItsWay
<1>4. CASE at[r] = 3
  <2>1. status'[r] = 500 /\ at'[r] = 3 /\ phase'[r] = "up"
    BY <1>1, <1>4, Places, MoveEffect, AnswerEffect DEF PanicUp
  <2>2. InChain(r)'
    BY <1>1, <1>2, <1>4, <2>1, Ends, SameRequest DEF InChain
  <2> QED
    BY <1>3, <2>1, <2>2 DEF OnWay, OnItsWay
<1>5. CASE at[r] # 3
  <2>1. Unwound(r)
    BY <1>1, <1>5, Places DEF PanicUp
  <2>2. /\ at'[r] = at[r] - 1 /\ phase'[r] = "panic" /\ at'[r] > 2
        /\ status'[r] = status[r] /\ status[r] = 0
    BY <1>1, <1>2, <1>3, <1>5, <2>1, MoveEffect, Ends, Places DEF PanicUp, OnItsWay
  <2>3. InChain(r)'
    BY <1>1, <1>2, <2>2, Ends, SameRequest DEF InChain
  <2> QED
    BY <1>3, <2>2, <2>3 DEF OnWay, OnItsWay
<1> QED
  BY <1>4, <1>5

\* A new request has collected nothing.
LEMMA EndWay ==
    ASSUME Typed, NEW r \in Requests, OnWay(r), Forget(r) \/ Arrives(r)
    PROVE  OnWay(r)'
<1> USE DEF Typed
<1>1. CASE Forget(r)
  <2>1. phase'[r] = "idle" /\ header'[r] = {} /\ status'[r] = 0 /\ UNCHANGED config
    BY <1>1 DEF Forget, PhaseOK, HeaderOK, StatusOK, auths
  <2>2. at'[r] = 1
    BY <1>1 DEF Forget, OnWay, OnItsWay
  <2>3. InChain(r)' /\ Honest(r)'
    BY <2>1, <2>2 DEF InChain, LastPlace, Honest, Has
  <2> QED
    BY <2>1, <2>3 DEF OnWay, OnItsWay
<1>2. CASE Arrives(r)
  <2>1. /\ phase'[r] = "down" /\ at'[r] = 1 /\ header'[r] = header[r] /\ UNCHANGED config
        /\ status'[r] = status[r] /\ status[r] = 0
    BY <1>2 DEF Arrives, Arrive, PhaseOK, AtOK, auths, OnWay, OnItsWay
  <2>2. InChain(r)'
    BY <2>1 DEF InChain, LastPlace
  <2>3. Honest(r)'
    BY <2>1, SameHeader DEF OnWay, OnItsWay
  <2> QED
    BY <2>1, <2>2, <2>3 DEF OnWay, OnItsWay
<1> QED
  BY <1>1, <1>2

AllOnWay == \A q \in Requests : OnWay(q)

\* Every step keeps what requests have collected in line with where they are.
LEMMA WayStep ==
    ASSUME Typed, AllOnWay, [ChainNext]_chainvars
    PROVE  AllOnWay'
<1>1. CASE UNCHANGED <<auths, local>>
  <2>1. UNCHANGED config /\ \A q \in Requests : Untouched(q)
    BY <1>1 DEF auths, local, Untouched
  <2> QED
    BY <2>1, OtherWays DEF AllOnWay
<1>2. ASSUME NEW r \in Requests, Serve(r) \/ Forget(r) \/ Arrives(r)
      PROVE  AllOnWay'
  <2>1. OnWay(r)
    BY DEF AllOnWay
  <2>2. OnWay(r)'
    BY <1>2, <2>1, HandlerWay, PassWay, CORSWay, LimiterWay, GoUpWay, PanicUpWay, EndWay
       DEF Serve
  <2>3. ASSUME NEW q \in Requests \ {r}
        PROVE  OnWay(q)'
    <3>1. UNCHANGED config /\ Untouched(q)
      BY <1>2, AloneServing, AloneAtTheEnds
    <3> QED
      BY <3>1, OtherWays DEF AllOnWay
  <2> QED
    BY <2>2, <2>3 DEF AllOnWay
<1>3. UNCHANGED chainvars => UNCHANGED <<auths, local>>
  BY DEF chainvars, auths, local
<1> QED
  BY <1>1, <1>2, <1>3 DEF ChainNext, Arrives

\* All requests are on their way, wherever each of them is.
LEMMA WayInvariant == ChainSpec => [](Typed /\ AllOnWay)
<1>1. ChainInit => Typed /\ AllOnWay
  <2> SUFFICES ASSUME ChainInit PROVE Typed /\ AllOnWay
    OBVIOUS
  <2> USE DEF ChainInit
  <2>1. NoRequest \in [route : Routes, origin : {None, Listed, Other}, token : Token \union {None}]
    BY DEF NoRequest, Routes
  <2>2. ConfigOK /\ AtOK /\ ReqOK /\ HeaderOK /\ UserOK /\ IssuedOK /\ HoldersOK
    BY <2>1 DEF ConfigOK, AtOK, ReqOK, HeaderOK, UserOK, IssuedOK, HoldersOK
  <2>3. PhaseOK /\ StatusOK /\ LoggedOK
    BY Values DEF PhaseOK, StatusOK, LoggedOK
  <2>4. ASSUME NEW q \in Requests
        PROVE  OnWay(q)
    <3>1. phase[q] = "idle" /\ at[q] = 1 /\ header[q] = {} /\ status[q] = 0
      OBVIOUS
    <3>2. InChain(q) /\ Honest(q)
      BY <3>1 DEF InChain, LastPlace, Honest, Has
    <3> QED
      BY <3>1, <3>2 DEF OnWay, OnItsWay
  <2> QED
    BY <2>2, <2>3, <2>4 DEF Typed, AllOnWay
<1>2. TypeOK /\ (Typed /\ AllOnWay) /\ [ChainNext]_chainvars => (Typed /\ AllOnWay)'
  BY TypedStep, WayStep
<1>3. ChainSpec => []TypeOK
  BY LimiterRuns, TypeCorrect, PTL
<1> QED
  BY <1>1, <1>2, <1>3, PTL DEF ChainSpec

\* The state of the chain is well-formed: no request leaves its chain, downwards
\* or upwards.
THEOREM ChainTypeCorrect == ChainSpec => []ChainTypeOK
<1>1. TypeOK /\ Typed /\ AllOnWay => ChainTypeOK
  BY TypeParts DEF AllOnWay, OnWay
<1>2. ChainSpec => []TypeOK
  BY LimiterRuns, TypeCorrect, PTL
<1> QED
  BY <1>1, <1>2, WayInvariant, PTL

\* Whoever ends a request, its answer is there, is logged as given and has its
\* headers.
THEOREM AnswersAreComplete == ChainSpec => []AnswersComplete
<1>1. ConfigOK /\ AllOnWay => AnswersComplete
  <2> SUFFICES ASSUME AllOnWay, NEW r \in Requests, phase[r] = "done"
               PROVE  /\ status[r] # 0 /\ logged[r] = status[r]
                      /\ {"X-Request-ID", "security", "cors"} \subseteq header[r]
                      /\ ~({"origin *", "credentials"} \subseteq header[r])
                      /\ req[r].route = "preflight" => status[r] = 204
    BY DEF AnswersComplete, Done
  <2>1. OnItsWay(r)
    BY DEF AllOnWay, OnWay
  <2>2. /\ Complete(r) /\ Honest(r) /\ status[r] # 0 /\ logged[r] = status[r]
        /\ Preflight(r) => status[r] = 204
    BY <2>1 DEF OnItsWay
  <2> QED
    BY <2>2 DEF Complete, Honest, Has, Preflight
<1> QED
  BY <1>1, WayInvariant, PTL DEF Typed

\* A request that has its answer only goes up, and the answer stays.
THEOREM OneAnswer == ChainSpec => AnsweredOnce
<1>1. Typed /\ AllOnWay /\ [ChainNext]_chainvars =>
          \A r \in Requests : status[r] # 0 /\ ~Done(r)
              => status'[r] = status[r] /\ phase'[r] \in {"up", "done"}
  <2> SUFFICES ASSUME Typed, AllOnWay, [ChainNext]_chainvars, NEW r \in Requests,
                      status[r] # 0, phase[r] # "done"
               PROVE  status'[r] = status[r] /\ phase'[r] \in {"up", "done"}
    BY DEF Done
  <2>1. phase[r] = "up"
    <3>1. phase[r] \in {"idle", "down", "panic"} => status[r] = 0
      BY DEF AllOnWay, OnWay, OnItsWay
    <3>2. phase[r] \in {"idle", "down", "up", "panic", "done"}
      BY DEF Typed, PhaseOK, Phases
    <3> QED
      BY <3>1, <3>2
  <2>2. CASE Untouched(r)
    BY <2>1, <2>2 DEF Untouched
  <2>3. CASE Serve(r) \/ Forget(r) \/ Arrives(r)
    <3>1. GoUp(r)
      BY <2>1, <2>3
         DEF Serve, PassThrough, SetCORS, SkipLimiter, AskLimiter, Limit, Authenticate,
             Login, GetProfile, DeleteAccount, AnswerPlainly, Panic, PanicUp, On, Forget,
             Arrives, Arrive
    <3> QED
      BY <2>1, <3>1, MoveEffect DEF Typed, GoUp
  <2>4. ASSUME NEW q \in Requests \ {r}, Serve(q) \/ Forget(q) \/ Arrives(q)
        PROVE  Untouched(r)
    BY <2>4, AloneServing, AloneAtTheEnds
  <2>5. UNCHANGED local => Untouched(r)
    BY DEF local, Untouched
  <2>6. UNCHANGED chainvars => UNCHANGED local
    BY DEF chainvars, local
  <2> QED
    BY <2>2, <2>3, <2>4, <2>5, <2>6 DEF ChainNext, Arrives
<1> QED
  BY <1>1, WayInvariant, PTL DEF ChainSpec, AnsweredOnce

-----------------------------------------------------------------------------
(* Tokens.                                                                    *)

\* Only Login issues tokens, and they expire in time.
LEMMA TokenStep ==
    ASSUME TypeOK, TypeOK', Typed, TokensFromLogins, [ChainNext]_chainvars
    PROVE  TokensFromLogins'
<1> USE DEF Typed
<1>0. now \in Nat /\ now' \in Nat /\ now =< now'
  <2>1. now' = now \/ now' = now + 1
    BY LimiterStep DEF Next, GetLimiter, Admit, Reject, Cleanup, Tick, OpenWindow, vars
  <2> QED
    BY <2>1 DEF TypeOK
<1>1. CASE UNCHANGED <<issued, lastLogin>>
  BY <1>0, <1>1 DEF TokensFromLogins
<1>2. ASSUME NEW r \in Requests, Login(r), ~UNCHANGED <<issued, lastLogin>>
      PROVE  TokensFromLogins'
  <2>1. PICK u \in accounts : /\ issued' = issued \union {[user |-> u, exp |-> now + TokenLife]}
                              /\ lastLogin' = [lastLogin EXCEPT ![u] = now]
    BY <1>2 DEF Login
  <2>2. u \in Users /\ now' = now
    BY <1>2 DEF HoldersOK, Login, vars
  <2>3. lastLogin' \in [Users -> {-1} \union 0..now']
    BY <1>0, <2>1, <2>2 DEF TokensFromLogins
  <2>4. \A v \in Users : lastLogin'[v] = IF v = u THEN now ELSE lastLogin[v]
    BY <2>1 DEF TokensFromLogins
  <2>5. ASSUME NEW token \in issued'
        PROVE  /\ lastLogin'[token.user] # -1
               /\ token.exp =< lastLogin'[token.user] + TokenLife
    <3>1. CASE token = [user |-> u, exp |-> now + TokenLife]
      <4>1. token.user = u /\ token.exp = now + TokenLife /\ lastLogin'[u] = now
        BY <2>2, <2>4, <3>1
      <4> QED
        BY <1>0, <4>1
    <3>2. CASE token \in issued
      <4>1. token.user \in Users /\ token.exp \in Nat
        BY <3>2 DEF IssuedOK, Token
      <4>2. /\ lastLogin[token.user] # -1 /\ lastLogin[token.user] \in {-1} \union 0..now
            /\ token.exp =< lastLogin[token.user] + TokenLife
        BY <3>2, <4>1 DEF TokensFromLogins
      <4> QED
        BY <1>0, <2>4, <4>1, <4>2
    <3> QED
      BY <2>1, <3>1, <3>2
  <2> QED
    BY <2>3, <2>5 DEF TokensFromLogins
<1>3. ASSUME NEW r \in Requests, Serve(r), ~Login(r)
      PROVE  UNCHANGED <<issued, lastLogin>>
  <2>1. PassThrough(r) \/ SetCORS(r) \/ SkipLimiter(r) \/ AskLimiter(r) \/ Limit(r)
        \/ Authenticate(r) => UNCHANGED <<issued, lastLogin>>
    BY DEF PassThrough, SetCORS, SkipLimiter, AskLimiter, Limit, Authenticate, auths
  <2>2. GetProfile(r) \/ DeleteAccount(r) \/ AnswerPlainly(r) \/ Panic(r) \/ GoUp(r)
        \/ PanicUp(r) => UNCHANGED <<issued, lastLogin>>
    BY DEF GetProfile, DeleteAccount, AnswerPlainly, Panic, GoUp, PanicUp, auths
  <2> QED
    BY <1>3, <2>1, <2>2 DEF Serve
<1>4. \A r \in Requests : Forget(r) \/ Arrives(r) => UNCHANGED <<issued, lastLogin>>
  BY DEF Forget, Arrives, Arrive, auths
<1>5. UNCHANGED <<auths, local>> \/ UNCHANGED chainvars => UNCHANGED <<issued, lastLogin>>
  BY DEF auths, chainvars
<1>6. (\E r \in Requests : Login(r)) \/ UNCHANGED <<issued, lastLogin>>
  BY <1>3, <1>4, <1>5 DEF ChainNext, Arrives
<1> QED
  BY <1>1, <1>2, <1>6

\* Places in front of the handler.
LEMMA NotYet ==
    ASSUME NEW route \in Routes, NEW p \in Nat, 1 =< p,
           p =< 6 \/ (p = 7 /\ route \in Protected)
    PROVE  ChainOf(route)[p] # "Handler"
<1>1. p \in {1, 2, 3, 4, 5, 6} \/ (p = 7 /\ route \in Protected)
  OBVIOUS
<1> QED
  BY <1>1, ChainValues

\* The step on which a protected handler begins is one of AuthMiddleware.
LEMMA BehindAuth ==
    ASSUME Typed, AllOnWay, [ChainNext]_chainvars, NEW r \in Requests,
           On(r, "Handler")', at'[r] # at[r], req[r].route \in Protected
    PROVE  Authenticate(r) /\ Valid(req[r].token)
<1> USE DEF Typed
<1>1. phase'[r] = "down" /\ ChainOf(req'[r].route)[at'[r]] = "Handler"
  BY DEF On, Here
<1>2. InChain(r) /\ OnItsWay(r) /\ req[r].route \in Routes
  BY DEF AllOnWay, OnWay, ReqOK
<1>3. Serve(r) \/ Forget(r) \/ Arrives(r)
  <2>1. ~UNCHANGED <<auths, local>>
    BY DEF local
  <2>2. PICK s \in Requests : Serve(s) \/ Forget(s) \/ Arrives(s)
    BY <2>1 DEF ChainNext, Arrives, chainvars, auths, local
  <2>3. s = r
    BY <2>2, AloneServing, AloneAtTheEnds DEF Untouched
  <2> QED
    BY <2>2, <2>3
<1>4. ~Forget(r)
  BY <1>1 DEF Forget, PhaseOK
<1>5. ~Arrives(r)
  <2> SUFFICES ASSUME Arrives(r) PROVE FALSE
    OBVIOUS
  <2>1. at'[r] = 1 /\ req'[r].route \in Routes
    BY DEF Arrives, Arrive, AtOK, ReqOK
  <2> QED
    BY <1>1, <2>1, NotYet
<1>6. ~(Login(r) \/ GetProfile(r) \/ DeleteAccount(r) \/ AnswerPlainly(r) \/ Panic(r))
  <2>1. Panic(r) => phase'[r] = "panic"
    BY DEF Panic, PhaseOK
  <2>2. Login(r) \/ GetProfile(r) \/ DeleteAccount(r) \/ AnswerPlainly(r) => Abort(r)
    BY DEF Login, GetProfile, DeleteAccount, AnswerPlainly, Finish
  <2> QED
    BY <1>1, <2>1, <2>2, MoveEffect
<1>7. ~(GoUp(r) \/ PanicUp(r))
  <2>1. GoUp(r) \/ PanicUp(r) => /\ phase[r] = "up" \/ phase[r] = "panic"
                                 /\ Abort(r) \/ Unwound(r)
    BY DEF GoUp, PanicUp
  <2> QED
    BY <1>1, <2>1, MoveEffect
<1>8. ~(PassThrough(r) \/ SetCORS(r) \/ SkipLimiter(r) \/ AskLimiter(r) \/ Limit(r))
  <2> SUFFICES ASSUME PassThrough(r) \/ SetCORS(r) \/ SkipLimiter(r) \/ AskLimiter(r)
                      \/ Limit(r)
               PROVE  FALSE
    OBVIOUS
  <2>1. /\ req'[r] = req[r]
        /\ Next_(r) \/ Abort(r) \/ UNCHANGED <<phase, at>>
        /\ Here(r) \in {"RequestID", "SecurityHeaders", "Logger", "Recovery", "CORS",
                        "RateLimiter"}
    BY DEF PassThrough, SetCORS, SkipLimiter, AskLimiter, Limit, On, local
  <2>2. at[r] =< 6
    BY <1>2, <2>1, Places, Ends
  <2>3. at'[r] = at[r] + 1
    BY <1>1, <2>1, MoveEffect
  <2> QED
    BY <1>1, <1>2, <2>1, <2>2, <2>3, Ends, NotYet
<1>9. Authenticate(r)
  BY <1>3, <1>4, <1>5, <1>6, <1>7, <1>8 DEF Serve
<1>10. ~Abort(r)
  BY MoveEffect
<1> QED
  BY <1>9, <1>10 DEF Authenticate

Beginnings ==
    \A r \in Requests :
          On(r, "Handler")' /\ at'[r] # at[r] /\ req[r].route \in Protected =>
              /\ user'[r] # None
              /\ lastLogin[user'[r]] # -1
              /\ now < lastLogin[user'[r]] + TokenLife

\* A protected handler begins only for a user who logged in less than a token's
\* life ago, on whichever request.
THEOREM LoginFirst == ChainSpec => ProtectedNeedsLogin
<1>1. ChainInit => TokensFromLogins
  BY DEF ChainInit, TokensFromLogins, Init
<1>2. TypeOK /\ TypeOK' /\ Typed /\ TokensFromLogins /\ [ChainNext]_chainvars
      => TokensFromLogins'
  BY TokenStep
<1>3. /\ TypeOK /\ (Typed /\ AllOnWay) /\ TokensFromLogins /\ [ChainNext]_chainvars
      => [Beginnings]_chainvars
  <2> SUFFICES ASSUME TypeOK, Typed, AllOnWay, TokensFromLogins, [ChainNext]_chainvars,
                      NEW r \in Requests,
                      On(r, "Handler")', at'[r] # at[r], req[r].route \in Protected
               PROVE  /\ user'[r] # None
                      /\ lastLogin[user'[r]] # -1
                      /\ now < lastLogin[user'[r]] + TokenLife
    BY DEF Beginnings
  <2> USE DEF Typed
  <2>1. Authenticate(r) /\ Valid(req[r].token)
    BY BehindAuth
  <2>2. user'[r] = req[r].token.user /\ req[r].token \in issued /\ now < req[r].token.exp
    BY <2>1 DEF Authenticate, Valid, UserOK
  <2>3. req[r].token.user \in Users /\ req[r].token.exp \in Nat
    BY <2>2 DEF IssuedOK, Token
  <2>4. /\ lastLogin[req[r].token.user] # -1
        /\ lastLogin[req[r].token.user] \in {-1} \union 0..now
        /\ req[r].token.exp =< lastLogin[req[r].token.user] + TokenLife
    BY <2>2, <2>3 DEF TokensFromLogins
  <2> QED
    BY <2>2, <2>3, <2>4 DEF TypeOK
<1>4. ChainSpec => []TypeOK
  BY LimiterRuns, TypeCorrect, PTL
<1>5. ChainSpec => []TokensFromLogins
  BY <1>1, <1>2, <1>4, WayInvariant, PTL DEF ChainSpec
<1>6. ProtectedNeedsLogin <=> [][Beginnings]_chainvars
  BY PTL DEF ProtectedNeedsLogin, Beginnings
<1> QED
  BY <1>3, <1>4, <1>5, <1>6, WayInvariant, PTL DEF ChainSpec
=============================================================================

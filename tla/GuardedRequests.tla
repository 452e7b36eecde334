--------------------------- MODULE GuardedRequests ---------------------------
(***************************************************************************)
(* A request to a router that build_router has built: the Passport layer   *)
(* of its route takes the credential from the source the guard names, has  *)
(* it verified and turned into a principal by the bound strategy, applies  *)
(* the guard's policies, and only then lets the handler run                *)
(* (passport/guard.rs, the adapters the macros generate, passport/error.rs,*)
(* passport/context.rs).                                                   *)
(***************************************************************************)
EXTENDS HttpRouting

CONSTANTS
  Tokens,    \* [kind, verdict, roles, permissions, satisfies]: what a JWT says, what verify
             \* finds, and the predicates that hold of a principal made of it
  Requests   \* [headers, jar, cookies]: what a client sends

ASSUME TokensAssumption == \A t \in Tokens : t.verdict \in {"good", "unauthorized", "internal"}

ASSUME RequestsAssumption ==
  \A sent \in Requests :
    /\ sent.headers \in Seq(Range(sent.headers)) /\ sent.cookies \in Seq(Range(sent.cookies))
    /\ \A h \in Range(sent.headers) : h.tokens \in Seq(Tokens)
    /\ \A c \in Range(sent.cookies) : c.token \in Tokens

VARIABLES
  request,   \* the route matched and what was sent
  stage,     \* where PassportGuardService::call is
  token,     \* the credential extracted
  shown,     \* the cookies PassportContext shows to the strategy
  principal, \* the principal of the ErasedAuthentication
  installed, \* whether the request carries Authenticated and VerifiedToken
  answer     \* how the request ended

requestVars == <<request, stage, token, shown, principal, installed, answer>>
vars == <<routingVars, requestVars>>

NoToken == [kind |-> Nothing]
NoPrincipal == [type |-> Nothing]

RequestInit ==
  /\ request = << >>
  /\ stage = "idle"
  /\ token = NoToken /\ shown = {} /\ principal = NoPrincipal
  /\ installed = FALSE
  /\ answer = Nothing

Init == RoutingInit /\ RequestInit

Binding == CHOOSE b \in request[1].layer : TRUE
Guard == Binding.guard
Sent == request[2]

\* PassportRejection: 401, 403 or 500 without saying more.
Answer(outcome) == answer' = outcome /\ stage' = "done"

Arrive(r, sent) ==
  /\ phase = "built" /\ stage = "idle"
  /\ request' = <<r, sent>>
  /\ stage' = IF r.layer = {} THEN "handler" ELSE "extracting"
  /\ UNCHANGED <<token, shown, principal, installed, answer>>

\* `bearer_token`: one header, its scheme, and then exactly one word.
BearerTokens(sent) ==
  IF Len(sent.headers) = 1 /\ sent.headers[1].scheme = "bearer"
  THEN sent.headers[1].tokens ELSE << >>

\* The cookies of that name, each at its position.
CookieTokens(sent, name) ==
  IF ~ sent.jar THEN << >>
  ELSE [i \in {j \in DOMAIN sent.cookies : sent.cookies[j].name = name} |-> sent.cookies[i].token]

\* A source is "bearer" or the name of a cookie.
Credentials == IF Guard.source = "bearer" THEN BearerTokens(Sent)
               ELSE CookieTokens(Sent, Guard.source)

\* PassportContext: no cookies beside a bearer token, else all but the one
\* that holds the token; the headers that carry credentials are removed.
ShownCookies(sent, source) ==
  IF source = "bearer" THEN {}
  ELSE {sent.cookies[i] : i \in {j \in DOMAIN sent.cookies : sent.cookies[j].name # source}}

\* `authenticate_request`.
Extract ==
  /\ stage = "extracting"
  /\ IF \E i \in DOMAIN Credentials : DOMAIN Credentials = {i}
     THEN /\ token' = Credentials[CHOOSE i \in DOMAIN Credentials : TRUE]
          /\ shown' = ShownCookies(Sent, Guard.source)
          /\ stage' = "verifying" /\ UNCHANGED answer
     ELSE Answer("unauthorized") /\ UNCHANGED <<token, shown>>
  /\ UNCHANGED <<request, principal, installed>>

\* Seeded fault: a token of the wrong profile is taken for a fault of the server.
VerdictAsFault(t, kind) == IF t.verdict = "internal" \/ t.kind # kind THEN "internal" ELSE t.verdict

\* JwtService::verify with the profile of the strategy, and the kind of
\* PassportError its error becomes.
Verdict(t, kind) == IF t.verdict = "internal" THEN "internal"
                    ELSE IF t.kind = kind THEN t.verdict ELSE "unauthorized"

Verify ==
  /\ stage = "verifying"
  /\ IF Verdict(token, Binding.strategy.kind) = "good" THEN stage' = "validating" /\ UNCHANGED answer
     ELSE Answer(Verdict(token, Binding.strategy.kind))
  /\ UNCHANGED <<request, token, shown, principal, installed>>

PrincipalFrom(t) == [type |-> Binding.strategy.principal, roles |-> t.roles,
                     permissions |-> t.permissions, satisfies |-> t.satisfies,
                     by |-> Binding.strategy.name]

\* The built-in adapter wraps the claims; a managed strategy is resolved from
\* the application and awaited, and may refuse or fail.
Validate ==
  /\ stage = "validating"
  /\ IF Binding.strategy = BuiltinStrategy
     THEN principal' = PrincipalFrom(token) /\ stage' = "authorizing" /\ UNCHANGED answer
     ELSE IF Binding.strategy.provider \notin Held
     THEN Answer("internal") /\ UNCHANGED principal
     ELSE \/ principal' = PrincipalFrom(token) /\ stage' = "authorizing" /\ UNCHANGED answer
          \/ \E outcome \in {"unauthorized", "internal"} : Answer(outcome) /\ UNCHANGED principal
  /\ UNCHANGED <<request, token, shown, installed>>

\* `matches_clause`.
Meets(clause, held) ==
  CASE clause.mode = Nothing -> TRUE
    [] clause.mode = "any"   -> clause.values \cap held # {}
    [] clause.mode = "all"   -> clause.values \subseteq held

\* The generated adapter of a predicate is false of a principal of another type.
Satisfied(guard, p) == IF p.type = guard.principal THEN p.satisfies ELSE {}

Authorizes(guard, p) ==
  /\ Meets(guard.roles, p.roles)
  /\ Meets(guard.permissions, p.permissions)
  /\ guard.predicates \subseteq Satisfied(guard, p)

Authorize ==
  /\ stage = "authorizing"
  /\ IF Authorizes(Guard, principal) THEN installed' = TRUE /\ stage' = "handler" /\ UNCHANGED answer
     ELSE Answer("forbidden") /\ UNCHANGED installed
  /\ UNCHANGED <<request, token, shown, principal>>

Handle ==
  /\ stage = "handler"
  /\ Answer("handled")
  /\ UNCHANGED <<request, token, shown, principal, installed>>

Next ==
  \/ RoutingNext /\ UNCHANGED requestVars
  \/ /\ \/ \E r \in router, sent \in Requests : Arrive(r, sent)
        \/ Extract \/ Verify \/ Validate \/ Authorize \/ Handle
     /\ UNCHANGED routingVars

Spec == Init /\ [][Next]_vars

-----------------------------------------------------------------------------
(***************************************************************************)
(* What the contract of a route asks for, read from its attributes.        *)
(***************************************************************************)
TheContract == Contract(request[1].trait)
TheMethod ==
  LET i == CHOOSE j \in DOMAIN TheContract.methods :
             /\ TheContract.methods[j].handler = request[1].handler
             /\ TheContract.methods[j].active
  IN  TheContract.methods[i]

AsksForGuard == ~ TheMethod.guard.skip /\ (Declares(TheContract.guard) \/ Declares(TheMethod.guard))

\* A policy of the method, or else of the trait.
Asked(field) == IF TheMethod.guard[field] # NoSpec[field] THEN TheMethod.guard[field]
                ELSE TheContract.guard[field]

\* Every token that came with the request, and how often each source was used.
SentOnce(t) ==
  \/ \E i \in DOMAIN Sent.headers : Sent.headers[i].tokens = <<t>> /\ Len(Sent.headers) = 1
  \/ \E i \in DOMAIN Sent.cookies :
       /\ Sent.cookies[i].token = t
       /\ \A j \in DOMAIN Sent.cookies : Sent.cookies[j].name = Sent.cookies[i].name => j = i

\* The handler of a method that the contract guards runs only for a principal
\* that a strategy made from a good token of its own profile, sent exactly
\* once, and that meets the roles and permissions, and every predicate, that
\* the method asks for or inherits, a strategy that was not shown the source of
\* that token; a method that says skip, or no guard, runs without any.
HandlersRunAuthorized ==
  answer = "handled" =>
    IF ~ AsksForGuard THEN ~ installed
    ELSE /\ installed
         /\ token.verdict = "good" /\ token.kind = Binding.strategy.kind
         /\ SentOnce(token)
         /\ Meets(Asked("roles"), principal.roles)
         /\ Meets(Asked("permissions"), principal.permissions)
         /\ Asked("predicates") \subseteq principal.satisfies
         /\ principal.type = Guard.principal
         /\ \A c \in shown : c.name # Guard.source

\* The answer says whose fault it is: only an authenticated request is
\* forbidden, a refused credential is never a server error, and a request
\* without one usable credential is unauthorized (passport/error.rs).
AnswersFollowCause ==
  /\ answer = "forbidden" => principal # NoPrincipal /\ ~ installed
  /\ answer \in {"unauthorized", "internal"} => principal = NoPrincipal /\ ~ installed
  /\ answer = "internal" =>
       \/ token.verdict = "internal"
       \/ token.verdict = "good" /\ token.kind = Binding.strategy.kind
            /\ Binding.strategy # BuiltinStrategy

=============================================================================

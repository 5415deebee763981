------------------------------ MODULE Gateway -------------------------------
(***************************************************************************)
(* The HTTP side of the service: the middleware chain in front of the      *)
(* routes (concurrency limit, CORS, CSRF, authentication, rate limit), the *)
(* handlers behind it, and the orderly shutdown that runs beside them.     *)
(*                                                                         *)
(* A request is a record of what the chain looks at.  The selections of a  *)
(* GraphQL document are the paths from the root to the leaves of its       *)
(* selection tree, each a sequence of "field", "inline" and "spread".      *)
(***************************************************************************)
EXTENDS Integers, Sequences, FiniteSets, SequencesExt, FiniteSetsExt

CONSTANTS
    Conns,      \* connections
    Sites,      \* configurations: [slots, mode, allowGet, auth, origins,
                \* extractor, proxies, issuer], with the requests clients send
    ApiKeys,    \* auth.api_key.keys, in order: [id, secret, expired, ...]
    Algorithm,  \* auth.jwt.algorithm
    MaxDepth,   \* graphql.max_query_depth
    Nobody      \* no identity

\* A request carries its lines of X-Forwarded-For, each a list of addresses
\* (blank ones, which are skipped, left out), and finitely many selections.
ASSUME GatewayConstants ==
    /\ IsFiniteSet(Conns)
    /\ MaxDepth \in Nat
    /\ \A s \in Sites :
          /\ s.slots \in Nat
          /\ \A r \in s.requests :
                /\ r.forwarded \in Seq(ToSet(r.forwarded))
                /\ \A l \in ToSet(r.forwarded) : l \in Seq(ToSet(l))
                /\ IsFiniteSet(r.selections)
                /\ \A p \in r.selections : p \in Seq({"field", "inline", "spread"})

VARIABLES
    site,       \* the configuration in force
    sem,        \* slots of the concurrency limit in use
    conn,       \* the requests under way
    phase,      \* how far the process is on its way down
    closed,     \* the data sources are closed
    forced      \* history: the wait for open requests ran out

gatewayVars == <<site, sem, conn, phase, closed, forced>>

NoRequest == [step |-> "idle", req |-> Nobody, held |-> FALSE, who |-> Nobody,
              key |-> <<>>, answer |-> "none"]

Public == {"/health", "/ready", "/metrics", "/playground"}
isPublicEndpoint(r) == r.path \in Public

GatewayInit ==
    /\ site \in Sites /\ sem = 0 /\ phase = "serving"
    /\ closed = FALSE /\ forced = FALSE
    /\ conn = [c \in Conns |-> NoRequest]

-----------------------------------------------------------------------------
(* CORS and CSRF                                                           *)

\* A preflight of an allowed origin is answered at once; other origins pass,
\* without the headers.
CORS(r) ==
    IF r.origin # "" /\ r.origin \in site.origins /\ r.method = "OPTIONS"
    THEN "preflight" ELSE "pass"

isGraphQLPath(r) == r.path \in {"/graphql", "/graphql/"}

CSRFProtection(r) ==
    IF ~isGraphQLPath(r) THEN "pass"
    ELSE IF r.method = "GET" /\ site.mode = "production" /\ ~site.allowGet
         THEN "forbidden"
    ELSE IF r.method = "POST" /\ ~r.json THEN "unsupported"
    ELSE "pass"

-----------------------------------------------------------------------------
(* Authentication                                                          *)

\* Parsing checks the algorithm, the signature, the expiry and, when one is
\* configured, the issuer.
TokenValid(t) ==
    /\ t.alg = Algorithm /\ t.signed /\ ~t.expired
    /\ site.issuer # "" => t.issuer = site.issuer

\* A token without a list of operations may query; one without a subject has
\* the subject "", which is the same for all of them.
JWTAuthenticate(r) ==
    IF r.bearer # Nobody /\ TokenValid(r.bearer)
    THEN [method |-> "jwt", subject |-> r.bearer.sub,
          operations |-> IF r.bearer.operations = Nobody THEN {"query"}
                         ELSE r.bearer.operations]
    ELSE Nobody

\* The first key whose hash matches decides, expired or not.
APIKeyAuthenticate(r) ==
    LET hits == {i \in DOMAIN ApiKeys : ApiKeys[i].secret = r.apiKey} IN
    IF hits # {} /\ ~ApiKeys[Min(hits)].expired
    THEN [method |-> "apikey", subject |-> ApiKeys[Min(hits)].id,
          operations |-> ApiKeys[Min(hits)].operations]
    ELSE Nobody

Authenticate(r) ==
    IF site.auth = "jwt" THEN JWTAuthenticate(r) ELSE APIKeyAuthenticate(r)

AuthRequired(r) == site.auth # "none" /\ ~isPublicEndpoint(r)

-----------------------------------------------------------------------------
(* The key of the rate limit                                               *)

isTrusted(ip) == ip \in site.proxies

\* r.Header.Get("X-Forwarded-For"): the first line of that name, if any.
HeaderGet(r) == IF r.forwarded = <<>> THEN <<>> ELSE r.forwarded[1]

\* Behind a trusted proxy, the last address of the first line that is not a
\* proxy itself.
ExtractClientIP(r) ==
    LET line == HeaderGet(r)
        hops == {i \in DOMAIN line : ~isTrusted(line[i])}
    IN IF isTrusted(r.remote) /\ hops # {} THEN line[Max(hops)] ELSE r.remote

\* The extractor belongs to the limiter of failed authentications: without
\* it the address of the connection counts.
extractRateLimitKey(r, who) ==
    IF who # Nobody THEN <<who.method, who.subject>>
    ELSE <<"ip", IF site.extractor THEN ExtractClientIP(r) ELSE r.remote>>

-----------------------------------------------------------------------------
(* The way of a request through the chain                                  *)

Answer(c, what) == [conn EXCEPT ![c] = [@ EXCEPT !.step = "answered", !.answer = what]]

Accept(c) ==
    /\ phase = "serving" /\ conn[c].step = "idle"
    /\ \E r \in site.requests :
          conn' = [conn EXCEPT ![c] = [NoRequest EXCEPT !.step = "arrived",
                                                        !.req = r]]
    /\ UNCHANGED <<site, sem, phase, closed, forced>>

\* Without a limit, and for probes, no slot is needed.
Exempt(r) == site.slots = 0 \/ isPublicEndpoint(r)

\* MaxConcurrentRequests: a slot if one is free, an error if not.
TakeSlot(c) ==
    /\ conn[c].step = "arrived"
    /\ LET r == conn[c].req IN
       \/ /\ Exempt(r)
          /\ conn' = [conn EXCEPT ![c].step = "inside"] /\ UNCHANGED sem
       \/ /\ ~Exempt(r) /\ sem < site.slots
          /\ conn' = [conn EXCEPT ![c] = [@ EXCEPT !.step = "inside", !.held = TRUE]]
          /\ sem' = sem + 1
       \/ /\ ~Exempt(r) /\ sem >= site.slots
          /\ conn' = Answer(c, "capacity") /\ UNCHANGED sem
    /\ UNCHANGED <<site, phase, closed, forced>>

Stopped(r) == IF CORS(r) # "pass" THEN CORS(r) ELSE CSRFProtection(r)

StopRequest(c) ==
    /\ conn[c].step = "inside" /\ Stopped(conn[c].req) # "pass"
    /\ conn' = Answer(c, Stopped(conn[c].req))
    /\ UNCHANGED <<site, sem, phase, closed, forced>>

\* AuthMiddleware answers 401 and tells nobody: no code outside the tests
\* calls RecordFailure.
RefuseUnknown(c) ==
    LET r == conn[c].req IN
    /\ conn[c].step = "inside" /\ Stopped(r) = "pass"
    /\ AuthRequired(r) /\ Authenticate(r) = Nobody
    /\ conn' = Answer(c, "unauthorized")
    /\ UNCHANGED <<site, sem, phase, closed, forced>>

\* The check of the failure limiter comes next and finds no record.
PassGuards(c) ==
    LET r == conn[c].req
        who == IF AuthRequired(r) THEN Authenticate(r) ELSE Nobody
    IN
    /\ conn[c].step = "inside" /\ Stopped(r) = "pass"
    /\ AuthRequired(r) => who # Nobody
    /\ conn' = [conn EXCEPT ![c] =
                   [@ EXCEPT !.who = who,
                             !.step = IF isPublicEndpoint(r) THEN "routed" ELSE "limit",
                             !.key = IF isPublicEndpoint(r) THEN <<>>
                                     ELSE extractRateLimitKey(r, who)]]
    /\ UNCHANGED <<site, sem, phase, closed, forced>>

\* RateLimitMiddleware: an error of the limiter lets the request through.
RateLimit(c) ==
    /\ conn[c].step = "limit"
    /\ \/ conn' = [conn EXCEPT ![c].step = "routed"]
       \/ conn' = Answer(c, "limited")
    /\ UNCHANGED <<site, sem, phase, closed, forced>>

-----------------------------------------------------------------------------
(* The handlers                                                            *)

\* GET /graphql exists in development or when allowed.
HasRoute(r) ==
    \/ r.method = "GET" /\ r.path \in {"/health", "/ready", "/metrics"}
    \/ r.method = "GET" /\ r.path \in {"/", "/playground"} /\ site.mode = "development"
    \/ r.path = "/graphql" /\ r.method = "POST"
    \/ r.path = "/graphql" /\ r.method = "GET"
                           /\ (site.allowGet \/ site.mode = "development")

\* Every level of selections counts, those of fragments too.
selectionSetDepth(path) == Len(path)

\* The deepest selection of the operations of the document.
calcSelectionSetDepth(r) == Max({0} \cup {selectionSetDepth(p) : p \in r.selections})
TooDeep(r) == MaxDepth > 0 /\ calcSelectionSetDepth(r) > MaxDepth

\* Liveness has no components to ask; readiness needs one healthy source; a
\* query reaches a source, which may be closed, fail or outlast the request.
Outcomes(r) ==
    IF ~HasRoute(r) THEN {"no route"}
    ELSE IF r.path = "/ready" THEN {"not ready"} \cup (IF closed THEN {} ELSE {"ok"})
    ELSE IF r.path # "/graphql" THEN {"ok"}
    ELSE IF TooDeep(r) THEN {"too deep"}
    ELSE IF closed THEN {"closed"}
    ELSE {"ok", "failed", "timeout"}

Serve(c) ==
    /\ conn[c].step = "routed"
    /\ \E what \in Outcomes(conn[c].req) : conn' = Answer(c, what)
    /\ UNCHANGED <<site, sem, phase, closed, forced>>

\* net/http recovers a panicking handler; the deferred functions run.
HandlerPanics(c) ==
    /\ conn[c].step = "routed" /\ conn[c].req.path = "/graphql"
    /\ conn' = Answer(c, "panic")
    /\ UNCHANGED <<site, sem, phase, closed, forced>>

\* Mutant: a panic skips the release.
Leave_Leaks(c) ==
    /\ conn[c].step = "answered"
    /\ sem' = IF conn[c].held /\ conn[c].answer # "panic" THEN sem - 1 ELSE sem
    /\ conn' = [conn EXCEPT ![c] = NoRequest]
    /\ UNCHANGED <<site, phase, closed, forced>>

\* The answer is written and the slot given back.
Leave(c) ==
    /\ conn[c].step = "answered"
    /\ sem' = IF conn[c].held THEN sem - 1 ELSE sem
    /\ conn' = [conn EXCEPT ![c] = NoRequest]
    /\ UNCHANGED <<site, phase, closed, forced>>

-----------------------------------------------------------------------------
(* Shutdown                                                                *)

Signal ==
    /\ phase = "serving" /\ phase' = "draining"
    /\ UNCHANGED <<site, sem, conn, closed, forced>>

NothingOpen == \A c \in Conns : conn[c].step = "idle"

\* Mutant: Shutdown is called with a context that is already done.
ShutdownReturns_AtOnce ==
    /\ phase = "draining" /\ phase' = "tracing" /\ UNCHANGED forced
    /\ UNCHANGED <<site, sem, conn, closed>>

\* Shutdown of the HTTP server returns when no request is open, or when
\* max_wait_time has passed.
ShutdownReturns ==
    /\ phase = "draining" /\ phase' = "tracing"
    /\ forced' = ~NothingOpen
    /\ UNCHANGED <<site, sem, conn, closed>>

\* Mutant: Stop of the watcher waits for a loop that never ends.
After_WatcherHangs == [tracing |-> "reloader", reloader |-> "watcher",
                       engine |-> "sources"]

\* Tracing, configuration reloader, template watcher and template engine
\* stop in this order, whatever they return.
After == [tracing |-> "reloader", reloader |-> "watcher",
          watcher |-> "engine", engine |-> "sources"]

StopNext ==
    /\ phase \in DOMAIN After /\ phase' = After[phase]
    /\ UNCHANGED <<site, sem, conn, closed, forced>>

CloseSources ==
    /\ phase = "sources" /\ phase' = "exiting" /\ closed' = TRUE
    /\ UNCHANGED <<site, sem, conn, forced>>

\* main returns: requests still open are cut off.
Exit ==
    /\ phase = "exiting" /\ phase' = "exited"
    /\ conn' = [c \in Conns |-> NoRequest] /\ sem' = 0
    /\ UNCHANGED <<site, closed, forced>>

ConnStep(c) ==
    \/ TakeSlot(c) \/ StopRequest(c) \/ RefuseUnknown(c) \/ PassGuards(c)
    \/ RateLimit(c) \/ Serve(c) \/ HandlerPanics(c) \/ Leave(c)

ShutdownStep == ShutdownReturns \/ StopNext \/ CloseSources \/ Exit

GatewayNext ==
    \/ phase # "exited" /\ \E c \in Conns : Accept(c) \/ ConnStep(c)
    \/ Signal \/ ShutdownStep

\* The server schedules every request, request_timeout ends the slow ones,
\* and every step of the shutdown has a timeout.
GatewayFairness ==
    /\ \A c \in Conns : WF_gatewayVars(phase # "exited" /\ ConnStep(c))
    /\ WF_gatewayVars(ShutdownStep)

GatewaySpec == GatewayInit /\ [][GatewayNext]_gatewayVars /\ GatewayFairness

-----------------------------------------------------------------------------
(* Properties                                                              *)

\* The channel of the concurrency limit holds one token for each request
\* inside, never more than the limit, whichever way requests end.
SlotsAreAccountedFor ==
    /\ sem = Cardinality({c \in Conns : conn[c].held})
    /\ site.slots > 0 => sem <= site.slots

\* Probes are served whatever the load and the limits: a GET of /health or
\* /ready is never refused for want of a slot, a credential or a token.
ProbesAreServed ==
    \A c \in Conns :
        conn[c].step = "answered" /\ conn[c].req.method = "GET"
        /\ conn[c].req.path \in {"/health", "/ready"}
            => conn[c].answer \in {"ok", "not ready"}

\* The last hop of the chain of addresses that is no proxy, for a request
\* whose chain is on one line.
LastUntrusted(r) ==
    LET chain == Append(HeaderGet(r), r.remote)
        hops == {i \in DOMAIN chain : ~isTrusted(chain[i])}
    IN IF hops = {} THEN r.remote ELSE chain[Max(hops)]

\* Callers that prove who they are are counted under the name their token or
\* API key gives them (tokens without a sub have the same one, and share a
\* bucket); the others at the last address before the proxies, whatever stands
\* in front of it, if the proxies keep the chain on one line: of several lines
\* of X-Forwarded-For the code reads the first only.
KeysFollowCallers ==
    \A c \in Conns :
        conn[c].step = "limit" =>
            IF AuthRequired(conn[c].req)
            THEN conn[c].key = <<conn[c].who.method, conn[c].who.subject>>
            ELSE site.extractor /\ Len(conn[c].req.forwarded) <= 1 =>
                     conn[c].key = <<"ip", LastUntrusted(conn[c].req)>>

\* How deep the fields of a selection nest.
FieldsOf(p) == {i \in DOMAIN p : p[i] = "field"}

\* No resolver runs for a document whose fields nest deeper than the limit,
\* when there is one.
DepthIsBounded ==
    \A c \in Conns :
        MaxDepth > 0 /\ conn[c].answer \in {"ok", "failed", "timeout"}
        /\ conn[c].req.path = "/graphql"
            => \A p \in conn[c].req.selections :
                  Cardinality(FieldsOf(p)) <= MaxDepth

\* The limits of the middleware chain count what they are about: slots the
\* requests inside, buckets the callers, depth the nested fields; and none of
\* them keeps a probe from its answer.
LimitsHold ==
    /\ SlotsAreAccountedFor
    /\ ProbesAreServed
    /\ KeysFollowCallers
    /\ DepthIsBounded

\* A shutdown that did not run out of time closes the sources behind the last
\* request: nobody is told that they are closed.
DrainedBeforeClose ==
    ~forced => \A c \in Conns : conn[c].answer # "closed"
                                /\ (closed => conn[c].step = "idle")

\* A signal leads to the end of the process, and every request that was
\* accepted comes to its end.
RunsToTheEnd ==
    /\ (phase = "draining") ~> (phase = "exited")
    /\ \A c \in Conns : (conn[c].step = "arrived") ~> (conn[c].step = "idle")

-----------------------------------------------------------------------------
(* Inductive invariant                                                     *)

\* The type invariant: what the variables of the chain hold.
GatewayTypeOK ==
    /\ site \in Sites /\ sem \in Nat
    /\ DOMAIN conn = Conns
    /\ \A c \in Conns :
          /\ DOMAIN conn[c] = {"step", "req", "held", "who", "key", "answer"}
          /\ conn[c].step \in {"idle", "arrived", "inside", "limit", "routed", "answered"}
          /\ conn[c].step # "idle" => conn[c].req \in site.requests
          /\ conn[c].held \in BOOLEAN
    /\ phase \in {"serving", "draining", "sources", "exiting", "exited"} \cup DOMAIN After
    /\ closed \in BOOLEAN /\ forced \in BOOLEAN

\* A request has no slot before it has asked for one, no answer before the end
\* of its way, and asks the rate limit only outside the public endpoints.
WayIsKept ==
    \A c \in Conns :
        /\ conn[c].step \in {"idle", "arrived"} => ~conn[c].held
        /\ conn[c].step # "answered" => conn[c].answer = "none"
        /\ conn[c].step = "limit" => ~isPublicEndpoint(conn[c].req)

\* The sources close last, and behind a drain that was not forced nothing is
\* open any more.
ShutdownIsOrdered ==
    /\ closed <=> phase \in {"exiting", "exited"}
    /\ ~forced /\ phase \notin {"serving", "draining"} => NothingOpen
    /\ \A c \in Conns : conn[c].answer = "closed" => closed

GatewayInv == GatewayTypeOK /\ WayIsKept /\ ShutdownIsOrdered /\ LimitsHold
=============================================================================

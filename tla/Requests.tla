------------------------------ MODULE Requests ------------------------------
(***************************************************************************)
(* The way of a tool call through the service: the operator HTTP server    *)
(* (app/server.ts), its REST routes and its MCP endpoint (app/mcp-http.ts, *)
(* mcp/server.ts), the stdio server, authentication by a static token or a *)
(* verified JWT, organization and scope checks, the instrumented tool      *)
(* registry with its audit log, and the request metrics.                   *)
(*                                                                         *)
(* A client makes one request. Between two awaits of the code nothing else *)
(* runs, so an action is what happens up to the next one: reading a key    *)
(* set, the body, the user's answer to an elicitation, the tool's handler. *)
(* What a handler does is the business of the other modules: here it is a  *)
(* call with the organization it acts for, and an outcome.                 *)
(***************************************************************************)
EXTENDS Naturals, FiniteSets, Sequences, TLC

CONSTANTS
    Clients,
    Asks,           \* for each client, the requests it may make
    Configurations, \* [loopback, tokens: credential -> organization, oauth, keySets, limit]
    Claims,         \* what a JWT claims: credential -> [issuer, good, scopes, org]
    Metadata,       \* of each issuer, its metadata URLs in order: holds it the document?
    Trimmed,        \* texts with space around them -> without
    NoOrg, Blank, Twice,    \* an absent organization, white space, a header given twice
    NoTool, NoLimit,
    MaxOutages      \* bound on how often an issuer becomes unreachable

ASSUME ClientsAssumption == IsFiniteSet(Clients)

(* A body, a claim and the configuration hold an organization once; those of the
   configuration are trimmed and not blank (parseBearerEntry). *)
ASSUME OrganizationsAssumption ==
    /\ NoOrg \notin {Blank, Twice}
    /\ \A text \in DOMAIN Trimmed : Trimmed[text] \notin {NoOrg, Blank, Twice}
    /\ \A c \in Clients : \A q \in Asks[c] : q.org # Twice
    /\ \A b \in DOMAIN Claims : Claims[b].org # Twice
    /\ \A cfg \in Configurations : \A b \in DOMAIN cfg.tokens :
            cfg.tokens[b] \notin {Blank, Twice}

Urls == {"stdio", "/v1", "/mcp", "/healthz", "/readyz", "/metrics", "/admin/memory", "/metadata"}

(* One of an issuer's metadata URLs holds the document with the URL of its keys. *)
ASSUME MetadataAssumption ==
    \A b \in DOMAIN Claims :
        LET holds == Metadata[Claims[b].issuer]
        IN  holds \in Seq(BOOLEAN) /\ \E url \in 1 .. Len(holds) : holds[url]

(* A request comes by one of the ways in; the rate limit is a number of tokens, or off. *)
ASSUME BoundsAssumption ==
    /\ \A c \in Clients : \A q \in Asks[c] : q.url \in Urls
    /\ \A cfg \in Configurations : cfg.limit # NoLimit => cfg.limit \in Nat
    /\ MaxOutages \in Nat

VARIABLES
    config,     \* the configuration of the process
    serving,    \* the HTTP server: starting, listening, or refused by the startup gate
    reachable,  \* the issuers that answer
    outages,    \* how often one stopped answering
    jwks,       \* the issuers whose key set resolver is memoized
    tried,      \* of each client: the metadata URLs its discovery has tried
    missed,     \* the clients whose fetch of the document or the keys met an outage
    bucket,     \* tokens left in the rate limiter's buckets
    phase,      \* of each client: idle, probing, discovering, verifying, reading,
                \* eliciting, running, answered, and finished: the response was sent
    request,    \* of each client: what it asked
    connected,  \* the clients still there
    auth,       \* of each client: the token it was matched with
    acting,     \* of each client: the organization its call acts for
    session,    \* of each client: its MCP server and transport: none, open, closed
    answer,     \* of each client: the status it was answered
    counted,    \* the request counter's samples: [route, status] -> count
    audit       \* audit records: [client, tool, org, outcome, state]

process == <<config, serving>>
issuers == <<reachable, outages, jwks>>
discovery == <<tried, missed>>
call == <<phase, answer, counted>>
vars == <<process, issuers, discovery, bucket, request, connected, auth, acting, session, call,
          audit>>

Statuses == {200, 400, 401, 403, 404, 405, 413, 429, 500, 503}

Nobody == [kind |-> "none", org |-> NoOrg, scopes |-> {}]
NoRequest == [url |-> "/v1", method |-> "GET", local |-> TRUE, bearer |-> Blank,
              header |-> NoOrg, org |-> NoOrg, body |-> "object", tool |-> NoTool,
              apply |-> FALSE, input |-> "valid", capable |-> FALSE]

Trim(text) == IF text \in DOMAIN Trimmed THEN Trimmed[text] ELSE text

-----------------------------------------------------------------------------
(* The tools, and who may call them *)

(* SERVICE_TOOL_DESCRIPTORS, by what a caller needs. *)
CreatingTools == {"add_memory", "start_goal_run", "record_iteration", "complete_goal_run",
                  "abandon_goal_run"}
AdminTools == {"reindex_memory", "unarchive_memory", "list_audit_log", "update_memory",
               "delete_memory", "tag_memory"}
ServiceTools ==
    CreatingTools \cup AdminTools \cup
        {"search_memory", "list_memory", "inspect_memory_graph", "build_context_pack",
         "compact_memory", "get_goal_run", "list_goal_runs", "build_goal_context",
         "check_repeat_attempt"}

ContextTools == {"list_workspace_roots", "add_memory_interactive",
                 "classify_memory_candidate"}

(* A call of these without a project is invalid over REST, and throws over MCP,
   where the tool's schema is not refined. *)
ScopedTools == {"add_memory", "compact_memory", "list_memory", "inspect_memory_graph",
                "start_goal_run", "list_goal_runs"}

(* Mutant: compact_memory is read as the dry run it is by default. *)
CompactionReads(tool, apply) ==
    CASE tool \in CreatingTools \cup {"add_memory_interactive"} -> "write"
      [] tool \in AdminTools -> "admin"
      [] OTHER -> "read"

RequiredScopeKind(tool, apply) ==
    CASE tool \in CreatingTools \cup {"add_memory_interactive"} -> "write"
      [] tool \in AdminTools -> "admin"
      [] tool = "compact_memory" /\ apply -> "admin"
      [] OTHER -> "read"

AcceptedScopes(kind) ==
    {"memory", "admin"} \cup (IF kind = "admin" THEN {} ELSE {kind})

CheckOAuthScopes(a, q) ==
    a.kind = "oauth" =>
        a.scopes \cap AcceptedScopes(RequiredScopeKind(q.tool, q.apply)) # {}

AuthEnabled == config.tokens # << >> \/ config.oauth

(* assertSafeAuthConfig *)
SafeAuthConfig == AuthEnabled \/ config.loopback

(* resolveOrganizationId: the header before the body; a bound token admits no
   other than its own, and stands in where the caller names none. *)
CallerOrg(q) == IF q.header # NoOrg THEN Trim(q.header) ELSE Trim(q.org)

ResolvedOrg(a, q) == IF a.org # NoOrg THEN a.org ELSE CallerOrg(q)

OrgStatus(a, q) ==
    CASE q.header \in {Blank, Twice} \/ q.org = Blank -> 400
      [] a.org # NoOrg /\ CallerOrg(q) \notin {NoOrg, a.org} -> 403
      [] OTHER -> 200

(* The check of withAuthenticatedRegistry and createMcpToolAuthorizer. *)
SameOrg(a, q) == a.org # NoOrg /\ q.org # NoOrg => Trim(q.org) = a.org

-----------------------------------------------------------------------------
(* Steps of a request *)

Samples(sample) == IF sample \in DOMAIN counted THEN counted[sample] ELSE 0

Plus(sample) == [s \in DOMAIN counted \cup {sample} |->
                    IF s = sample THEN Samples(s) + 1 ELSE counted[s]]

SampleOf(c) == <<request[c].url, answer[c]>>

(* Mutant: the request is counted when the response closes, sent or not. *)
CountedAtClose(c, event) == IF answer[c] = 0 THEN counted ELSE Plus(SampleOf(c))

(* observeRequestMetrics: on "finish", and not on the "close" of a response that
   was not sent. *)
Observed(c, event) == IF event = "finish" THEN Plus(SampleOf(c)) ELSE counted

(* The response is written: sent, it "finish"es. *)
Answered(c, status) ==
    /\ phase' = [phase EXCEPT ![c] = "answered"]
    /\ answer' = [answer EXCEPT ![c] = status]
    /\ UNCHANGED counted

Continues(c, p) ==
    /\ phase' = [phase EXCEPT ![c] = p]
    /\ UNCHANGED <<answer, counted>>

BucketOf(a, q) == IF a.kind = "none" THEN "anonymous" ELSE q.bearer

(* Mutant: the bucket is emptied below zero. *)
OverLimit(key) == config.limit # NoLimit /\ bucket[key] < 0

Limited(key) == config.limit # NoLimit /\ bucket[key] = 0

IsRoute(q) ==
    \/ q.url = "/mcp"
    \/ q.url = "/v1" /\ q.method = "POST" /\ q.tool \in ServiceTools

(* The rate limit, then the route: in one step with what ended the authentication.
   An MCP request gets a server and a transport of its own. *)
Admit(c, q, a) ==
    LET limited == Limited(BucketOf(a, q))
    IN  /\ auth' = [auth EXCEPT ![c] = a]
        /\ IF limited \/ config.limit = NoLimit
           THEN UNCHANGED bucket
           ELSE bucket' = [bucket EXCEPT ![BucketOf(a, q)] = @ - 1]
        /\ \/ limited /\ Answered(c, 429) /\ UNCHANGED session
           \/ ~ limited /\ ~ IsRoute(q) /\ Answered(c, 404) /\ UNCHANGED session
           \/ /\ ~ limited /\ IsRoute(q)
              /\ Continues(c, "reading")
              /\ session' = [session EXCEPT ![c] = IF q.url = "/mcp" THEN "open" ELSE @]

Unauthorized(c) == Answered(c, 401) /\ UNCHANGED <<auth, bucket, session>>

(* What is left to the verifier: a JWT of an issuer it knows. *)
Verifiable(bearer) == config.oauth /\ bearer \in DOMAIN Claims

(* matchBearer *)
StaticToken(bearer) == [kind |-> "static", org |-> config.tokens[bearer], scopes |-> {}]

(* authenticateBearer, up to its first await. *)
Authenticate(c, q) ==
    \/ q.bearer \in DOMAIN config.tokens /\ Admit(c, q, StaticToken(q.bearer))
    \/ /\ q.bearer \notin DOMAIN config.tokens /\ ~ Verifiable(q.bearer)
       /\ Unauthorized(c)
    \/ /\ q.bearer \notin DOMAIN config.tokens /\ Verifiable(q.bearer)
       /\ Continues(c, IF Claims[q.bearer].issuer \in jwks
                       THEN "verifying" ELSE "discovering")
       /\ UNCHANGED <<auth, bucket, session>>

(* What is answered before authentication. *)
IsPublic(q) ==
    /\ q.method = "GET"
    /\ \/ q.url \in {"/healthz", "/readyz", "/metrics", "/admin/memory"}
       \/ q.url = "/metadata" /\ config.oauth

(* The Host and Origin headers name this machine. *)
FromThisMachine(q) == q.local

McpStatus(q) ==
    IF q.method \notin {"GET", "POST", "DELETE"} THEN 405
    ELSE IF FromThisMachine(q) THEN 200 ELSE 403

(* The request listener of createOperatorServer; a line on stdin for the stdio server. *)
Receive(c, q) ==
    /\ phase[c] = "idle" /\ q \in Asks[c]
    /\ q.url # "stdio" => serving = "listening"
    /\ request' = [request EXCEPT ![c] = q]
    /\ \/ q.url = "stdio" /\ Continues(c, "reading") /\ UNCHANGED <<auth, bucket, session>>
       \/ /\ IsPublic(q)
          /\ IF q.url \in {"/readyz", "/metrics"}
             THEN Continues(c, "probing") ELSE Answered(c, 200)
          /\ UNCHANGED <<auth, bucket, session>>
       \/ /\ q.url = "/mcp" /\ McpStatus(q) # 200
          /\ Answered(c, McpStatus(q)) /\ UNCHANGED <<auth, bucket, session>>
       \/ /\ q.url # "stdio" /\ ~ IsPublic(q) /\ (q.url = "/mcp" => McpStatus(q) = 200)
          /\ IF AuthEnabled THEN Authenticate(c, q) ELSE Admit(c, q, Nobody)
    /\ UNCHANGED <<process, issuers, discovery, connected, acting, audit>>

(* A report of probes of which each may fail; a backlog that cannot be collected
   is left out of the metrics. *)
ProbeStatuses(url) == IF url = "/readyz" THEN {200, 503} ELSE {200}

Probed(c) ==
    /\ phase[c] = "probing"
    /\ \E status \in ProbeStatuses(request[c].url) : Answered(c, status)
    /\ UNCHANGED <<process, issuers, discovery, bucket, request, connected, auth, acting, session,
                   audit>>

Issuer(c) == Claims[request[c].bearer].issuer

(* Mutant: the first metadata URL without the document ends the discovery. *)
EndsAtFirst(i, url) == TRUE

IsLastUrl(i, url) == url = Len(Metadata[i])

(* getJwks, discoverJwksUrl: the metadata URLs are fetched one after the other,
   and only a discovered key set is memoized. A fetch is the moment at which the
   issuer answers it or does not. *)
DiscoverJwks(c) ==
    LET i == Issuer(c)
        url == tried[c] + 1
        found == i \in reachable /\ Metadata[i][url]
    IN  /\ phase[c] = "discovering"
        /\ tried' = [tried EXCEPT ![c] = url]
        /\ missed' = IF Metadata[i][url] /\ ~ found THEN missed \cup {c} ELSE missed
        /\ \/ found /\ jwks' = jwks \cup {i} /\ Continues(c, "verifying")
           \/ ~ found /\ ~ IsLastUrl(i, url) /\ UNCHANGED jwks /\ Continues(c, "discovering")
           \/ ~ found /\ IsLastUrl(i, url) /\ UNCHANGED jwks /\ Answered(c, 401)
        /\ UNCHANGED <<process, reachable, outages, bucket, request, connected, auth, acting,
                       session, audit>>

(* The verified token; an organization claim that is blank makes verify throw. *)
OAuthToken(claims) == [kind |-> "oauth", org |-> Trim(claims.org), scopes |-> claims.scopes]

Accepted(claims) == claims.good /\ claims.org # Blank

(* jwtVerify: the keys may have been fetched before the issuer went away. *)
VerifyJwt(c) ==
    /\ phase[c] = "verifying"
    /\ LET claims == Claims[request[c].bearer]
       IN  \/ Accepted(claims) /\ Admit(c, request[c], OAuthToken(claims)) /\ UNCHANGED missed
           \/ ~ Accepted(claims) /\ Unauthorized(c) /\ UNCHANGED missed
           \/ Issuer(c) \notin reachable /\ Unauthorized(c) /\ missed' = missed \cup {c}
    /\ UNCHANGED <<process, issuers, tried, request, connected, acting, audit>>

-----------------------------------------------------------------------------
(* The body, the checks, the call *)

(* Mutant: the error path leaves the server and the transport open. *)
LeftOpen(c) == session[c]

(* finally: the MCP server and transport are closed when the request failed. *)
CleanedUp(c) == IF session[c] = "open" THEN "closed" ELSE session[c]

RejectBody(c, status) ==
    /\ Answered(c, status)
    /\ session' = [session EXCEPT ![c] = CleanedUp(c)]
    /\ UNCHANGED acting

Reply(c, status) == Answered(c, status) /\ UNCHANGED <<session, acting>>

Invoke(c, org) ==
    /\ Continues(c, "running")
    /\ acting' = [acting EXCEPT ![c] = org]
    /\ UNCHANGED session

(* buildToolRouteHandler, after readJsonBody: body, organization, scopes, input. *)
RestStatus(a, q) ==
    IF q.body # "object" THEN 400
    ELSE IF OrgStatus(a, q) # 200 THEN OrgStatus(a, q)
    ELSE IF ~ CheckOAuthScopes(a, q) THEN 403
    ELSE IF q.input = "invalid" \/ (q.input = "projectless" /\ q.tool \in ScopedTools)
         THEN 400 ELSE 200

CallRoute(c) ==
    LET status == RestStatus(auth[c], request[c])
    IN  \/ status # 200 /\ Reply(c, status)
        \/ status = 200 /\ Invoke(c, ResolvedOrg(auth[c], request[c]))

(* Mutant: the input goes to the handler as it came. *)
NamedOrg(a, q) == Trim(q.org)

(* withAuthenticatedRegistry's enriched input, or the input as it is. *)
EnrichedOrg(a, q) == IF a.org # NoOrg THEN a.org ELSE Trim(q.org)

McpRefuses(a, q) ==
    q.input = "invalid" \/ q.org = Blank \/ ~ CheckOAuthScopes(a, q) \/ ~ SameOrg(a, q)

(* A resource is read by a call of the tool behind it. *)
ReadsResource(q) == q.body = "resource" /\ q.tool \in {"search_memory", "build_context_pack"}

CallsTool(q) == q.body = "object" /\ q.tool # NoTool

(* transport.handleRequest. The tools that ask the client are told what it can
   do when it initializes the session, which a request of the stateless HTTP
   endpoint never sees: only a stdio client is asked. *)
CallTool(c) ==
    LET q == request[c]
        calls == (CallsTool(q) \/ ReadsResource(q)) /\ ~ McpRefuses(auth[c], q)
        asks == q.tool \in ContextTools
    IN  \/ q.url = "/mcp" /\ q.body = "oversized" /\ RejectBody(c, 413)
        \/ q.url = "/mcp" /\ q.body = "malformed" /\ RejectBody(c, 400)
        \/ q.body \in {"object", "resource"} /\ ~ calls /\ Reply(c, 200)
        \/ calls /\ asks /\ q.url = "stdio" /\ q.capable
                /\ Continues(c, "eliciting") /\ UNCHANGED <<session, acting>>
        \/ calls /\ asks /\ ~ (q.url = "stdio" /\ q.capable) /\ Reply(c, 200)
        \/ calls /\ ~ asks /\ Invoke(c, EnrichedOrg(auth[c], q))

Truncated(c) == c \notin connected /\ request[c].method = "POST"

ReadBody(c) ==
    /\ phase[c] = "reading"
    /\ \/ Truncated(c) /\ RejectBody(c, 500)
       \/ ~ Truncated(c) /\ request[c].url = "/v1" /\ CallRoute(c)
       \/ ~ Truncated(c) /\ request[c].url # "/v1" /\ CallTool(c)
    /\ UNCHANGED <<process, issuers, discovery, bucket, request, connected, auth, audit>>

(* The client's user accepts, or declines, cancels or lets the request time out;
   only an accepted add_memory_interactive calls the registry. *)
ClientAnswers(c) ==
    /\ phase[c] = "eliciting"
    /\ \/ request[c].tool = "add_memory_interactive" /\ Invoke(c, Trim(request[c].org))
       \/ Reply(c, 200)
    /\ UNCHANGED <<process, issuers, discovery, bucket, request, connected, auth, audit>>

(* A handler returns, or throws; two of its errors have a status of their own. *)
Outcomes(q) ==
    (IF q.input = "projectless" /\ q.tool \in ScopedTools THEN {} ELSE {"ok"})
        \cup {"error"}
        \cup (IF q.tool \in CreatingTools \cup {"update_memory", "check_repeat_attempt"}
              THEN {"secret"} ELSE {})
        \cup (IF q.tool = "compact_memory" /\ q.apply THEN {"busy"} ELSE {})

StatusOf(q, outcome) ==
    CASE q.url # "/v1" -> 200
      [] q.url = "/v1" /\ outcome = "ok" -> 200
      [] q.url = "/v1" /\ outcome = "secret" -> 400
      [] q.url = "/v1" /\ outcome = "busy" -> 429
      [] q.url = "/v1" /\ outcome = "error" -> 500

(* instrument: the record is being written while the result is returned. *)
AuditEntry(c, outcome) ==
    [client |-> c, tool |-> request[c].tool,
     org |-> IF acting[c] = NoOrg THEN "default" ELSE acting[c],
     outcome |-> IF outcome = "ok" THEN "ok" ELSE "error",
     state |-> "writing"]

ToolSettles(c) ==
    /\ phase[c] = "running"
    /\ \E outcome \in Outcomes(request[c]) :
        /\ Answered(c, StatusOf(request[c], outcome))
        /\ audit' = audit \cup {AuditEntry(c, outcome)}
    /\ UNCHANGED <<process, issuers, discovery, bucket, request, connected, auth, acting, session>>

(* record's INSERT succeeds, or fails and is only logged. *)
AuditSettles(entry) ==
    /\ entry.state = "writing"
    /\ \E state \in {"written", "lost"} :
        audit' = (audit \ {entry}) \cup {[entry EXCEPT !.state = state]}
    /\ UNCHANGED <<process, issuers, discovery, bucket, request, connected, auth, acting, session,
                   call>>

-----------------------------------------------------------------------------
(* The process and its surroundings *)

(* startOperatorServer *)
Start ==
    /\ serving = "starting"
    /\ serving' = IF SafeAuthConfig THEN "listening" ELSE "refused"
    /\ UNCHANGED <<config, issuers, discovery, bucket, request, connected, auth, acting, session,
                   call, audit>>

(* A GET of the MCP endpoint opens an event stream, which the server does not end. *)
IsStream(c) == request[c].url = "/mcp" /\ request[c].method = "GET" /\ answer[c] = 200

(* "finish" of a response, and then its "close". *)
Finish(c) ==
    /\ phase[c] = "answered" /\ request[c].url # "stdio" /\ ~ IsStream(c) /\ c \in connected
    /\ phase' = [phase EXCEPT ![c] = "finished"]
    /\ counted' = Observed(c, "finish")
    /\ session' = [session EXCEPT ![c] = CleanedUp(c)]
    /\ UNCHANGED <<process, issuers, discovery, bucket, request, connected, auth, acting, answer,
                   audit>>

(* The client goes: "close" without "finish". The listener is there if the client
   still was when the session was opened. *)
Disconnect(c) ==
    /\ c \in connected /\ request[c].url # "stdio" /\ phase[c] \notin {"idle", "finished"}
    /\ connected' = connected \ {c}
    /\ counted' = Observed(c, "close")
    /\ session' = [session EXCEPT ![c] = CleanedUp(c)]
    /\ UNCHANGED <<process, issuers, discovery, bucket, phase, request, auth, acting, answer,
                   audit>>

AllIssuers == {Claims[b].issuer : b \in DOMAIN Claims}

(* Only a server with a verifier asks an issuer. *)
IssuerDown(i) ==
    /\ config.oauth /\ i \in reachable /\ outages < MaxOutages
    /\ reachable' = reachable \ {i}
    /\ outages' = outages + 1
    /\ UNCHANGED <<process, jwks, discovery, bucket, request, connected, auth, acting, session,
                   call, audit>>

IssuerUp(i) ==
    /\ i \notin reachable
    /\ reachable' = reachable \cup {i}
    /\ UNCHANGED <<process, outages, jwks, discovery, bucket, request, connected, auth, acting,
                   session, call, audit>>

(* Time passes for a bucket of the rate limiter (module RateLimiter). *)
Refill(key) ==
    /\ config.limit # NoLimit /\ bucket[key] < config.limit
    /\ bucket' = [bucket EXCEPT ![key] = @ + 1]
    /\ UNCHANGED <<process, issuers, discovery, request, connected, auth, acting, session, call,
                   audit>>

-----------------------------------------------------------------------------
Init ==
    /\ config \in Configurations
    /\ serving = "starting"
    /\ reachable = AllIssuers /\ outages = 0
    /\ jwks = IF config.keySets THEN AllIssuers ELSE {}
    /\ tried = [c \in Clients |-> 0] /\ missed = {}
    /\ bucket = [key \in {"anonymous"} \cup DOMAIN config.tokens \cup DOMAIN Claims |->
                    IF config.limit = NoLimit THEN 0 ELSE config.limit]
    /\ phase = [c \in Clients |-> "idle"]
    /\ request = [c \in Clients |-> NoRequest]
    /\ connected = Clients
    /\ auth = [c \in Clients |-> Nobody]
    /\ acting = [c \in Clients |-> NoOrg]
    /\ session = [c \in Clients |-> "none"]
    /\ answer = [c \in Clients |-> 0]
    /\ counted = << >>
    /\ audit = {}

RequestSteps(c) ==
    Probed(c) \/ DiscoverJwks(c) \/ VerifyJwt(c) \/ ReadBody(c) \/ ClientAnswers(c)
        \/ ToolSettles(c)

Next ==
    \/ Start
    \/ \E c \in Clients : (\E q \in Asks[c] : Receive(c, q)) \/ RequestSteps(c)
                            \/ Finish(c) \/ Disconnect(c)
    \/ \E entry \in audit : AuditSettles(entry)
    \/ \E i \in AllIssuers : IssuerDown(i) \/ IssuerUp(i)
    \/ \E key \in DOMAIN bucket : Refill(key)

(* Every fetch, query, probe and elicitation settles: by a timeout of ours (the
   probes), of the library (a fetch, an elicitation), or because the service asked
   answers: the pool sets no timeout for a query (db/connection.ts). A response
   written to a client that stays is sent, and an audit record's INSERT settles. *)
Fairness ==
    /\ WF_vars(Start)
    /\ \A c \in Clients : WF_vars(RequestSteps(c)) /\ WF_vars(Finish(c))
    /\ WF_vars(\E entry \in audit : AuditSettles(entry))

Spec == Init /\ [][Next]_vars /\ Fairness

-----------------------------------------------------------------------------
(* Properties *)

Called(c) == phase[c] = "running" \/ \E entry \in audit : entry.client = c

TypeOK ==
    /\ config \in Configurations
    /\ serving \in {"starting", "listening", "refused"}
    /\ reachable \subseteq AllIssuers /\ jwks \subseteq AllIssuers /\ outages \in 0 .. MaxOutages
    /\ tried \in [Clients -> Nat] /\ missed \subseteq Clients
    /\ \A key \in DOMAIN bucket : bucket[key] \in Nat
    /\ phase \in [Clients -> {"idle", "probing", "discovering", "verifying", "reading",
                              "eliciting", "running", "answered", "finished"}]
    /\ \A c \in Clients : request[c] \in Asks[c] \cup {NoRequest}
    /\ connected \subseteq Clients
    /\ \A c \in Clients : auth[c].kind \in {"none", "static", "oauth"}
    /\ session \in [Clients -> {"none", "open", "closed"}]
    /\ answer \in [Clients -> Statuses \cup {0}]
    /\ \A c \in Clients : phase[c] \in {"answered", "finished"} => answer[c] # 0
    /\ DOMAIN counted \subseteq Urls \X Statuses
    /\ \A entry \in audit : entry.client \in Clients /\ entry.state \in {"writing", "written", "lost"}

(* A tool is called for the organization its caller was granted and no other:
   a bound token's own, else the one the request names, the header before the
   body; nobody without a token calls a tool of a server others than this machine
   can reach. What a bound token's caller names is its own organization, but for
   the body of a request whose header names that one: it is not looked at, although
   docs/configuration.md:236-238 and the file's header have it refused. The audit
   record says the organization of the call. (app/middleware/organization-resolution.ts, mcp-http-auth.ts, server.ts
   assertSafeAuthConfig) *)
ActsForGrantedOrg ==
    \A c \in Clients : Called(c) =>
        LET q == request[c]
            named == IF q.url = "/v1" /\ q.header # NoOrg THEN q.header ELSE q.org
        IN  /\ auth[c].kind = "none" => q.url = "stdio" \/ config.loopback
            /\ acting[c] = IF auth[c].org # NoOrg THEN auth[c].org ELSE Trim(named)
            /\ auth[c].org # NoOrg /\ named # NoOrg => Trim(named) = auth[c].org
            /\ acting[c] \notin {Blank, Twice}
            /\ \A entry \in audit : entry.client = c =>
                    entry.org = IF acting[c] = NoOrg THEN "default" ELSE acting[c]

(* Whoever changed something by an OAuth token had a scope for it: "admin" or
   "memory" to alter, restore, archive or read the audit log, those or "write"
   to create, and some scope of ours for anything at all.
   (app/middleware/oauth-token-auth.ts, through either door) *)
EffectsNeedScope ==
    \A c \in Clients : Called(c) /\ auth[c].kind = "oauth" =>
        LET q == request[c] scopes == auth[c].scopes
        IN  /\ scopes \cap {"memory", "admin", "write", "read"} # {}
            /\ q.tool \in AdminTools \/ (q.tool = "compact_memory" /\ q.apply) =>
                    scopes \cap {"memory", "admin"} # {}
            /\ q.tool \in CreatingTools => scopes \cap {"memory", "admin", "write"} # {}

(* A good credential is refused only when the keys to verify it are out of reach:
   a static token never, a JWT only if a fetch made for it, of the document with
   the URL of the keys or of the keys, met an outage of its issuer. An outage
   is not remembered, nor does it matter to the fetch of a metadata URL without
   the document. (app/middleware/bearer-auth.ts, oauth-token-auth.ts getJwks,
   discoverJwksUrl) *)
RefusedOnlyForCause ==
    [][\A c \in Clients : answer[c] # 401 /\ answer'[c] = 401 =>
        LET bearer == request'[c].bearer
        IN  /\ bearer \notin DOMAIN config.tokens
            /\ config.oauth /\ bearer \in DOMAIN Claims /\ Accepted(Claims[bearer]) =>
                    c \in missed']_vars

(* Every request that was received is answered, its response is sent if its
   client stays, its MCP server and transport are closed again and its audit
   record is settled, whenever its client went away. Left out are the event
   stream a GET opens, which ends when its client leaves, and a request without a
   body to read, GET or DELETE, whose client left during the authentication:
   "close" is past when the listener is added. (app/mcp-http.ts) *)
EveryRequestSettles ==
    \A c \in Clients :
        phase[c] # "idle" ~>
            /\ phase[c] \in {"answered", "finished"}
            /\ request[c].url # "stdio" /\ ~ IsStream(c) /\ c \in connected =>
                    phase[c] = "finished"
            /\ session[c] = "open" =>
                    IsStream(c) \/ (c \notin connected /\ request[c].method # "POST")
            /\ \A entry \in audit : entry.client = c => entry.state # "writing"

(* The request counter of /metrics counts each HTTP response that was sent once,
   under its route and status: no answer on stdout, no response whose client
   left before it was sent, and no event stream, open or closed by its client.
   (app/server.ts observeRequestMetrics, app/metrics.ts observeHttpRequest) *)
CountsResponsesOnce ==
    LET sent == {c \in connected : phase[c] = "finished"}
    IN  /\ \A c \in sent : request[c].url # "stdio" /\ ~ IsStream(c)
        /\ DOMAIN counted = {SampleOf(c) : c \in sent}
        /\ \A sample \in DOMAIN counted :
                counted[sample] = Cardinality({c \in sent : SampleOf(c) = sample})
=============================================================================

--------------------------- MODULE RequestsProofs ---------------------------
(***************************************************************************)
(* Requests, for any clients, requests, configurations, tokens and claims: *)
(* whoever reaches a tool was let through by every check. RequestsInv is   *)
(* inductive; the properties of authorization follow from it.              *)
(***************************************************************************)
EXTENDS Requests, FiniteSetTheorems, TLAPS

NamedBy(q) == IF q.url = "/v1" /\ q.header # NoOrg THEN q.header ELSE q.org

\* Token a admits a request q that acts for org.
Grants(a, q, org) ==
    /\ a.kind = "none" => q.url = "stdio" \/ config.loopback
    /\ org = IF a.org # NoOrg THEN a.org ELSE Trim(NamedBy(q))
    /\ a.org # NoOrg /\ NamedBy(q) # NoOrg => Trim(NamedBy(q)) = a.org
    /\ org \notin {Blank, Twice}
    /\ CheckOAuthScopes(a, q)

\* What authentication made of request q.
Admitted(a, q) ==
    /\ a.kind = "none" => q.url = "stdio" \/ config.loopback
    /\ a.org \notin {Blank, Twice}
    /\ q.url = "stdio" => a = Nobody

Entries(c) == {entry \in audit : entry.client = c}

\* What is known of a client's request, by how far it is.
ClientOK(c) ==
    /\ phase[c] = "idle" => auth[c] = Nobody
    /\ phase[c] # "idle" => request[c] \in Asks[c]
    /\ phase[c] \notin {"answered", "finished"} => Entries(c) = {}
    /\ phase[c] \in {"discovering", "verifying"} =>
            /\ request[c].bearer \notin DOMAIN config.tokens
            /\ Verifiable(request[c].bearer)
            /\ request[c].url # "stdio"
    /\ phase[c] \in {"reading", "eliciting", "running"} => Admitted(auth[c], request[c])
    /\ phase[c] = "eliciting" => request[c].url = "stdio" /\ request[c].org # Blank
    /\ Called(c) => Grants(auth[c], request[c], acting[c])
    /\ \A entry \in Entries(c) :
            entry.org = IF acting[c] = NoOrg THEN "default" ELSE acting[c]

Shape ==
    /\ config \in Configurations
    /\ DOMAIN phase = Clients /\ DOMAIN request = Clients /\ DOMAIN auth = Clients
    /\ DOMAIN acting = Clients /\ DOMAIN answer = Clients

RequestsInv ==
    /\ Shape
    /\ serving = "listening" => SafeAuthConfig
    /\ \A c \in Clients : ClientOK(c)

LEMMA InvInit == Init => RequestsInv
BY DEF Init, RequestsInv, Shape, ClientOK, Entries, Called

-----------------------------------------------------------------------------
(* Frames *)

\* A client about whom nothing changed.
LEMMA OthersKeep ==
  ASSUME NEW d \in Clients, ClientOK(d), config' = config,
         phase'[d] = phase[d], request'[d] = request[d], auth'[d] = auth[d],
         acting'[d] = acting[d], Entries(d)' = Entries(d)
  PROVE  ClientOK(d)'
<1>1. Called(d)' <=> Called(d)
  BY DEF Called, Entries
<1>2. \A a, q, org : Grants(a, q, org)' <=> Grants(a, q, org)
  BY DEF Grants, CheckOAuthScopes, NamedBy
<1> QED
  BY <1>1, <1>2 DEF ClientOK, Admitted, Verifiable, Grants, CheckOAuthScopes, NamedBy

\* Only client c takes part.
OneClient(c) ==
    /\ UNCHANGED process
    /\ DOMAIN phase' = Clients /\ DOMAIN request' = Clients /\ DOMAIN auth' = Clients
    /\ DOMAIN acting' = Clients /\ DOMAIN answer' = Clients
    /\ \A d \in Clients \ {c} :
            /\ phase'[d] = phase[d] /\ request'[d] = request[d] /\ auth'[d] = auth[d]
            /\ acting'[d] = acting[d] /\ Entries(d)' = Entries(d)

LEMMA StepKeeps ==
  ASSUME RequestsInv, NEW c \in Clients, OneClient(c), ClientOK(c)'
  PROVE  RequestsInv'
<1>1. \A d \in Clients \ {c} : ClientOK(d)'
  BY OthersKeep DEF RequestsInv, OneClient, process
<1>2. Shape' /\ (serving = "listening" => SafeAuthConfig)'
  BY DEF RequestsInv, Shape, OneClient, process, SafeAuthConfig, AuthEnabled
<1> QED
  BY <1>1, <1>2 DEF RequestsInv

\* A request that has called nothing, and is answered or waits.
LEMMA UncalledKeeps ==
  ASSUME NEW c \in Clients, ClientOK(c), phase[c] \notin {"running", "answered", "finished"},
         UNCHANGED <<config, audit>>, request'[c] \in Asks[c],
         phase'[c] \in {"answered", "probing"}
  PROVE  ClientOK(c)'
BY DEF ClientOK, Called, Entries

\* A request admitted with token a, or turned away after its authentication.
LEMMA AdmitKeeps ==
  ASSUME NEW c \in Clients, NEW q \in Asks[c], NEW a, Shape, ClientOK(c),
         phase[c] \in {"idle", "discovering", "verifying"},
         request'[c] = q, Admitted(a, q), Admit(c, q, a), UNCHANGED <<config, audit>>
  PROVE  ClientOK(c)'
<1>1. auth'[c] = a /\ phase'[c] \in {"answered", "reading"}
  BY DEF Admit, Answered, Continues, Shape
<1>2. Entries(c)' = {} /\ ~ Called(c)'
  BY <1>1 DEF ClientOK, Called, Entries
<1> QED
  BY <1>1, <1>2 DEF ClientOK, Admitted

\* A tool is called: for an organization the token admits.
LEMMA InvokeKeeps ==
  ASSUME NEW c \in Clients, NEW org, Shape, ClientOK(c), phase[c] \in {"reading", "eliciting"},
         Invoke(c, org), Grants(auth[c], request[c], org),
         UNCHANGED <<config, audit, request, auth>>
  PROVE  ClientOK(c)'
<1>1. phase'[c] = "running" /\ acting'[c] = org
  BY DEF Invoke, Continues, Shape
<1>2. Entries(c)' = {}
  BY DEF ClientOK, Entries
<1>3. Grants(auth[c], request[c], org)'
  BY DEF Grants, CheckOAuthScopes
<1> QED
  BY <1>1, <1>2, <1>3 DEF ClientOK, Admitted

-----------------------------------------------------------------------------
(* One lemma for each step of a request. *)

LEMMA ReceiveKeeps ==
  ASSUME RequestsInv, NEW c \in Clients, NEW q \in Asks[c], Receive(c, q)
  PROVE  RequestsInv'
<1> USE DEF Receive
<1>1. Shape /\ ClientOK(c) /\ (serving = "listening" => SafeAuthConfig)
  BY DEF RequestsInv
<1>2. request'[c] = q /\ phase[c] = "idle" /\ auth[c] = Nobody /\ UNCHANGED <<config, audit>>
  BY <1>1 DEF Shape, ClientOK, process
<1>3. OneClient(c)
  BY <1>1 DEF Shape, OneClient, Entries, Authenticate, Admit, Unauthorized, Answered, Continues
<1>4. ClientOK(c)'
  <2>1. CASE q.url = "stdio" /\ Continues(c, "reading") /\ UNCHANGED auth
    <3>1. phase'[c] = "reading" /\ auth'[c] = Nobody
      BY <1>1, <1>2, <2>1 DEF Shape, Continues
    <3>2. Admitted(Nobody, q) /\ Entries(c)' = {}
      BY <1>1, <1>2, <2>1, OrganizationsAssumption DEF Admitted, Nobody, ClientOK, Entries
    <3> QED
      BY <1>2, <3>1, <3>2 DEF ClientOK, Called, Entries, Admitted
  <2>2. CASE phase'[c] \in {"answered", "probing"}
    BY <1>1, <1>2, <2>2, UncalledKeeps
  <2>3. CASE q.url # "stdio" /\ ~ AuthEnabled /\ Admit(c, q, Nobody)
    <3>1. Admitted(Nobody, q)
      BY <1>1, <2>3, OrganizationsAssumption DEF Admitted, Nobody, SafeAuthConfig
    <3> QED
      BY <1>1, <1>2, <2>3, <3>1, AdmitKeeps
  <2>4. CASE /\ q.url # "stdio" /\ q.bearer \in DOMAIN config.tokens
             /\ Admit(c, q, StaticToken(q.bearer))
    <3>1. Admitted(StaticToken(q.bearer), q)
      BY <1>1, <2>4, OrganizationsAssumption DEF Admitted, StaticToken, Shape
    <3> QED
      BY <1>1, <1>2, <2>4, <3>1, AdmitKeeps
  <2>5. CASE /\ q.url # "stdio" /\ q.bearer \notin DOMAIN config.tokens /\ Verifiable(q.bearer)
             /\ phase'[c] \in {"verifying", "discovering"}
    BY <1>1, <1>2, <2>5 DEF ClientOK, Called, Entries, Verifiable
  <2>6. \/ q.url = "stdio" /\ Continues(c, "reading") /\ UNCHANGED auth
        \/ Continues(c, "probing")
        \/ \E status \in Statuses : Answered(c, status)
        \/ q.url # "stdio" /\ AuthEnabled /\ Authenticate(c, q)
        \/ q.url # "stdio" /\ ~ AuthEnabled /\ Admit(c, q, Nobody)
    BY DEF Statuses, McpStatus
  <2>7. CASE q.url # "stdio" /\ AuthEnabled /\ Authenticate(c, q)
    BY <1>1, <2>2, <2>4, <2>5, <2>7 DEF Authenticate, Unauthorized, Answered, Continues, Shape
  <2> QED
    BY <1>1, <2>1, <2>2, <2>3, <2>6, <2>7 DEF Answered, Continues, Shape
<1> QED
  BY <1>3, <1>4, StepKeeps

LEMMA ProbedKeeps ==
  ASSUME RequestsInv, NEW c \in Clients, Probed(c)
  PROVE  RequestsInv'
<1>1. Shape /\ ClientOK(c)
  BY DEF RequestsInv
<1>2. OneClient(c)
  BY <1>1 DEF Probed, Answered, Shape, OneClient, Entries
<1>3. ClientOK(c)'
  <2>1. phase[c] = "probing" /\ phase'[c] = "answered" /\ request'[c] = request[c]
          /\ UNCHANGED <<config, audit>>
    BY <1>1 DEF Probed, Answered, Shape, process
  <2>2. request'[c] \in Asks[c]
    BY <1>1, <2>1 DEF ClientOK
  <2> QED
    BY <1>1, <2>1, <2>2, UncalledKeeps
<1> QED
  BY <1>2, <1>3, StepKeeps

LEMMA DiscoverKeeps ==
  ASSUME RequestsInv, NEW c \in Clients, DiscoverJwks(c)
  PROVE  RequestsInv'
<1>1. Shape /\ ClientOK(c)
  BY DEF RequestsInv
<1>2. OneClient(c)
  BY <1>1 DEF DiscoverJwks, Answered, Continues, Shape, OneClient, Entries
<1>3. phase[c] = "discovering" /\ phase'[c] \in {"answered", "verifying", "discovering"}
        /\ request'[c] = request[c] /\ UNCHANGED <<config, audit>>
  BY <1>1 DEF DiscoverJwks, Answered, Continues, Shape, process
<1>4. request'[c] \in Asks[c]
  BY <1>1, <1>3 DEF ClientOK
<1>5. ClientOK(c)'
  <2>1. CASE phase'[c] \in {"verifying", "discovering"}
    BY <1>1, <1>3, <2>1 DEF ClientOK, Called, Entries, Verifiable
  <2>2. CASE phase'[c] = "answered"
    BY <1>1, <1>3, <1>4, <2>2, UncalledKeeps
  <2> QED
    BY <1>3, <2>1, <2>2
<1> QED
  BY <1>2, <1>5, StepKeeps

LEMMA VerifyKeeps ==
  ASSUME RequestsInv, NEW c \in Clients, VerifyJwt(c)
  PROVE  RequestsInv'
<1> DEFINE q == request[c]
           claims == Claims[q.bearer]
<1>1. Shape /\ ClientOK(c)
  BY DEF RequestsInv
<1>2. OneClient(c)
  BY <1>1 DEF VerifyJwt, Admit, Unauthorized, Answered, Continues, Shape, OneClient, Entries
<1>3. phase[c] = "verifying" /\ request'[c] = q /\ UNCHANGED <<config, audit>>
  BY DEF VerifyJwt, process
<1>4. q \in Asks[c] /\ q.url # "stdio" /\ q.bearer \in DOMAIN Claims
  BY <1>1, <1>3 DEF ClientOK, Verifiable
<1>5. ClientOK(c)'
  <2>1. CASE Accepted(claims) /\ Admit(c, q, OAuthToken(claims))
    <3>1. OAuthToken(claims).org \notin {Blank, Twice} /\ OAuthToken(claims).kind = "oauth"
      BY <1>4, <2>1, OrganizationsAssumption DEF OAuthToken, Accepted, Trim
    <3>2. Admitted(OAuthToken(claims), q)
      BY <1>4, <3>1 DEF Admitted
    <3> QED
      BY <1>1, <1>3, <1>4, <2>1, <3>2, AdmitKeeps
  <2>2. CASE Unauthorized(c)
    <3>1. phase'[c] = "answered"
      BY <1>1, <2>2 DEF Unauthorized, Answered, Shape
    <3> QED
      BY <1>1, <1>3, <1>4, <3>1, UncalledKeeps
  <2> QED
    BY <2>1, <2>2 DEF VerifyJwt
<1> QED
  BY <1>2, <1>5, StepKeeps

\* The checks of a REST route admit the organization it resolves.
LEMMA RouteGrants ==
  ASSUME NEW c \in Clients, NEW q \in Asks[c], NEW a, Admitted(a, q), q.url = "/v1",
         RestStatus(a, q) = 200
  PROVE  Grants(a, q, ResolvedOrg(a, q))
<1>1. OrgStatus(a, q) = 200 /\ CheckOAuthScopes(a, q)
  BY DEF RestStatus
<1>2. q.header \notin {Blank, Twice} /\ q.org \notin {Blank, Twice}
        /\ (a.org # NoOrg => CallerOrg(q) \in {NoOrg, a.org})
  BY <1>1, OrganizationsAssumption DEF OrgStatus
<1>3. CallerOrg(q) = Trim(NamedBy(q)) /\ NamedBy(q) \notin {Blank, Twice}
  BY <1>2 DEF CallerOrg, NamedBy
<1>4. Trim(NamedBy(q)) \notin {Blank, Twice} /\ (NamedBy(q) # NoOrg => Trim(NamedBy(q)) # NoOrg)
  BY <1>3, OrganizationsAssumption DEF Trim
<1> QED
  BY <1>1, <1>2, <1>3, <1>4 DEF Grants, Admitted, ResolvedOrg

\* The checks of an MCP call admit the organization its input is enriched with.
LEMMA McpGrants ==
  ASSUME NEW c \in Clients, NEW q \in Asks[c], NEW a, Admitted(a, q), q.url # "/v1",
         ~ McpRefuses(a, q)
  PROVE  Grants(a, q, EnrichedOrg(a, q))
<1>1. q.org \notin {Blank, Twice} /\ CheckOAuthScopes(a, q) /\ NamedBy(q) = q.org
        /\ (a.org # NoOrg /\ q.org # NoOrg => Trim(q.org) = a.org)
  BY OrganizationsAssumption DEF McpRefuses, SameOrg, NamedBy
<1>2. Trim(q.org) \notin {Blank, Twice}
  BY <1>1, OrganizationsAssumption DEF Trim
<1> QED
  BY <1>1, <1>2 DEF Grants, Admitted, EnrichedOrg

LEMMA ReadBodyKeeps ==
  ASSUME RequestsInv, NEW c \in Clients, ReadBody(c)
  PROVE  RequestsInv'
<1> DEFINE q == request[c]
           a == auth[c]
<1>1. Shape /\ ClientOK(c)
  BY DEF RequestsInv
<1>2. phase[c] = "reading" /\ UNCHANGED <<config, audit, request, auth>> /\ UNCHANGED process
  BY DEF ReadBody, process
<1>3. q \in Asks[c] /\ Admitted(a, q) /\ request'[c] \in Asks[c]
  BY <1>1, <1>2 DEF ClientOK
<1>4. \/ \E status \in Statuses : Answered(c, status) /\ UNCHANGED acting
      \/ /\ q.url = "stdio" /\ q.org # Blank
         /\ Continues(c, "eliciting") /\ UNCHANGED acting
      \/ \E org : Invoke(c, org) /\ Grants(a, q, org)
  <2>1. CASE q.url = "/v1" /\ CallRoute(c)
    <3>1. RestStatus(a, q) \in Statuses
      BY DEF RestStatus, OrgStatus, Statuses
    <3> QED
      BY <1>3, <2>1, <3>1, RouteGrants DEF CallRoute, Reply
  <2>2. CASE q.url # "/v1" /\ CallTool(c)
    BY <1>3, <2>2, McpGrants DEF CallTool, Reply, RejectBody, Statuses, McpRefuses
  <2> QED
    BY <2>1, <2>2 DEF ReadBody, RejectBody, Statuses
<1>5. CASE \E status \in Statuses : Answered(c, status) /\ UNCHANGED acting
  <2>1. phase'[c] = "answered" /\ OneClient(c)
    BY <1>1, <1>2, <1>5 DEF Answered, Shape, OneClient, Entries
  <2> QED
    BY <1>1, <1>2, <1>3, <2>1, UncalledKeeps, StepKeeps
<1>6. CASE q.url = "stdio" /\ q.org # Blank /\ Continues(c, "eliciting") /\ UNCHANGED acting
  <2>1. phase'[c] = "eliciting" /\ OneClient(c)
    BY <1>1, <1>2, <1>6 DEF Continues, Shape, OneClient, Entries
  <2>2. ClientOK(c)'
    BY <1>1, <1>2, <1>3, <1>6, <2>1 DEF ClientOK, Called, Entries, Admitted
  <2> QED
    BY <2>1, <2>2, StepKeeps
<1>7. CASE \E org : Invoke(c, org) /\ Grants(a, q, org)
  <2>1. OneClient(c)
    BY <1>1, <1>2, <1>7 DEF Invoke, Continues, Shape, OneClient, Entries
  <2> QED
    BY <1>1, <1>2, <1>7, <2>1, InvokeKeeps, StepKeeps
<1> QED
  BY <1>4, <1>5, <1>6, <1>7

LEMMA ClientAnswersKeeps ==
  ASSUME RequestsInv, NEW c \in Clients, ClientAnswers(c)
  PROVE  RequestsInv'
<1> DEFINE q == request[c]
           a == auth[c]
<1>1. Shape /\ ClientOK(c)
  BY DEF RequestsInv
<1>2. phase[c] = "eliciting" /\ UNCHANGED <<config, audit, request, auth>> /\ UNCHANGED process
  BY DEF ClientAnswers, process
<1>3. q \in Asks[c] /\ a = Nobody /\ q.url = "stdio" /\ q.org \notin {Blank, Twice}
        /\ request'[c] \in Asks[c]
  BY <1>1, <1>2, OrganizationsAssumption DEF ClientOK, Admitted
<1>4. CASE Reply(c, 200)
  <2>1. phase'[c] = "answered" /\ OneClient(c)
    BY <1>1, <1>2, <1>4 DEF Reply, Answered, Shape, OneClient, Entries
  <2> QED
    BY <1>1, <1>2, <1>3, <2>1, UncalledKeeps, StepKeeps
<1>5. CASE Invoke(c, Trim(q.org))
  <2>1. OneClient(c)
    BY <1>1, <1>2, <1>5 DEF Invoke, Continues, Shape, OneClient, Entries
  <2>2. Grants(a, q, Trim(q.org))
    <3>1. a.org = NoOrg /\ a.kind = "none" /\ NamedBy(q) = q.org
      BY <1>3 DEF Nobody, NamedBy
    <3>2. Trim(q.org) \notin {Blank, Twice}
      BY <1>3, OrganizationsAssumption DEF Trim
    <3> QED
      BY <1>3, <3>1, <3>2 DEF Grants, CheckOAuthScopes
  <2> QED
    BY <1>1, <1>2, <1>5, <2>1, <2>2, InvokeKeeps, StepKeeps
<1> QED
  BY <1>4, <1>5 DEF ClientAnswers

LEMMA ToolSettlesKeeps ==
  ASSUME RequestsInv, NEW c \in Clients, ToolSettles(c)
  PROVE  RequestsInv'
<1>1. Shape /\ ClientOK(c)
  BY DEF RequestsInv
<1>2. phase[c] = "running" /\ UNCHANGED <<config, request, auth, acting>> /\ UNCHANGED process
  BY DEF ToolSettles, process
<1>3. PICK outcome \in Outcomes(request[c]) :
            /\ Answered(c, StatusOf(request[c], outcome))
            /\ audit' = audit \cup {AuditEntry(c, outcome)}
  BY DEF ToolSettles
<1> DEFINE entry == AuditEntry(c, outcome)
<1>4. entry.client = c /\ entry.org = IF acting[c] = NoOrg THEN "default" ELSE acting[c]
  BY DEF AuditEntry
<1> HIDE DEF entry
<1>5. Entries(c)' = Entries(c) \cup {entry} /\ \A d \in Clients \ {c} : Entries(d)' = Entries(d)
  BY <1>3, <1>4 DEF Entries, entry
<1>6. OneClient(c) /\ phase'[c] = "answered"
  BY <1>1, <1>2, <1>3, <1>5 DEF Answered, Shape, OneClient
<1>7. ClientOK(c)'
  <2>1. Entries(c) = {} /\ Grants(auth[c], request[c], acting[c]) /\ request[c] \in Asks[c]
    BY <1>1, <1>2 DEF ClientOK, Called
  <2>2. Grants(auth[c], request[c], acting[c])'
    BY <1>2, <2>1 DEF Grants, CheckOAuthScopes, NamedBy
  <2> QED
    BY <1>2, <1>4, <1>5, <1>6, <2>1, <2>2 DEF ClientOK
<1> QED
  BY <1>6, <1>7, StepKeeps

-----------------------------------------------------------------------------
(* The other steps: nothing a request was admitted by changes. *)

LEMMA AuditSettlesKeeps ==
  ASSUME RequestsInv, NEW entry \in audit, AuditSettles(entry)
  PROVE  RequestsInv'
<1>1. Shape' /\ (serving = "listening" => SafeAuthConfig)'
  BY DEF RequestsInv, AuditSettles, Shape, process, call, SafeAuthConfig, AuthEnabled
<1>2. PICK state \in {"written", "lost"} :
            audit' = (audit \ {entry}) \cup {[entry EXCEPT !.state = state]}
  BY DEF AuditSettles
<1> DEFINE settled == [entry EXCEPT !.state = state]
<1>3. settled.client = entry.client /\ settled.org = entry.org
  OBVIOUS
<1> HIDE DEF settled
<1>4. ASSUME NEW c \in Clients  PROVE ClientOK(c)'
  <2>1. ClientOK(c) /\ UNCHANGED <<config, phase, request, auth, acting>>
    BY DEF RequestsInv, AuditSettles, process, call
  <2>2. \A e \in Entries(c)' : \E e0 \in Entries(c) : e.org = e0.org
    BY <1>2, <1>3 DEF Entries, settled
  <2>3. Called(c)' => Called(c)
    BY <2>1, <2>2 DEF Called, Entries
  <2>4. Grants(auth[c], request[c], acting[c]) => Grants(auth[c], request[c], acting[c])'
    BY <2>1 DEF Grants, CheckOAuthScopes, NamedBy
  <2> QED
    BY <2>1, <2>2, <2>3, <2>4 DEF ClientOK, Admitted, Verifiable
<1> QED
  BY <1>1, <1>4 DEF RequestsInv

LEMMA SurroundingsKeep ==
  ASSUME RequestsInv, UNCHANGED <<config, phase, request, auth, acting, answer, audit>>,
         serving' \in {serving, "refused"} \/ SafeAuthConfig
  PROVE  RequestsInv'
<1>1. Shape' /\ (serving = "listening" => SafeAuthConfig)'
  BY DEF RequestsInv, Shape, SafeAuthConfig, AuthEnabled
<1>2. ASSUME NEW c \in Clients  PROVE ClientOK(c)'
  BY OthersKeep DEF RequestsInv, Entries
<1> QED
  BY <1>1, <1>2 DEF RequestsInv

\* A response that is sent.
LEMMA FinishKeeps ==
  ASSUME RequestsInv, NEW c \in Clients, Finish(c)
  PROVE  RequestsInv'
<1>1. Shape /\ ClientOK(c)
  BY DEF RequestsInv
<1>2. /\ phase[c] = "answered" /\ phase'[c] = "finished"
      /\ UNCHANGED <<config, request, auth, acting, answer, audit>> /\ UNCHANGED process
  BY <1>1 DEF Finish, Shape, process
<1>3. OneClient(c)
  BY <1>1, <1>2 DEF Finish, Shape, OneClient, Entries
<1>4. ClientOK(c)'
  <2>1. Called(c)' <=> Called(c)
    BY <1>2 DEF Called
  <2>2. Grants(auth[c], request[c], acting[c])' <=> Grants(auth[c], request[c], acting[c])
    BY <1>2 DEF Grants, CheckOAuthScopes, NamedBy
  <2>3. Entries(c)' = Entries(c)
    BY <1>2 DEF Entries
  <2> QED
    BY <1>1, <1>2, <2>1, <2>2, <2>3 DEF ClientOK
<1> QED
  BY <1>3, <1>4, StepKeeps

LEMMA InvNext == RequestsInv /\ [Next]_vars => RequestsInv'
<1> SUFFICES ASSUME RequestsInv, [Next]_vars PROVE RequestsInv'
  OBVIOUS
<1>1. CASE Start
  BY <1>1, SurroundingsKeep DEF Start, call
<1>2. CASE \E c \in Clients : \E q \in Asks[c] : Receive(c, q)
  BY <1>2, ReceiveKeeps
<1>3. CASE \E c \in Clients : RequestSteps(c)
  BY <1>3, ProbedKeeps, DiscoverKeeps, VerifyKeeps, ReadBodyKeeps, ClientAnswersKeeps,
     ToolSettlesKeeps DEF RequestSteps
<1>4. CASE \E c \in Clients : Finish(c)
  BY <1>4, FinishKeeps
<1>9. CASE \E c \in Clients : Disconnect(c)
  BY <1>9, SurroundingsKeep DEF Disconnect, process
<1>5. CASE \E entry \in audit : AuditSettles(entry)
  BY <1>5, AuditSettlesKeeps
<1>6. CASE \E i \in AllIssuers : IssuerDown(i) \/ IssuerUp(i)
  BY <1>6, SurroundingsKeep DEF IssuerDown, IssuerUp, process, call
<1>7. CASE \E key \in DOMAIN bucket : Refill(key)
  BY <1>7, SurroundingsKeep DEF Refill, process, call
<1>8. CASE UNCHANGED vars
  BY <1>8, SurroundingsKeep DEF vars, process, call
<1> QED
  BY <1>1, <1>2, <1>3, <1>4, <1>5, <1>6, <1>7, <1>8, <1>9 DEF Next

THEOREM Invariance == Spec => []RequestsInv
BY InvInit, InvNext, PTL DEF Spec

-----------------------------------------------------------------------------
(* Types *)

Phases == {"idle", "probing", "discovering", "verifying", "reading", "eliciting", "running",
           "answered", "finished"}

CallOK ==
    /\ phase \in [Clients -> Phases]
    /\ answer \in [Clients -> Statuses \cup {0}]
    /\ \A c \in Clients : phase[c] \in {"answered", "finished"} => answer[c] # 0
    /\ DOMAIN counted \subseteq Urls \X Statuses

\* A status is one that the server sends, and belongs to a way in.
LEMMA CallTyped ==
  ASSUME CallOK, NEW c \in Clients,
         \/ \E status \in Statuses : Answered(c, status)
         \/ \E p \in Phases \ {"answered", "finished"} : Continues(c, p)
  PROVE  CallOK'
BY DEF CallOK, Answered, Continues, Phases, Statuses

BucketOK == \A key \in DOMAIN bucket : bucket[key] \in Nat
AuthOK == \A c \in Clients : auth[c].kind \in {"none", "static", "oauth"}
SessionOK == session \in [Clients -> {"none", "open", "closed"}]

\* What a step of client c's request keeps of its type: a bucket is only drawn
\* from while there is something in it.
LEMMA AdmitTyped ==
  ASSUME NEW c \in Clients, NEW q, NEW a, Shape, CallOK, BucketOK, AuthOK,
         SessionOK, Admit(c, q, a), a.kind \in {"none", "static", "oauth"}
  PROVE  CallOK' /\ BucketOK' /\ AuthOK' /\ SessionOK'
<1>1. CallOK'
  <2>1. (\E status \in Statuses : Answered(c, status)) \/ Continues(c, "reading")
    BY DEF Admit, Statuses
  <2> QED
    BY <2>1, CallTyped DEF Phases
<1>2. BucketOK'
  <2>1. CASE UNCHANGED bucket
    BY <2>1 DEF BucketOK
  <2>2. CASE /\ ~ Limited(BucketOf(a, q)) /\ config.limit # NoLimit
             /\ bucket' = [bucket EXCEPT ![BucketOf(a, q)] = @ - 1]
    BY <2>2 DEF BucketOK, Limited
  <2> QED
    BY <2>1, <2>2 DEF Admit
<1>3. AuthOK' /\ SessionOK'
  BY DEF Admit, Shape, AuthOK, SessionOK
<1> QED
  BY <1>1, <1>2, <1>3

LEMMA UnauthorizedTyped ==
  ASSUME NEW c \in Clients, CallOK, BucketOK, AuthOK, SessionOK,
         Unauthorized(c)
  PROVE  CallOK' /\ BucketOK' /\ AuthOK' /\ SessionOK'
BY CallTyped DEF Unauthorized, Statuses, BucketOK, AuthOK, SessionOK

LEMMA ReceiveTyped ==
  ASSUME RequestsInv, TypeOK, NEW c \in Clients, NEW q \in Asks[c], Receive(c, q)
  PROVE  CallOK' /\ BucketOK' /\ AuthOK' /\ SessionOK'
<1>1. Shape
  BY DEF RequestsInv
<1>2. CallOK /\ BucketOK /\ AuthOK /\ SessionOK
  BY DEF TypeOK, CallOK, BucketOK, AuthOK, SessionOK, Phases
<1>3. CASE UNCHANGED <<auth, bucket, session>>
             /\ (\/ \E status \in Statuses : Answered(c, status)
                 \/ \E p \in Phases \ {"answered", "finished"} : Continues(c, p))
  BY <1>1, <1>2, <1>3, CallTyped DEF BucketOK, AuthOK, SessionOK
<1>4. CASE \E a : a.kind \in {"none", "static", "oauth"} /\ Admit(c, q, a)
  BY <1>1, <1>2, <1>4, AdmitTyped
<1>5. CASE Authenticate(c, q)
  <2>1. CASE Admit(c, q, StaticToken(q.bearer))
    BY <2>1, <1>4 DEF StaticToken
  <2>2. CASE Unauthorized(c)
    BY <1>1, <1>2, <2>2, UnauthorizedTyped
  <2>3. CASE (Continues(c, "verifying") \/ Continues(c, "discovering"))
                /\ UNCHANGED <<auth, bucket, session>>
    BY <2>3, <1>3 DEF Phases
  <2> QED
    BY <1>5, <2>1, <2>2, <2>3 DEF Authenticate
<1>6. CASE Admit(c, q, Nobody)
  BY <1>4, <1>6 DEF Nobody
<1> QED
  BY <1>3, <1>5, <1>6 DEF Receive, Phases, Statuses, McpStatus

LEMMA StepTyped ==
  ASSUME RequestsInv, TypeOK, NEW c \in Clients, RequestSteps(c)
  PROVE  CallOK' /\ BucketOK' /\ AuthOK' /\ SessionOK'
<1> DEFINE q == request[c]
<1>1. Shape /\ ClientOK(c) /\ CallOK /\ BucketOK /\ AuthOK /\ SessionOK
  BY DEF RequestsInv, TypeOK, CallOK, BucketOK, AuthOK, SessionOK, Phases
<1> DEFINE Moves == \/ \E status \in Statuses : Answered(c, status)
                    \/ \E p \in Phases \ {"answered", "finished"} : Continues(c, p)
<1>3. CASE Moves /\ UNCHANGED <<bucket, auth>>
             /\ session' \in {session, [session EXCEPT ![c] = CleanedUp(c)]}
  BY <1>1, <1>3, CallTyped DEF BucketOK, AuthOK, SessionOK, CleanedUp
<1>4. CASE Probed(c)
  BY <1>3, <1>4 DEF Probed, ProbeStatuses, Statuses
<1>5. CASE DiscoverJwks(c)
  BY <1>3, <1>5 DEF DiscoverJwks, Statuses, Phases
<1>6. CASE VerifyJwt(c)
  BY <1>1, <1>6, AdmitTyped, UnauthorizedTyped DEF VerifyJwt, OAuthToken
<1>7. CASE ReadBody(c)
  <2>1. RestStatus(auth[c], q) \in Statuses
    BY DEF RestStatus, OrgStatus, Statuses
  <2>2. Moves /\ session' \in {session, [session EXCEPT ![c] = CleanedUp(c)]}
    BY <1>7, <2>1 DEF ReadBody, CallRoute, CallTool, Reply, RejectBody, Invoke, Statuses, Phases
  <2> QED
    BY <1>3, <1>7, <2>2 DEF ReadBody
<1>8. CASE ClientAnswers(c)
  BY <1>3, <1>8 DEF ClientAnswers, Reply, Invoke, Statuses, Phases
<1>9. CASE ToolSettles(c)
  <2>1. \A outcome \in Outcomes(q) : StatusOf(q, outcome) \in Statuses
    BY DEF StatusOf, Outcomes, Statuses
  <2> QED
    BY <1>3, <1>9, <2>1 DEF ToolSettles
<1> QED
  BY <1>4, <1>5, <1>6, <1>7, <1>8, <1>9 DEF RequestSteps

\* Around the requests: an issuer is one of the claims', and comes and goes.
IssuersOK ==
    /\ reachable \subseteq AllIssuers /\ jwks \subseteq AllIssuers
    /\ outages \in 0 .. MaxOutages
    /\ tried \in [Clients -> Nat] /\ missed \subseteq Clients

AuditOK == \A entry \in audit :
               entry.client \in Clients /\ entry.state \in {"writing", "written", "lost"}

EntriesWhole == \A entry \in audit :
                    DOMAIN entry = {"client", "tool", "org", "outcome", "state"}

LEMMA TypeParts ==
  TypeOK <=> /\ config \in Configurations
             /\ serving \in {"starting", "listening", "refused"}
             /\ IssuersOK /\ BucketOK /\ CallOK
             /\ \A c \in Clients : request[c] \in Asks[c] \cup {NoRequest}
             /\ connected \subseteq Clients
             /\ AuthOK /\ SessionOK /\ AuditOK
BY DEF TypeOK, IssuersOK, BucketOK, CallOK, AuthOK, SessionOK, AuditOK, Phases

LEMMA TypeInit == Init => TypeOK /\ EntriesWhole
BY BoundsAssumption, SMTT(60) DEF Init, TypeOK, EntriesWhole, Nobody, AllIssuers

LEMMA TypeNext == RequestsInv /\ TypeOK /\ EntriesWhole /\ [Next]_vars => TypeOK' /\ EntriesWhole'
<1> SUFFICES ASSUME RequestsInv, TypeOK, EntriesWhole, [Next]_vars
             PROVE  TypeOK' /\ EntriesWhole'
  OBVIOUS
<1>1. Shape /\ config' = config
  BY DEF RequestsInv, Next, Start, RequestSteps, Receive, Probed, DiscoverJwks, VerifyJwt,
         ReadBody, ClientAnswers, ToolSettles, AuditSettles, Finish, Disconnect, IssuerDown,
         IssuerUp, Refill, vars, process
<1>2. IssuersOK'
  <2>4. CASE \E c \in Clients : VerifyJwt(c)
    BY <2>4 DEF VerifyJwt, issuers, TypeOK, IssuersOK
  <2>1. CASE \E c \in Clients : DiscoverJwks(c)
    <3>1. PICK c \in Clients : DiscoverJwks(c)
      BY <2>1
    <3>2. Issuer(c) \in AllIssuers
      BY <3>1 DEF RequestsInv, ClientOK, Verifiable, DiscoverJwks, Issuer, AllIssuers
    <3> QED
      BY <3>1, <3>2 DEF DiscoverJwks, TypeOK, IssuersOK
  <2>2. CASE \E i \in AllIssuers : IssuerDown(i) \/ IssuerUp(i)
    BY <2>2, BoundsAssumption DEF IssuerDown, IssuerUp, discovery, TypeOK, IssuersOK
  <2>3. CASE UNCHANGED <<issuers, discovery>>
    BY <2>3 DEF issuers, discovery, TypeOK, IssuersOK
  <2> QED
    BY <2>1, <2>2, <2>3, <2>4 DEF Next, Start, RequestSteps, Receive, Probed, ReadBody,
       ClientAnswers, ToolSettles, AuditSettles, Finish, Disconnect, Refill, vars
<1>3. CallOK' /\ BucketOK' /\ AuthOK' /\ SessionOK'
  <2>1. CASE \E c \in Clients : \E q \in Asks[c] : Receive(c, q)
    BY <2>1, ReceiveTyped
  <2>2. CASE \E c \in Clients : RequestSteps(c)
    BY <2>2, StepTyped
  <2>3. CASE \E c \in Clients : Finish(c) \/ Disconnect(c)
    <3>1. PICK c \in Clients : Finish(c) \/ Disconnect(c)
      BY <2>3
    <3>2. UNCHANGED <<answer, bucket, auth>>
      BY <3>1 DEF Finish, Disconnect
    <3>3. \/ UNCHANGED phase
          \/ phase[c] = "answered" /\ phase' = [phase EXCEPT ![c] = "finished"]
      BY <3>1 DEF Finish, Disconnect
    <3>4. counted' = counted \/ (Finish(c) /\ counted' = Plus(SampleOf(c)))
      BY <3>1 DEF Finish, Disconnect, Observed
    <3>5. session' = [session EXCEPT ![c] = CleanedUp(c)]
      BY <3>1 DEF Finish, Disconnect
    <3>6. CallOK /\ BucketOK /\ AuthOK /\ SessionOK
      BY TypeParts
    <3>7. DOMAIN counted' \subseteq Urls \X Statuses
      <4>1. CASE Finish(c) /\ counted' = Plus(SampleOf(c))
        <5>1. phase[c] = "answered"
          BY <4>1 DEF Finish
        <5>2. request[c].url \in Urls
          BY <5>1, BoundsAssumption DEF RequestsInv, ClientOK
        <5>3. answer[c] \in Statuses
          BY <3>6, <5>1 DEF CallOK
        <5>4. SampleOf(c) \in Urls \X Statuses
          BY <5>2, <5>3 DEF SampleOf
        <5>5. DOMAIN counted' = DOMAIN counted \cup {SampleOf(c)}
          BY <4>1 DEF Plus
        <5> QED
          BY <3>6, <5>4, <5>5 DEF CallOK
      <4> QED
        BY <3>4, <3>6, <4>1 DEF CallOK
    <3> QED
      BY <3>2, <3>3, <3>5, <3>6, <3>7 DEF CallOK, BucketOK, AuthOK, SessionOK, CleanedUp, Phases
  <2>4. CASE \E key \in DOMAIN bucket : Refill(key)
    BY <2>4, TypeParts DEF Refill, call, CallOK, BucketOK, AuthOK, SessionOK
  <2>5. CASE UNCHANGED <<call, bucket, auth, session>>
    BY <2>5, TypeParts DEF call, CallOK, BucketOK, AuthOK, SessionOK
  <2> QED
    BY <2>1, <2>2, <2>3, <2>4, <2>5
       DEF Next, Start, AuditSettles, IssuerDown, IssuerUp, vars
<1>4. \A c \in Clients : request'[c] \in Asks[c] \cup {NoRequest}
  <2>1. CASE \E c \in Clients : \E q \in Asks[c] : Receive(c, q)
    BY <1>1, <2>1 DEF Receive, TypeOK, Shape
  <2>2. CASE UNCHANGED request
    BY <2>2 DEF TypeOK
  <2> QED
    BY <2>1, <2>2 DEF Next, Start, RequestSteps, Probed, DiscoverJwks, VerifyJwt, ReadBody,
       ClientAnswers, ToolSettles, AuditSettles, Finish, Disconnect, IssuerDown, IssuerUp,
       Refill, vars
<1>5. connected' \subseteq Clients
  BY DEF TypeOK, Next, Start, RequestSteps, Receive, Probed, DiscoverJwks, VerifyJwt, ReadBody,
       ClientAnswers, ToolSettles, AuditSettles, Finish, Disconnect, IssuerDown, IssuerUp,
       Refill, vars
<1>6. AuditOK' /\ EntriesWhole'
  <2>1. CASE \E c \in Clients : ToolSettles(c)
    BY <2>1 DEF ToolSettles, AuditEntry, TypeOK, AuditOK, EntriesWhole
  <2>2. CASE \E entry \in audit : AuditSettles(entry)
    BY <2>2 DEF AuditSettles, TypeOK, AuditOK, EntriesWhole
  <2>3. CASE UNCHANGED audit
    BY <2>3 DEF TypeOK, AuditOK, EntriesWhole
  <2> QED
    BY <2>1, <2>2, <2>3 DEF Next, Start, RequestSteps, Receive, Probed, DiscoverJwks, VerifyJwt,
       ReadBody, ClientAnswers, Finish, Disconnect, IssuerDown, IssuerUp, Refill, vars
<1>7. serving' \in {"starting", "listening", "refused"}
  BY DEF TypeOK, Next, Start, RequestSteps, Receive, Probed, DiscoverJwks, VerifyJwt, ReadBody,
       ClientAnswers, ToolSettles, AuditSettles, Finish, Disconnect, IssuerDown, IssuerUp,
       Refill, vars, process
<1> QED
  BY <1>1, <1>2, <1>3, <1>4, <1>5, <1>6, <1>7
     DEF TypeOK, IssuersOK, BucketOK, CallOK, AuthOK, SessionOK, AuditOK, Phases

\* The state is of the declared types, whatever is asked: an answer has a status
\* the server sends, a bucket of the rate limiter is never overdrawn, and only
\* issuers the claims name are remembered (app/server.ts, oauth-token-auth.ts).
THEOREM Typed == Spec => []TypeOK
BY TypeInit, TypeNext, Invariance, PTL DEF Spec

-----------------------------------------------------------------------------
(* The properties *)

\* A tool acts for the organization its caller was granted and no other: the
\* checks of the routes, of the MCP authorizer and of the stdio server come
\* before every way to a handler, and nothing they read changes afterwards.
THEOREM Authorized == Spec => []ActsForGrantedOrg
<1>1. RequestsInv => ActsForGrantedOrg
  <2> SUFFICES ASSUME RequestsInv, NEW c \in Clients, Called(c)
               PROVE  /\ Grants(auth[c], request[c], acting[c])
                      /\ \A entry \in audit : entry.client = c =>
                            entry.org = IF acting[c] = NoOrg THEN "default" ELSE acting[c]
    BY DEF ActsForGrantedOrg, Grants, NamedBy
  <2> QED
    BY DEF RequestsInv, ClientOK, Entries
<1> QED
  BY <1>1, Invariance, PTL

\* Nobody changes anything by an OAuth token without a scope for it, whatever
\* the scopes of the token are called (oauth-token-auth.ts, both doors).
THEOREM Scoped == Spec => []EffectsNeedScope
<1>1. RequestsInv => EffectsNeedScope
  <2> SUFFICES ASSUME RequestsInv, NEW c \in Clients, Called(c), auth[c].kind = "oauth"
               PROVE  LET q == request[c] scopes == auth[c].scopes
                      IN  /\ scopes \cap {"memory", "admin", "write", "read"} # {}
                          /\ q.tool \in AdminTools \/ (q.tool = "compact_memory" /\ q.apply) =>
                                scopes \cap {"memory", "admin"} # {}
                          /\ q.tool \in CreatingTools =>
                                scopes \cap {"memory", "admin", "write"} # {}
    BY DEF EffectsNeedScope
  <2> DEFINE q == request[c]
             kind == RequiredScopeKind(q.tool, q.apply)
  <2>1. auth[c].scopes \cap AcceptedScopes(kind) # {}
    BY DEF RequestsInv, ClientOK, Grants, CheckOAuthScopes
  <2>2. kind \in {"read", "write", "admin"}
    BY DEF RequiredScopeKind
  <2>3. q.tool \in AdminTools \/ (q.tool = "compact_memory" /\ q.apply) => kind = "admin"
    BY DEF RequiredScopeKind, AdminTools, CreatingTools
  <2>4. q.tool \in CreatingTools => kind = "write"
    BY DEF RequiredScopeKind, CreatingTools, AdminTools
  <2> HIDE DEF kind
  <2> QED
    BY <2>1, <2>2, <2>3, <2>4 DEF AcceptedScopes
<1> QED
  BY <1>1, Invariance, PTL

\* What is known of a discovery: every metadata URL it has tried is without the
\* document, or met an outage.
DiscoveryInv ==
    /\ DOMAIN tried = Clients
    /\ \A c \in Clients :
            /\ phase[c] = "idle" => tried[c] = 0
            /\ phase[c] = "discovering" =>
                    /\ tried[c] \in Nat /\ tried[c] < Len(Metadata[Issuer(c)])
                    /\ \A url \in 1 .. tried[c] : Metadata[Issuer(c)][url] => c \in missed

LEMMA DiscoveryInit == Init => DiscoveryInv
BY DEF Init, DiscoveryInv

LEMMA IssuersPublish ==
  ASSUME NEW c \in Clients, Verifiable(request[c].bearer)
  PROVE  /\ Metadata[Issuer(c)] \in Seq(BOOLEAN) /\ Len(Metadata[Issuer(c)]) \in Nat
         /\ \E url \in 1 .. Len(Metadata[Issuer(c)]) : Metadata[Issuer(c)][url]
BY MetadataAssumption DEF Issuer, Verifiable

LEMMA DiscoveryNext == RequestsInv /\ DiscoveryInv /\ [Next]_vars => DiscoveryInv'
<1> SUFFICES ASSUME RequestsInv, DiscoveryInv, [Next]_vars
             PROVE  DiscoveryInv'
  OBVIOUS
<1> USE DEF Issuer
<1>1. ASSUME NEW c \in Clients, NEW q \in Asks[c], Receive(c, q)
      PROVE  DiscoveryInv'
  <2>1. /\ phase[c] = "idle" /\ tried[c] = 0 /\ UNCHANGED <<tried, missed>>
        /\ \A d \in Clients \ {c} : phase'[d] = phase[d] /\ request'[d] = request[d]
    BY <1>1 DEF Receive, DiscoveryInv, RequestsInv, Shape, discovery, Authenticate, Admit,
                Unauthorized, Answered, Continues
  <2>2. /\ phase'[c] # "idle" /\ request'[c] = q
        /\ phase'[c] = "discovering" => Verifiable(q.bearer)
    BY <1>1 DEF Receive, RequestsInv, Shape, Authenticate, Admit, Unauthorized, Answered,
                Continues
  <2>3. Verifiable(q.bearer) => Len(Metadata[Claims[q.bearer].issuer]) \in Nat \ {0}
    BY MetadataAssumption DEF Verifiable
  <2> QED
    BY <2>1, <2>2, <2>3 DEF DiscoveryInv
<1>2. ASSUME NEW c \in Clients, DiscoverJwks(c)
      PROVE  DiscoveryInv'
  <2>1. /\ phase[c] = "discovering" /\ request' = request /\ missed \subseteq missed'
        /\ tried' = [tried EXCEPT ![c] = tried[c] + 1]
        /\ \A d \in Clients \ {c} : phase'[d] = phase[d]
    BY <1>2 DEF DiscoverJwks, RequestsInv, Shape, Answered, Continues
  <2>2. /\ phase'[c] # "idle"
        /\ phase'[c] = "discovering" =>
              /\ tried[c] + 1 # Len(Metadata[Issuer(c)])
              /\ Metadata[Issuer(c)][tried[c] + 1] => c \in missed'
    BY <1>2 DEF DiscoverJwks, RequestsInv, Shape, Answered, Continues, IsLastUrl
  <2>3. Len(Metadata[Issuer(c)]) \in Nat
    BY <2>1, IssuersPublish DEF RequestsInv, ClientOK
  <2> QED
    BY <2>1, <2>2, <2>3 DEF DiscoveryInv
<1>3. ASSUME UNCHANGED <<request, tried>>, missed \subseteq missed',
             \A c \in Clients : phase'[c] = phase[c] \/ phase'[c] \notin {"idle", "discovering"}
      PROVE  DiscoveryInv'
  BY <1>3 DEF DiscoveryInv
<1>4. ASSUME NEW c \in Clients,
             VerifyJwt(c) \/ Probed(c) \/ ReadBody(c) \/ ClientAnswers(c) \/ ToolSettles(c)
                \/ Finish(c)
      PROVE  DiscoveryInv'
  <2>1. UNCHANGED <<request, tried>> /\ missed \subseteq missed'
    BY <1>4 DEF VerifyJwt, Probed, ReadBody, ClientAnswers, ToolSettles, Finish, discovery
  <2>2. \A d \in Clients : phase'[d] = phase[d] \/ phase'[d] \notin {"idle", "discovering"}
    BY <1>4 DEF VerifyJwt, Probed, ReadBody, ClientAnswers, ToolSettles, Finish, Admit,
                Unauthorized, CallRoute, CallTool, Reply, RejectBody, Invoke, Answered, Continues,
                RequestsInv, Shape
  <2> QED
    BY <1>3, <2>1, <2>2
<1> QED
  BY <1>1, <1>2, <1>3, <1>4
     DEF Next, RequestSteps, Start, Disconnect, AuditSettles, IssuerDown, IssuerUp, Refill, call,
         discovery, vars

\* A good credential is refused only if its own fetches met an outage: each
\* metadata URL was tried, and the one with the document unanswered
\* (oauth-token-auth.ts).
LEMMA RefusalCause ==
  ASSUME RequestsInv, DiscoveryInv, [Next]_vars, NEW c \in Clients, answer[c] # 401,
         answer'[c] = 401
  PROVE  LET bearer == request'[c].bearer
         IN  /\ bearer \notin DOMAIN config.tokens
             /\ config.oauth /\ bearer \in DOMAIN Claims /\ Accepted(Claims[bearer]) =>
                    c \in missed'
<1>1. Shape /\ ClientOK(c)
  BY DEF RequestsInv
<1>2. CASE \E d \in Clients : \E q \in Asks[d] : Receive(d, q)
  <2> PICK d \in Clients : \E q \in Asks[d] : Receive(d, q)
    BY <1>2
  <2> PICK q \in Asks[d] : Receive(d, q)
    OBVIOUS
  <2>1. d = c /\ request'[c] = q /\ Authenticate(c, q) /\ ~ Verifiable(q.bearer)
            /\ q.bearer \notin DOMAIN config.tokens
    BY <1>1 DEF Receive, Authenticate, Unauthorized, Admit, Answered, Continues, Shape,
                McpStatus
  <2> QED
    BY <2>1 DEF Verifiable
<1>3. CASE \E d \in Clients : DiscoverJwks(d)
  <2> DEFINE holds == Metadata[Issuer(c)]
             url == tried[c] + 1
  <2>1. DiscoverJwks(c) /\ request'[c] = request[c] /\ url = Len(holds)
            /\ ~ (Issuer(c) \in reachable /\ holds[url])
    <3>1. DiscoverJwks(c)
      <4> PICK d \in Clients : DiscoverJwks(d)
        BY <1>3
      <4>1. UNCHANGED answer \/ Answered(d, 401)
        BY DEF DiscoverJwks, Continues
      <4>2. d = c
        BY <1>1, <4>1 DEF Answered, Shape
      <4> QED
        BY <4>2
    <3>2. ~ Continues(c, "verifying") /\ ~ Continues(c, "discovering")
      BY DEF Continues
    <3>3. ~ (Issuer(c) \in reachable /\ holds[url]) /\ IsLastUrl(Issuer(c), url)
      BY <3>1, <3>2 DEF DiscoverJwks
    <3> QED
      BY <3>1, <3>3 DEF DiscoverJwks, IsLastUrl
  <2>2. /\ phase[c] = "discovering" /\ missed \subseteq missed'
        /\ holds[url] => c \in missed'
    BY <2>1 DEF DiscoverJwks
  <2>3. request[c].bearer \notin DOMAIN config.tokens /\ Verifiable(request[c].bearer)
    BY <1>1, <2>2 DEF ClientOK
  <2>4. PICK u \in 1 .. Len(holds) : holds[u]
    BY <2>3, IssuersPublish
  <2>5. tried[c] \in Nat /\ (u \in 1 .. tried[c] => c \in missed)
    BY <2>2, <2>4 DEF DiscoveryInv
  <2>6. u \in 1 .. tried[c] \/ u = url
    BY <2>1, <2>4, <2>5
  <2>7. c \in missed'
    BY <2>2, <2>4, <2>5, <2>6
  <2> QED
    BY <2>1, <2>3, <2>7
<1>4. CASE \E d \in Clients : VerifyJwt(d)
  <2>1. VerifyJwt(c) /\ request'[c] = request[c]
            /\ (~ Accepted(Claims[request[c].bearer]) \/ c \in missed')
    BY <1>1, <1>4 DEF VerifyJwt, Admit, Unauthorized, Answered, Continues, Shape
  <2> QED
    BY <1>1, <2>1 DEF ClientOK, VerifyJwt
<1>5. CASE \E d \in Clients : Probed(d) \/ ClientAnswers(d) \/ ToolSettles(d)
  <2> PICK d \in Clients : Probed(d) \/ ClientAnswers(d) \/ ToolSettles(d)
    BY <1>5
  <2>1. UNCHANGED answer \/ \E status \in Nat \ {401} : Answered(d, status)
    <3>1. \A outcome \in Outcomes(request[d]) :
             StatusOf(request[d], outcome) \in Nat \ {401}
      BY DEF StatusOf, Outcomes
    <3> QED
      BY <3>1 DEF Probed, ProbeStatuses, ClientAnswers, Invoke, Reply, ToolSettles, Continues
  <2>2. ASSUME NEW status \in Nat \ {401}, Answered(d, status)
        PROVE  FALSE
    BY <1>1, <2>2 DEF Answered, Shape
  <2> QED
    BY <2>1, <2>2
<1>6. CASE \E d \in Clients : ReadBody(d)
  <2>1. PICK d \in Clients : ReadBody(d)
    BY <1>6
  <2>2. UNCHANGED answer \/ \E status \in Statuses \ {401} : Answered(d, status)
    <3>1. RestStatus(auth[d], request[d]) \in Statuses \ {401}
      BY DEF RestStatus, OrgStatus, Statuses
    <3> QED
      BY <2>1, <3>1 DEF ReadBody, CallRoute, CallTool, Reply, RejectBody, Invoke, Continues,
                        Statuses
  <2>3. CASE UNCHANGED answer
    BY <2>3
  <2>4. ASSUME NEW status \in Statuses \ {401}, Answered(d, status)
        PROVE  FALSE
    BY <1>1, <2>4 DEF Answered, Shape
  <2> QED
    BY <2>2, <2>3, <2>4
<1>7. CASE UNCHANGED answer
  BY <1>7
<1> QED
  BY <1>2, <1>3, <1>4, <1>5, <1>6, <1>7
     DEF Next, RequestSteps, Start, Finish, Disconnect, AuditSettles, IssuerDown, IssuerUp,
         Refill, call, vars

\* A good credential gets 401 only if a fetch made for it met an outage of its
\* issuer, however the outages fall between its fetches and among the clients.
THEOREM Refusals == Spec => RefusedOnlyForCause
<1>1. RequestsInv /\ DiscoveryInv /\ [Next]_vars =>
        \A c \in Clients : answer[c] # 401 /\ answer'[c] = 401 =>
            LET bearer == request'[c].bearer
            IN  /\ bearer \notin DOMAIN config.tokens
                /\ config.oauth /\ bearer \in DOMAIN Claims /\ Accepted(Claims[bearer]) =>
                        c \in missed'
  BY RefusalCause
<1> QED
  BY <1>1, Invariance, DiscoveryInit, DiscoveryNext, PTL DEF Spec, RefusedOnlyForCause

-----------------------------------------------------------------------------
(* The request counter *)

Sent == {c \in connected : phase[c] = "finished"}
Of(sample) == {c \in Sent : SampleOf(c) = sample}

CountInv ==
    /\ DOMAIN phase = Clients /\ DOMAIN request = Clients /\ DOMAIN answer = Clients
    /\ connected \subseteq Clients
    /\ \A c \in Sent : request[c].url # "stdio" /\ ~ IsStream(c)
    /\ DOMAIN counted = {SampleOf(c) : c \in Sent}
    /\ \A sample \in DOMAIN counted : counted[sample] = Cardinality(Of(sample))

LEMMA CountInit == Init => CountInv
BY DEF Init, CountInv, Sent

LEMMA OfFinite ==
  ASSUME connected \subseteq Clients, NEW sample
  PROVE  IsFiniteSet(Of(sample))
<1>1. Of(sample) \subseteq Clients
  BY DEF Of, Sent
<1> QED
  BY <1>1, ClientsAssumption, FS_Subset

\* A response that is sent adds one to its own sample.
LEMMA FinishCounts ==
  ASSUME CountInv, NEW c \in Clients, Finish(c)
  PROVE  CountInv'
<1> PICK new : new = SampleOf(c)
  OBVIOUS
<1>1. /\ DOMAIN phase' = Clients /\ UNCHANGED <<request, answer, connected>>
      /\ phase[c] = "answered" /\ phase'[c] = "finished" /\ c \in connected
      /\ request[c].url # "stdio" /\ ~ IsStream(c) /\ counted' = Plus(new)
      /\ \A d \in Clients \ {c} : phase'[d] = phase[d]
  BY DEF CountInv, Finish, Observed
<1>2. Sent' = Sent \cup {c} /\ c \notin Sent /\ Sent \subseteq Clients
  BY <1>1 DEF Sent, CountInv
<1>3. \A d : SampleOf(d)' = SampleOf(d) /\ IsStream(d)' = IsStream(d)
  BY <1>1 DEF SampleOf, IsStream
<1>4. {SampleOf(d) : d \in Sent}' = {SampleOf(d) : d \in Sent} \cup {new}
  BY <1>2, <1>3
<1>5. /\ Of(new)' = Of(new) \cup {c} /\ c \notin Of(new)
      /\ \A sample : sample # new => Of(sample)' = Of(sample)
  BY <1>2, <1>3 DEF Of
<1>6. DOMAIN counted' = DOMAIN counted \cup {new}
  BY <1>1 DEF Plus
<1>7. Cardinality(Of(new)') = Cardinality(Of(new)) + 1
  BY <1>5, OfFinite, FS_AddElement DEF CountInv
<1>8. Samples(new) = Cardinality(Of(new))
  <2>1. CASE new \in DOMAIN counted
    BY <2>1 DEF CountInv, Samples
  <2>2. CASE new \notin DOMAIN counted
    <3>1. Of(new) = {}
      BY <2>2 DEF CountInv, Of
    <3> QED
      BY <2>2, <3>1, FS_EmptySet DEF Samples
  <2> QED
    BY <2>1, <2>2
<1>9. \A sample \in DOMAIN counted' : counted'[sample] = Cardinality(Of(sample)')
  <2> SUFFICES ASSUME NEW sample \in DOMAIN counted'
               PROVE  counted'[sample] = Cardinality(Of(sample)')
    OBVIOUS
  <2>1. CASE sample = new
    <3>1. counted'[new] = Samples(new) + 1
      BY <1>1 DEF Plus
    <3> QED
      BY <1>7, <1>8, <2>1, <3>1
  <2>2. CASE sample # new
    BY <1>1, <1>5, <1>6, <2>2 DEF Plus, CountInv
  <2> QED
    BY <2>1, <2>2
<1>10. \A d \in Sent' : request'[d].url # "stdio" /\ ~ IsStream(d)'
  BY <1>1, <1>2, <1>3 DEF CountInv
<1>11. connected' \subseteq Clients /\ DOMAIN request' = Clients /\ DOMAIN answer' = Clients
  BY <1>1 DEF CountInv
<1>12. DOMAIN counted' = {SampleOf(d) : d \in Sent}'
  BY <1>4, <1>6 DEF CountInv
<1> QED
  BY <1>1, <1>9, <1>10, <1>11, <1>12 DEF CountInv

\* A step after which the same responses have been sent as before.
LEMMA CountKeeps ==
  ASSUME CountInv, UNCHANGED counted, DOMAIN phase' = Clients, DOMAIN request' = Clients,
         DOMAIN answer' = Clients, Sent' = Sent, connected' \subseteq Clients,
         \A d \in Sent : request'[d] = request[d] /\ answer'[d] = answer[d]
  PROVE  CountInv'
<1>1. \A d \in Sent : SampleOf(d)' = SampleOf(d) /\ IsStream(d)' = IsStream(d)
  BY DEF SampleOf, IsStream
<1>2. {SampleOf(d) : d \in Sent}' = {SampleOf(d) : d \in Sent}
  BY <1>1
<1>3. \A sample : Of(sample)' = Of(sample)
  BY <1>1 DEF Of
<1> QED
  BY <1>1, <1>2, <1>3 DEF CountInv

\* A response that is written, and a step of a request without one, count nothing.
LEMMA UnsentCounts ==
  ASSUME CountInv, NEW c \in Clients, phase[c] # "finished", UNCHANGED connected,
         DOMAIN request' = Clients, \A d \in Clients \ {c} : request'[d] = request[d],
         \/ \E status : Answered(c, status)
         \/ \E p : p # "finished" /\ Continues(c, p)
  PROVE  CountInv'
<1>1. /\ DOMAIN phase' = Clients /\ DOMAIN answer' = Clients /\ UNCHANGED counted
      /\ phase'[c] # "finished"
      /\ \A d \in Clients \ {c} : phase'[d] = phase[d] /\ answer'[d] = answer[d]
  BY DEF Answered, Continues, CountInv
<1>2. Sent' = Sent /\ c \notin Sent /\ Sent \subseteq Clients
  BY <1>1 DEF Sent, CountInv
<1> QED
  BY <1>1, <1>2, CountKeeps DEF CountInv

LEMMA CountNext == CountInv /\ [Next]_vars => CountInv'
<1> SUFFICES ASSUME CountInv, [Next]_vars PROVE CountInv'
  OBVIOUS
<1> USE DEF call
<1>1. ASSUME NEW c \in Clients, NEW q \in Asks[c], Receive(c, q)  PROVE CountInv'
  <2>1. phase[c] # "finished" /\ UNCHANGED connected /\ DOMAIN request' = Clients
          /\ \A d \in Clients \ {c} : request'[d] = request[d]
    BY <1>1 DEF Receive, CountInv
  <2>2. (\E status : Answered(c, status)) \/ \E p : p # "finished" /\ Continues(c, p)
    BY <1>1 DEF Receive, Authenticate, Admit, Unauthorized
  <2> QED
    BY <2>1, <2>2, UnsentCounts
<1>2. ASSUME NEW c \in Clients, RequestSteps(c)  PROVE CountInv'
  <2> USE DEF RequestSteps, Probed, DiscoverJwks, VerifyJwt, ReadBody, ClientAnswers, ToolSettles
  <2>1. phase[c] # "finished" /\ UNCHANGED <<connected, request>> /\ DOMAIN request' = Clients
    BY <1>2 DEF CountInv
  <2>2. (\E status : Answered(c, status)) \/ \E p : p # "finished" /\ Continues(c, p)
    BY <1>2 DEF Admit, Unauthorized, CallRoute, CallTool, Reply, RejectBody, Invoke
  <2> QED
    BY <2>1, <2>2, UnsentCounts
<1>3. ASSUME NEW c \in Clients, Disconnect(c)  PROVE CountInv'
  <2>1. /\ phase[c] # "finished" /\ connected' = connected \ {c}
        /\ UNCHANGED <<phase, request, answer, counted>>
    BY <1>3 DEF Disconnect, Observed
  <2>2. Sent' = Sent /\ connected' \subseteq Clients
    BY <2>1 DEF Sent, CountInv
  <2> QED
    BY <2>1, <2>2, CountKeeps DEF CountInv
<1>4. ASSUME UNCHANGED <<phase, request, answer, counted, connected>>  PROVE CountInv'
  <2>1. Sent' = Sent
    BY <1>4 DEF Sent
  <2> QED
    BY <1>4, <2>1, CountKeeps DEF CountInv
<1>5. ASSUME NEW c \in Clients, Finish(c)  PROVE CountInv'
  BY <1>5, FinishCounts
<1> QED
  BY <1>1, <1>2, <1>3, <1>4, <1>5
     DEF Next, Start, AuditSettles, IssuerDown, IssuerUp, Refill, vars

\* /metrics counts each HTTP response that was sent once: one whose client left
\* before, an event stream and an answer on stdout are never sampled, and no
\* response under two statuses (server.ts observeRequestMetrics).
THEOREM Counted == Spec => []CountsResponsesOnce
<1>1. CountInv => CountsResponsesOnce
  BY DEF CountInv, CountsResponsesOnce, Sent, Of
<1> QED
  BY <1>1, CountInit, CountNext, PTL DEF Spec
=============================================================================

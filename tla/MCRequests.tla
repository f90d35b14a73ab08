----------------------------- MODULE MCRequests -----------------------------
(* Instance of Requests for TLC: one client with every kind of request, and one
   that competes with it for the issuer, the bucket and the counters. *)
EXTENDS Requests

CONSTANTS a, b

T(url, tool) == [NoRequest EXCEPT !.url = url, !.method = "POST", !.tool = tool]
By(q, bearer) == [q EXCEPT !.bearer = bearer]
From(q, header, org) == [q EXCEPT !.header = header, !.org = org]
G(url) == [NoRequest EXCEPT !.url = url]

Rest ==
    {By(From(T("/v1", "delete_memory"), h, o), bearer) :
        bearer \in {"bound", "free", "jwt", "reader"}, h \in {NoOrg, " acme"},
        o \in {NoOrg, "globex"}}
    \cup {By(T("/v1", "search_memory"), bearer) : bearer \in {"jwt", "reader", "expired", Blank}}
    \cup {By(From(T("/v1", "add_memory"), h, "acme"), "free") : h \in {Blank, Twice, "globex"}}
    \cup {[By(T("/v1", "compact_memory"), "reader") EXCEPT !.apply = apply, !.input = i] :
            apply \in BOOLEAN, i \in {"valid", "projectless"}}
    \cup {[By(T("/v1", "compact_memory"), "free") EXCEPT !.apply = TRUE],
          [By(T("/v1", "add_memory"), "free") EXCEPT !.body = "malformed"],
          [By(T("/v1", "add_memory"), "free") EXCEPT !.input = "invalid"],
          By(T("/v1", "add_memory_interactive"), "free")}

Mcp ==
    {By(From(T("/mcp", tool), NoOrg, o), bearer) :
        tool \in {"delete_memory", "add_memory_interactive"},
        bearer \in {"bound", "jwt", "reader"}, o \in {NoOrg, " acme", "globex"}}
    \cup {[By(T("/mcp", "compact_memory"), "reader") EXCEPT !.apply = apply, !.input = i] :
            apply \in BOOLEAN, i \in {"valid", "invalid", "projectless"}}
    \cup {[By(T("/mcp", NoTool), "jwt") EXCEPT !.body = body] : body \in {"malformed", "oversized"}}
    \cup {[By(T("/mcp", NoTool), "jwt") EXCEPT !.method = m] : m \in {"GET", "DELETE", "PUT"}}
    \cup {[By(T("/mcp", NoTool), "free") EXCEPT !.local = FALSE]}
    \cup {[By(From(T("/mcp", "search_memory"), NoOrg, o), "bound") EXCEPT !.body = "resource"] :
            o \in {NoOrg, Blank, "acme"}}

Stdio ==
    {[From(T("stdio", tool), NoOrg, o) EXCEPT !.capable = capable] :
        tool \in {"add_memory", "add_memory_interactive", "list_workspace_roots"},
        o \in {NoOrg, Blank, " acme"}, capable \in BOOLEAN}

Public == {G("/healthz"), G("/readyz"), G("/metrics"), G("/admin/memory"), G("/metadata"), G("/v1")}

MCAsks ==
    a :> (Rest \cup Mcp \cup Stdio \cup Public)
        @@ b :> {By(T("/mcp", "add_memory"), "jwt")}

MCClaims ==
    "jwt" :> [issuer |-> "idp", good |-> TRUE, scopes |-> {"write", "email"}, org |-> " acme"]
        @@ "reader" :> [issuer |-> "idp", good |-> TRUE, scopes |-> {"read"}, org |-> NoOrg]
        @@ "expired" :> [issuer |-> "idp", good |-> FALSE, scopes |-> {"admin"}, org |-> NoOrg]

(* An issuer with a path, of whose URLs the second holds the document. *)
MCMetadata == "idp" :> <<FALSE, TRUE, FALSE>>

Static == "bound" :> "acme" @@ "free" :> NoOrg

With(loopback, tokens, oauth, keySets, limit) ==
    [loopback |-> loopback, tokens |-> tokens, oauth |-> oauth, keySets |-> keySets,
     limit |-> limit]

MCConfigurations ==
    {With(TRUE, << >>, FALSE, FALSE, 1), With(FALSE, << >>, FALSE, FALSE, NoLimit),
     With(FALSE, Static, FALSE, FALSE, NoLimit), With(FALSE, << >>, TRUE, FALSE, NoLimit),
     With(FALSE, Static, TRUE, TRUE, 1)}

MCTrimmed == " acme" :> "acme"
=============================================================================

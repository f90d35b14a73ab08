---------------------------- MODULE MCRetrieval ----------------------------
EXTENDS Retrieval

(* Texts of the corpora and of edits: good, fair and poor matches. *)
Text(v, terms, chunks, prefix) ==
    [version |-> v, title |-> IF v = 2 THEN Blank ELSE "title", terms |-> terms, of |-> 2, occurs |-> terms,
     phrase |-> terms = 2, headline |-> FALSE, entities |-> 0,
     fts |-> IF terms = 2 THEN 1 ELSE 0, generic |-> FALSE,
     prefix |-> prefix, chunks |-> chunks]

Row(i, org, scopeType, scopeId, memoryType, updatedAt, text) ==
    [id |-> i, org |-> org, scopeType |-> scopeType, scopeId |-> scopeId,
     memoryType |-> memoryType, sourceType |-> "document",
     updatedAt |-> updatedAt, archived |-> FALSE, text |-> text]

EditTexts == {Text(2, 2, <<30>>, "none"), Text(3, 0, <<-4>>, "question")}

TheCorpora ==
    LET summary(i, d, text) == Row(i, "acme", "project", "p", "summary", d, text)
        mine(i, org, text) == Row(i, org, "user", "u", "fact", 28, text)
    IN  { {summary(1, 28, Text(1, 1, a, "none")),
           summary(2, d, Text(1, t, <<38>>, "none")),
           third} :
            a \in {<<40, 39>>, <<37>>}, d \in {2, 28}, t \in {0, 2},
            third \in {summary(3, 30, Text(1, 1, <<20>>, "none")),
                       mine(3, "acme", Text(1, 2, <<40>>, "constraint")),
                       mine(3, "other", Text(1, 2, <<40>>, "none")),
                       Row(3, "other", "project", "p", "decision", 30,
                           Text(1, 2, <<40>>, "none"))} }

TheRequests ==
    [org : {"acme"}, legacy : {FALSE}, projectKey : {"p"}, userScopeId : {"u"},
     limit : {2, 3}, pack : {TRUE}]
    \cup [org : {NoOrg}, legacy : BOOLEAN, projectKey : {"p"},
          userScopeId : {NoUser}, limit : {2}, pack : {FALSE}]
    \cup [org : {"acme", NoOrg}, legacy : {TRUE}, projectKey : {Blank},
          userScopeId : {"u"}, limit : {0, 2}, pack : {FALSE}]
=============================================================================

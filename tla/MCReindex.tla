----------------------------- MODULE MCReindex -----------------------------
(***************************************************************************)
(* A small instance of Reindex for TLC: three stored records and any two   *)
(* calls, or some three. The first record's chunks do not fit on one page. *)
(***************************************************************************)
EXTENDS Reindex

CONSTANTS a, b, c  \* the clients

McClients == {a, b, c}
McPatterns ==
    [x |-> "code_symbol", y |-> "proper_noun", z |-> "proper_noun", day |-> "day",
     may |-> "month", s |-> "path"]
McEntities ==
    [one |-> <<"x", "y", "z">>, two |-> <<"z", "y">>, three |-> <<"y", "may", "day">>,
     title |-> <<"s">>, old |-> <<>>] @@ Keep :> <<>>
\* Three chunks, the last a tail; one window and no tail; less than a window.
McTokens == [one |-> 6, two |-> 3, three |-> 1]

Source(title) == [key |-> "k", title |-> title, uri |-> Keep]
Row(text, scope, mentions) ==
    [text |-> text, durability |-> "durable", tags |-> {"t"}, scope |-> scope, source |-> 1,
     version |-> 1, mentions |-> ToSet(mentions), relationships |-> RelationshipsOf(mentions)]
McSources == <<Source("old")>>
\* The third record was restored from the archive, so that it has no graph.
McStored ==
    <<Row("one", "p", <<"x", "y", "z">>), Row("two", "q", <<"z", "y">>), Row("three", "q", <<>>)>>

Add(text, key, title) ==
    [op |-> "add", id |-> 0, text |-> text, durability |-> Keep, scope |-> "p",
     key |-> key, title |-> title, uri |-> Keep]
Update(id, text, durability, tags) ==
    [op |-> "update", id |-> id, text |-> text, durability |-> durability, tags |-> tags]
Delete(id) == [op |-> "delete", id |-> id]
Inspect(scope, includeArchived, kind, limit) ==
    [op |-> "inspect", id |-> 0, scope |-> scope, includeArchived |-> includeArchived,
     kind |-> kind, limit |-> limit, relationshipLimit |-> limit]
Calls == <<
    Add("two", "k", "title"), Add("three", "m", "title"), Add("one", "m", Keep),
    Update(1, "two", Keep, Keep), Update(1, Keep, "ephemeral", Keep),
    Update(1, "three", Keep, {}), Update(1, Keep, Keep, Keep), Update(2, "one", Keep, Keep),
    Update(3, Keep, "ephemeral", Keep), Update(4, Keep, Keep, {"t"}),
    Delete(1),
    [op |-> "reindex", id |-> 0, scopes |-> {"p", "q"}],
    [op |-> "reindex", id |-> 0, scopes |-> {"q"}],
    Inspect("p", FALSE, Keep, 100), Inspect("q", TRUE, "proper_noun", 1)>>

Together(i, j, third) == a :> Calls[i] @@ b :> Calls[j] @@ c :> third

\* Any two of them; and three that write one record, want the same entities,
\* reindex over each other or are seen by inspect_memory_graph.
McWorkloads ==
    {Together(p[1], p[2], Delete(9)) :
        p \in {q \in (DOMAIN Calls) \X (DOMAIN Calls) : q[1] <= q[2]}}
    \cup {Together(t[1], t[2], Calls[t[3]]) :
        t \in {<<4, 5, 11>>, <<4, 6, 5>>, <<1, 4, 8>>, <<1, 3, 10>>, <<4, 12, 13>>, <<11, 5, 12>>, <<1, 11, 14>>}}

=============================================================================

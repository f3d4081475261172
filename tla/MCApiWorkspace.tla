-------------------------- MODULE MCApiWorkspace --------------------------
EXTENDS ApiWorkspace
CONSTANTS r1, r2, r3

Ref(n) == [ref |-> n, fields |-> << >>]
Entry(method, inherits, security) ==
    [method |-> method, body |-> {}, inherits |-> inherits, security |-> security,
     responses |-> <<[code |-> 200, schema |-> {}]>>]
Item(path, entries) == [path |-> path, parameters |-> {}, operations |-> entries]
Doc(text, security, paths) ==
    [text |-> text, fault |-> "none", schemas |-> << >>, schemes |-> {"bearer"},
     servers |-> <<"one", "two">>, security |-> security, paths |-> paths]

\* Posts: public, protected and optional operations, a parameter that shadows a literal.
Posts == Doc("posts", {{"bearer"}},
             <<Item(<<"posts", "{}">>, <<Entry("GET", TRUE, {}), Entry("POST", FALSE, {{}, {"bearer"}})>>),
               Item(<<"posts", "new">>, <<Entry("GET", FALSE, {})>>),
               Item(<<"posts">>, <<Entry("GET", FALSE, {{"basic"}}), Entry("POST", TRUE, {})>>)>>)
Nowhere == [Posts EXCEPT !.text = "nowhere", !.servers = << >>]
Broken == [Posts EXCEPT !.text = "broken", !.fault = "untitled"]

\* Every way two schemas can refer to each other, to a third that is not there, or elsewhere;
\* used twice by one operation.
Schemas == [ref : {"none", "a", "b", "c", "remote"},
            fields : {<< >>} \cup [{"k"} -> {Ref("a"), Ref("b"), Ref("c")}]]
Tree(schemas) == [Doc("tree", {}, <<[path |-> <<"t">>, parameters |-> {Ref("a")},
                                     operations |-> <<[Entry("POST", TRUE, {}) EXCEPT
                                         !.body = {[ref |-> "b", fields |-> [k \in {"k", "l"} |-> Ref("a")]]}]>>]>>)
                  EXCEPT !.schemas = schemas]

Single == {Posts, Nowhere, Broken} \cup {Tree(s) : s \in [{"a", "b"} -> Schemas]}
Race(t1, t2, t3) == [r \in {r1, r2, r3} |->
    Doc(IF r = r1 THEN t1 ELSE IF r = r2 THEN t2 ELSE t3, {}, << >>)]
MCAssignments == {Race("x", "y", "z"), Race("x", "x", "y")}
                 \cup {[r \in {r1, r2, r3} |-> IF r = r1 THEN d ELSE NoDocument] : d \in Single}
MCOpened == Single

Got(method, server, path, credential) ==
    [method |-> method, server |-> server, path |-> path, credential |-> credential, valid |-> TRUE,
     priority |-> "", category |-> "edge_case",
     assertions |-> <<[form |-> "text", kind |-> "", code |-> 200],
                      [form |-> "object", kind |-> "body", code |-> 0],
                      [form |-> "object", kind |-> "cookie", code |-> 0]>>]
MCReplies ==
    {<<>>, <<[Got("GET", "", <<"posts", "1">>, "none") EXCEPT !.valid = FALSE]>>} \cup
    {<<Got(m, s, p, c)>> : m \in {"GET", "POST"}, s \in {"", "two"},
        p \in {<<"posts">>, <<"posts", "1">>, <<"posts", "new">>},
        c \in {"none", "key", "authorization", "context", "hollow"}}
MCCollections ==
    {<<[items |-> <<[url |-> <<"one", "posts">>], [url |-> << >>]>>], [items |-> <<[url |-> <<"two">>]>>]>>}

\* Two steps that use what the first one gave; the second finds the id anew.
Flow(uses, extract) == [method |-> "GET", server |-> "", path |-> <<"posts", "1">>, uses |-> uses,
                        own |-> [v \in {"id"} |-> "mine"], extract |-> extract,
                        assertions |-> <<[kind |-> "status", code |-> 200]>>]
MCWorkflows ==
    {<<Flow({"id"}, [v \in {"id", "token"} |-> v]), Flow({"id", "token"}, [v \in {"id"} |-> "id"]),
       Flow({"id", "token"}, << >>)>>}
MCAnswers ==
    {[code |-> a[1], holds |-> a[2], body |-> b] : a \in {<<200, TRUE>>, <<200, FALSE>>, <<401, TRUE>>},
        b \in {<< >>, [k \in {"id"} |-> "1"], [k \in {"id", "token"} |-> IF k = "id" THEN "2" ELSE "secret"]}}
===========================================================================

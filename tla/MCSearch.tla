------------------------------ MODULE MCSearch ------------------------------
EXTENDS BatchedSearch

\* Three books; "a" and "b" are two queries.
MCDoc(doc, book, page, id, a, b) ==
    [doc |-> doc, book |-> book, page |-> page, id |-> id,
     score |-> ("a" :> a @@ "b" :> b)]

\* A first index in good order: two equal scores, a page the book lacks.
MCFirst == {MCDoc(0, 1, 1, "page", 2, 0), MCDoc(1, 2, 1, "page", 2, 1),
            MCDoc(2, 1, 2, "page", 1, 0), MCDoc(3, 3, 1, "page", 3, 1)}

\* Rewritten: other numbers, no book field, a page twice, ids missing.
MCSecond == {MCDoc(0, 3, 1, "page", 3, 1), MCDoc(1, 1, 2, "page", 2, 1),
             MCDoc(2, 1, 2, "page", 2, 0), MCDoc(3, 2, 1, "page", 1, 2),
             MCDoc(4, 2, 2, "nodash", 1, 0), MCDoc(5, 1, 3, "none", 2, 0)}

MCQueries == {"a", "b"}
MCIndex == <<MCFirst, MCSecond>>
MCPushed == <<TRUE, FALSE>>
MCCalls == 1..3
MCUnreadable == {<<1, 1>>}
MCAsk(tool, q, scope, limit, room) ==
    [tool |-> tool, q |-> q, scope |-> scope, schools |-> <<>>, limit |-> limit, room |-> room]
MCCompare(schools) ==
    [tool |-> "compare", q |-> "a", scope |-> {}, schools |-> schools, limit |-> 2, room |-> 2]

\* The same walk with a small limit, a small budget and neither; another
\* query; another scope; no downloaded book; schools apart and overlapping.
MCRequests ==
    {MCAsk("search", "a", {1, 2}, 2, 1), MCAsk("search", "a", {1, 2}, 2, 2),
     MCAsk("search", "a", {1, 2}, 1, 2), MCAsk("search", "b", {1, 2}, 2, 2),
     MCAsk("search", "a", {}, 2, 2),
     MCAsk("discover", "a", {1, 2}, 1, 1), MCAsk("discover", "b", {1, 2, 3}, 2, 1),
     MCCompare(<<{1}, {}, {2}>>), MCCompare(<<{1, 2}, {1, 2}>>)}
=============================================================================

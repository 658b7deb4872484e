------------------------------ MODULE MCFetch ------------------------------
EXTENDS FetchPassages

\* Book 3 is not downloaded at first; later it is, and book 2 is excluded.
MCCatalogues ==
    <<1 :> "downloaded" @@ 2 :> "downloaded" @@ 3 :> "listed",
      1 :> "downloaded" @@ 2 :> "absent" @@ 3 :> "downloaded">>
MCPagesOf == 1 :> {1, 2, 3} @@ 2 :> {1, 4} @@ 3 :> {1}
MCShaky == {2}

\* Page 3 of book 1 is not indexed, page 4 of book 2 has no body.
MCDoc(book, page, body) == [key |-> <<book, page>>, body |-> body]
MCDocuments ==
    <<MCDoc(1, 1, TRUE), MCDoc(2, 1, TRUE), MCDoc(1, 2, TRUE), MCDoc(2, 4, FALSE),
      MCDoc(3, 1, TRUE)>>

MCEntry(book, ids) == [book |-> book, ids |-> ids]
MCAsk(entries, neighbors, limit, room) ==
    [entries |-> entries, neighbors |-> neighbors, limit |-> limit, room |-> room]
MCSome == <<MCEntry(1, {2}), MCEntry(2, {3})>>
MCTwice == <<MCEntry(1, {2}), MCEntry(1, {1, 2, 4})>>

\* One request with a small limit, a small budget and neither; a book named
\* twice; the books that change.
MCRequests ==
    {MCAsk(MCSome, 1, 3, 9), MCAsk(MCSome, 1, 3, 1), MCAsk(MCSome, 1, 9, 9),
     MCAsk(MCTwice, 0, 3, 9), MCAsk(<<MCEntry(3, {1}), MCEntry(2, {4})>>, 0, 2, 9)}

\* A new cache, and one that earlier reads of the same operation left, with a
\* page that is wanted again as its oldest.
MCSeeds == {<<>>, <<<<1, 2>>, <<3, 1>>>>}
=============================================================================

----------------------------- MODULE MCPassages ------------------------------
(* Every text of a few pieces, and every small table of contents with one  *)
(* text, under each layout of a book's file.                               *)
EXTENDS Passages

CONSTANT Pieces  \* how many pieces a text has

Table(name, columns) == [name |-> name, columns |-> columns]

(* Shamela 4; an older file with the words and the levels; one whose       *)
(* headings are pages; one whose headings are told by their page only; one *)
(* without headings; and no book.                                          *)
MCFiles ==
    [shamela4 |-> <<Table("page", {"id", "part", "page", "number"}),
                    Table("title", {"id", "page", "parent"})>>,
     older |-> <<Table("book", {"id", "nass", "part", "page"}),
                 Table("toc", {"title_id", "page_id", "tit", "lvl"})>>,
     byPage |-> <<Table("book", {"id", "nass"}), Table("title", {"id", "tit", "lvl", "sub"})>>,
     unnumbered |-> <<Table("page", {"id", "part"}), Table("title", {"page", "lvl"})>>,
     bare |-> <<Table("pages", {"id", "page", "text"})>>,
     none |-> <<Table("title", {"tid", "tit"})>>]

Beh == <<"beh", "noon">>
PieceSet ==
    {Beh, <<"space">>, <<"zw", "space">>, <<"block">>, <<"inline">>, <<"comma">>,
     <<"harakah", "alefHamza">>, <<"alef", "zw", "hamza", "nbsp">>, <<"e", "zw", "acute">>}
Texts == {FlattenSeq(s) : s \in SeqOf(PieceSet, Pieces)}

Case(layout, pages, rows, body, held, titles, operation, hits, query, mode) ==
    [layout |-> layout, pages |-> pages, rows |-> rows, body |-> body, held |-> held,
     titles |-> titles, operation |-> operation, hits |-> hits, query |-> query, mode |-> mode,
     text |-> operation = "citation" /\ 1 \in titles,
     verified |-> operation = "batch" \/ hits = <<2>>]

Row(id, page, level, words) == [id |-> id, page |-> page, level |-> level, words |-> words]

(* Batches with every text.                                                *)
Queries == {<<Beh, "any_terms">>, <<<<"alef", "space">> \o Beh, "phrase">>,
            <<<<"alef", "beh", "noon", "space", "alef">>, "all_terms">>}
TextCases ==
    {Case("shamela4", {1}, <<>>, body, {1}, {}, "batch", <<1>>, q[1], q[2]) :
        body \in Texts, q \in Queries}

(* Three headings of every page and level.                                 *)
RowsOf(layout) ==
    IF layout = "bare" THEN {<<>>}
    ELSE {<<Row(3, p, l, TRUE), Row(1, q, m, FALSE), Row(2, r, 2, m = 1)>> :
            p, q, r \in 1..2, l, m \in 0..2}
Body == <<"alef">> \o Beh
TocCases ==
    UNION {{Case(layout, {1, 2}, rows, Body, held, titles, "batch", <<2, 3, 1>>, Beh, "any_terms") :
                rows \in RowsOf(layout), held \in {{1}, {1, 2}}, titles \in {{1}, {1, 2, 3}}} :
            layout \in DOMAIN MCFiles}
Citations ==
    UNION {{Case(layout, {1, 2}, rows, Body, {1}, titles, "citation", <<page>>, Beh, "any_terms") :
                rows \in RowsOf(layout), page \in {2, 3}, titles \in {{2}, {1, 2, 3}}} :
            layout \in DOMAIN MCFiles \ {"byPage"}}

MCCases == TextCases \cup TocCases \cup Citations
=============================================================================

------------------------------- MODULE Passages -------------------------------
(***************************************************************************)
(* Hits become passages, and a place in a book a citation (passage.ts,     *)
(* citation.ts): where the page lies comes from the file of the book       *)
(* (bookRepo.ts), read as its schema allows, the words of the page and of  *)
(* its headings from the index, through the cache of one operation.        *)
(*                                                                         *)
(* An operation shares neither its readers nor its cache with another, so  *)
(* a request to the helper and its answer, or failure, are one step. The   *)
(* cache is smaller here than its bounds; FetchPassages has them. The      *)
(* database does not change while it is open, so the table of contents,    *)
(* which is read when it is first needed, is read with the opening. All    *)
(* pages of a case have the same text.                                     *)
(***************************************************************************)
EXTENDS TextForms, Schema

CONSTANTS
    Files,   \* the tables of a book's file, for each layout
    Cases,   \* a book, what the index holds of it, and what is asked of it
    Radius   \* the radius of an excerpt

(* The rows of the pages table are numbers of pages, those of the titles    *)
(* table [id, page, level, words], words telling whether the file has them. *)
(* The index holds the words of the pages `held` and of the headings        *)
(* `titles`. An `operation` is a batch of passages or a citation. The       *)
(* school of the book is `verified` or not.                                 *)
Headings == [id : Int, page : Int, level : Int, words : BOOLEAN]

PassagesAssumption ==
    /\ Radius \in Nat \ {0}
    /\ \A c \in Cases :
          /\ c.layout \in DOMAIN Files
          /\ c.rows \in Seq(Headings)
          /\ c.body \in Seq(Chars) /\ c.query \in Seq(Chars)
          /\ c.hits \in Seq(Int)
          /\ c.operation \in {"batch", "citation"}
          /\ c.operation = "citation" => Len(c.hits) = 1
          /\ c.mode \in {"any_terms", "all_terms", "phrase"}
          /\ {c.text, c.verified} \subseteq BOOLEAN
ASSUME PassagesAssumption

VARIABLES
    case,     \* the case
    pc,       \* "pages" | "open" | "titles" | "hits" | "over"
    reader,   \* the open book: its profile and its table of contents
    source,   \* what the cache has, and what it knows to be missing
    hit,      \* the next hit
    asked,    \* headings asked for, in order of the requests
    warm,     \* the request for all headings was answered
    out       \* the passages, or the citation

vars == <<case, pc, reader, source, hit, asked, warm, out>>

-----------------------------------------------------------------------------
(* BookReader: open, toc and trail. A file without a table of pages is no  *)
(* book.                                                                   *)
IsBook == [layout \in DOMAIN Files |-> PagesTable(Files[layout]) # NoTable]
Profile == [layout \in DOMAIN Files |-> ProbeBook(Files[layout])]
NoReader == [profile |-> Null, toc |-> <<>>]

(* The page a heading begins on; without a column for it, the heading's id *)
(* is a page. Without a column for the level all are of the first.         *)
Ref(profile, row) == IF profile.titlePageRef = profile.titleId THEN row.id ELSE row.page

Heading(profile, row) ==
    [id |-> IF profile.titleId = Null THEN Ref(profile, row) ELSE row.id,
     page |-> Ref(profile, row),
     level |-> IF profile.titleLevel = Null \/ row.level = 0 THEN 1 ELSE row.level,
     words |-> profile.titleText # Null /\ row.words]

(* Ordered by page; those of one page come in any order.                   *)
Tables(profile, rows) ==
    IF profile.titlesTable = Null \/ profile.titlePageRef = Null THEN {<<>>}
    ELSE LET Page(n) == Ref(profile, rows[n])
             orders == {o \in [DOMAIN rows -> DOMAIN rows] :
                          /\ IsInjective(o)
                          /\ \A m, n \in DOMAIN o : m < n => Page(o[m]) <= Page(o[n])}
         IN  {[n \in DOMAIN o |-> Heading(profile, rows[o[n]])] : o \in orders}

(* The entries before the loop breaks, at the first of a later page.       *)
Entries(toc, page) ==
    LET later == SelectInSeq(toc, LAMBDA e : e.page > page)
    IN  IF later = 0 THEN toc ELSE SubSeq(toc, 1, later - 1)

(* Mutant: a heading resets nothing but its own level. *)
TrailKeepingDeeper(toc, page) ==
    FoldLeftDomain(LAMBDA last, n : {k \in last : toc[k].level # toc[n].level} \cup {n},
                   {}, Entries(toc, page))

(* The places of the last heading of each level; a heading resets what is  *)
(* nested in it.                                                           *)
Trail(toc, page) ==
    FoldLeftDomain(LAMBDA last, n : {k \in last : toc[k].level < toc[n].level} \cup {n},
                   {}, Entries(toc, page))

TrailIds(toc, page) == {toc[n].id : n \in {k \in Trail(toc, page) : ~toc[k].words}}

(* The headings of a trail that have words, by their levels.               *)
Levels(toc) == {p \in (DOMAIN toc) \X (DOMAIN toc) : toc[p[1]].level < toc[p[2]].level}
Path(toc, trail) == Ordered(Levels(toc), {n \in trail : toc[n].words})

-----------------------------------------------------------------------------
(* LuceneTextSource: what is wanted, less what is known. A request that    *)
(* fails is logged and leaves everything as it was.                        *)
Outstanding(wanted, known, missing) == wanted \ (known \cup missing)

(* Mutant: whatever was asked for is remembered as missing. *)
AnsweredBadly(cache, need, held) ==
    [known |-> cache.known \cup (need \cap held), missing |-> cache.missing \cup need]

Answered(cache, need, held) ==
    [known |-> cache.known \cup (need \cap held),
     missing |-> cache.missing \cup (need \ held)]

Need(cache, wanted) == Outstanding(wanted, cache.known, cache.missing)

(* The cache after a look for `wanted`, if its request is answered or not. *)
Looked(cache, wanted, held, ok) ==
    IF ok THEN Answered(cache, Need(cache, wanted), held) ELSE cache
Outcomes(cache, wanted) == IF Need(cache, wanted) = {} THEN {TRUE} ELSE BOOLEAN

Init ==
    /\ case \in Cases
    /\ pc = IF case.operation = "batch" THEN "pages" ELSE "open"
    /\ reader = NoReader
    /\ source = [pages |-> [known |-> {}, missing |-> {}],
                 titles |-> [known |-> {}, missing |-> {}]]
    /\ hit = 1
    /\ asked = <<>>
    /\ warm = FALSE
    /\ out = <<>>

(* warm(), first half: the text of all pages.                              *)
WarmPages ==
    /\ pc = "pages"
    /\ \E ok \in Outcomes(source.pages, ToSet(case.hits)) :
          source' = [source EXCEPT
                        !.pages = Looked(@, ToSet(case.hits), case.held, ok)]
    /\ pc' = "open"
    /\ UNCHANGED <<case, reader, hit, asked, warm, out>>

(* BookReader.open. A hit in a file that is no book is dropped, a citation *)
(* of it fails.                                                            *)
Open ==
    /\ pc = "open" /\ IsBook[case.layout]
    /\ \E toc \in Tables(Profile[case.layout], case.rows) :
          reader' = [profile |-> Profile[case.layout], toc |-> toc]
    /\ pc' = IF case.operation = "batch" THEN "titles" ELSE "hits"
    /\ UNCHANGED <<case, source, hit, asked, warm, out>>

OpenFails ==
    /\ pc = "open" /\ ~IsBook[case.layout]
    /\ pc' = "over"
    /\ UNCHANGED <<case, reader, source, hit, asked, warm, out>>

(* warm(), second half: the headings these pages turn out to need, whether *)
(* the file has the page or not.                                           *)
AllIds == UNION {TrailIds(reader.toc, p) : p \in ToSet(case.hits)}

WarmTitles ==
    /\ pc = "titles"
    /\ \E ok \in Outcomes(source.titles, AllIds) :
          /\ source' = [source EXCEPT !.titles = Looked(@, AllIds, case.titles, ok)]
          /\ warm' = ok
    /\ asked' = Append(asked, Need(source.titles, AllIds))
    /\ pc' = "hits"
    /\ UNCHANGED <<case, reader, hit, out>>

-----------------------------------------------------------------------------
(* A page the file does not have gives no passage; its citation fails.     *)
Page == case.hits[hit]
InHits == pc = "hits" /\ hit <= Len(case.hits)

Skip ==
    /\ InHits /\ Page \notin case.pages
    /\ hit' = hit + 1
    /\ UNCHANGED <<case, pc, reader, source, asked, warm, out>>

(* The words of a page: of the index, or of the file if it has a column.   *)
TextOf(pages) ==
    IF Page \in pages.known \/ reader.profile.pageText # Null
    THEN HtmlToText(case.body) ELSE <<>>

(* The trail keeps the words it got for the passages after this one.       *)
Filled(toc, trail, titles) ==
    [n \in DOMAIN toc |->
        IF n \in trail THEN [toc[n] EXCEPT !.words = @ \/ toc[n].id \in titles.known]
        ELSE toc[n]]

(* What is cut from the text, normalised to find the match and composed as *)
(* the map of its places is.                                               *)
Quote(query, text) ==
    LET form == NormalisedWithMap(text)
        match == FirstMatch(query, form.text)
        around == IF match = 0 THEN 0 ELSE form.map[match] - 1
    IN  [match |-> match, around |-> around, reason |-> Reason(query, form.text),
         cut |-> Window(NFC(text), around, Radius)]

NoQuote == [match |-> 0, around |-> 0, reason |-> [says |-> Null, found |-> {}], cut |-> <<0, 0>>]

(* What a citation warns of.                                               *)
Caveats(profile, path) ==
    {"numbering"} \cup (IF profile.pagePrinted = Null THEN {"noPrintedPage"} ELSE {})
    \cup (IF profile.pagePart = Null THEN {"noPart"} ELSE {})
    \cup (IF case.verified THEN {} ELSE {"unverified"})
    \cup (IF path = <<>> THEN {"noContents"} ELSE {})

(* buildPassage, and the citation, which reads the text only if it is to   *)
(* be included. The text is read first, then the words of the headings.    *)
Build ==
    /\ InHits /\ Page \in case.pages
    /\ LET wanted == IF case.operation = "batch" \/ case.text THEN {Page} ELSE {}
           ids == TrailIds(reader.toc, Page)
       IN  \E textOk \in Outcomes(source.pages, wanted), titlesOk \in Outcomes(source.titles, ids) :
             LET pages == Looked(source.pages, wanted, case.held, textOk)
                 titles == Looked(source.titles, ids, case.titles, titlesOk)
                 toc == Filled(reader.toc, Trail(reader.toc, Page), titles)
                 path == Path(toc, Trail(toc, Page))
                 text == TextOf(pages)
             IN  /\ source' = [pages |-> pages, titles |-> titles]
                 /\ reader' = [reader EXCEPT !.toc = toc]
                 /\ asked' = Append(asked, Need(source.titles, ids))
                 /\ out' = Append(out,
                      [page |-> Page, path |-> path,
                       lost |-> ~titlesOk,
                       text |-> text,
                       caveats |-> Caveats(reader.profile, path),
                       quote |-> IF case.operation = "batch"
                                 THEN Quote(Query(case.query, case.mode), text) ELSE NoQuote])
    /\ hit' = hit + 1
    /\ UNCHANGED <<case, pc, warm>>

Finish ==
    /\ pc = "hits" /\ hit > Len(case.hits)
    /\ pc' = "over"
    /\ UNCHANGED <<case, reader, source, hit, asked, warm, out>>

Next ==
    \/ WarmPages \/ Open \/ OpenFails \/ WarmTitles
    \/ Skip \/ Build \/ Finish

Spec == Init /\ [][Next]_vars

-----------------------------------------------------------------------------
(* Types. What is cached is held by the index, what is remembered as       *)
(* missing is not, and passages are of hits in their order.                *)
TypeOK ==
    /\ pc \in {"pages", "open", "titles", "hits", "over"}
    /\ source.pages.known \subseteq case.held
    /\ source.titles.known \subseteq case.titles
    /\ source.pages.missing \cap case.held = {}
    /\ source.titles.missing \cap case.titles = {}
    /\ hit \in 1..(Len(case.hits) + 1)
    /\ warm \in BOOLEAN
    /\ [n \in DOMAIN out |-> out[n].page]
          = Only(SubSeq(case.hits, 1, hit - 1), case.pages)

(* The path of a passage are the headings its page is under: those that    *)
(* begin on it or before, and after which no heading as high or higher has *)
(* begun, in their order. A heading is left out only if nobody has words   *)
(* for it, or if the request for this passage's headings failed, whatever  *)
(* the passages before it were told; and no request asks again for what    *)
(* was answered, so none follows a warming that succeeded (bookRepo.ts     *)
(* 190-252, luceneText.ts 83-168, passage.ts 111-123).                     *)
Under(toc, page) ==
    LET before == {n \in DOMAIN toc : toc[n].page <= page}
    IN  {n \in before : \A k \in before : k > n => toc[n].level < toc[k].level}
HasWords(heading) == heading.words \/ heading.id \in case.titles

PathByRule ==
    /\ \A n \in DOMAIN out :
         LET path == out[n].path
             whole == {k \in Under(reader.toc, out[n].page) : HasWords(reader.toc[k])}
         IN  /\ ToSet(path) \subseteq whole
             /\ ~out[n].lost => ToSet(path) = whole
             /\ \A k, l \in DOMAIN path : k < l => path[k] < path[l]
    /\ warm => \A n \in DOMAIN asked : n > 1 => asked[n] = {}

(* The forms of a text keep its words. Plain text has the words of its     *)
(* mark-up, a block between two of them parting them and an inline tag     *)
(* not; the normal form that a match is looked for in is the one queries   *)
(* are put in; each of its characters stands for the one at its place in   *)
(* the composed text, with nothing but marks and blanks passed over; and   *)
(* normalising it again changes nothing, unless the text has a combining   *)
(* mark that is not stripped (html.ts 45-49; normalize.ts 86-89, 126-151). *)
Words(text) == RunsInOrder(text, WordChars)

FormsAgree ==
    \A n \in DOMAIN out :
        LET text == out[n].text
            src == NFC(text)
            form == NormalisedWithMap(text)
            places == ToSet(form.map)
        IN  text # <<>> =>
            /\ Words(text) = Words(Without(case.body, {"inline"}))
            /\ form.text = Normalised(text)
            /\ "acute" \notin ToSet(src) => Normalised(form.text) = form.text
            /\ \A k \in DOMAIN form.text :
                  form.text[k] \in {"space", Folded(src[form.map[k]])}
            /\ \A p \in (DOMAIN src) \ places : src[p] \in White \cup Stripped

(* An excerpt is whole words of the page and has the word that matched,    *)
(* however long the words and wherever in the text the match; and a term   *)
(* that is a word of the page is never counted as not found (html.ts       *)
(* 66-70, passage.ts 179-185, query.ts 79-108, normalize.ts 103-110).      *)
QuoteWhole ==
    case.operation = "batch" =>
    \A n \in DOMAIN out :
        LET quote == out[n].quote
            src == NFC(out[n].text)
            from == quote.cut[1]
            to == quote.cut[2]
            word == {r \in Runs(src, Letters \cup Stripped) :
                        r[1] <= quote.around + 1 /\ quote.around + 1 <= r[2]}
        IN  /\ from = 0 \/ src[from] \in White
            /\ to = Len(src) \/ src[to + 1] \in White
            /\ from <= to
            /\ \A r \in word : from < r[1] /\ r[2] <= to
            /\ ToSet(Query(case.query, case.mode).terms) \cap ToSet(Tokenize(Normalised(out[n].text)))
                  \subseteq quote.reason.found
=============================================================================

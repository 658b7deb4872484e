------------------------------- MODULE Schema --------------------------------
(***************************************************************************)
(* Which tables and columns of a database the server reads. The schema is  *)
(* never assumed: schemaProbe.ts scores every table against lists of       *)
(* column names, and masterRepo.ts joins what was found.                   *)
(*                                                                         *)
(* A table is a name with the set of its column names, in lower case, and  *)
(* a database the sequence of its tables in the order of their names.      *)
(***************************************************************************)
EXTENDS Integers, Sequences, FiniteSets, SequencesExt

Null == "null"

(* The names of the column of each role, most specific first.              *)
Aliases ==
    [bookId |-> <<"book_id", "bkid", "bookid", "bid", "id">>,
     bookTitle |-> <<"book_name", "bk", "title", "bookname", "name", "tit">>,
     bookAuthorRef |-> <<"main_author", "author_id", "authno", "auth_id", "authid">>,
     authorPk |-> <<"author_id", "authno", "auth_id", "authid", "id">>,
     authorName |-> <<"author_name", "auth", "author", "authname">>,
     bookCategoryRef |->
        <<"book_category", "category_id", "cat_id", "catid", "cat", "category">>,
     categoryPk |-> <<"category_id", "cat_id", "catid", "id">>,
     categoryName |-> <<"category_name", "cat_name", "catname", "name", "title">>,
     pageId |-> <<"id", "pageid", "page_id", "pgid">>,
     pageText |-> <<"nass", "text", "content", "body", "matn", "nas">>,
     pagePart |-> <<"part", "juz", "vol", "volume", "jozz">>,
     pagePrinted |-> <<"page", "pg", "printed_page", "safha", "sfha">>,
     titleId |-> <<"id", "title_id", "tid">>,
     titleRef |-> <<"page", "page_id", "pageid">>,
     titleText |-> <<"tit", "title", "name", "heading">>,
     titleLevel |-> <<"lvl", "level", "depth", "sub">>]

BookNames == {"book", "books"}
CategoryNames == {"cat", "cats", "categories", "category"}
AuthorNames == {"auth", "authors", "author"}
PageNames == {"page", "pages", "book", "content"}
TitleNames == {"title", "titles", "toc", "fahras"}

(* The first of a sequence that is one of these.                           *)
First(seq, these, default) ==
    Append(seq, default)[Min({n \in DOMAIN seq : seq[n] \in these} \cup {Len(seq) + 1})]

(* The column of a role, and the one that no other role has taken.         *)
Pick(columns, role) == First(Aliases[role], columns, Null)
PickExcluding(columns, role, taken) == Pick(columns \ taken, role)

Has(table, role) == Pick(table.columns, role) # Null
Points(holds, points) == IF holds THEN points ELSE 0

NoTable == [name |-> Null, columns |-> {}]

(* The first of the best: sort() keeps equal scores in order.              *)
Best(tables, Candidate(_), Score(_)) ==
    LET fit == {n \in DOMAIN tables : Candidate(tables[n])}
        best == {n \in fit : \A k \in fit : Score(tables[k]) <= Score(tables[n])}
    IN  IF fit = {} THEN NoTable ELSE tables[Min(best)]

(* A table by its name, or else the first that would do.                   *)
Named(tables, names, Otherwise(_)) ==
    First(tables, {t \in ToSet(tables) : t.name \in names},
          First(tables, {t \in ToSet(tables) : Otherwise(t)}, NoTable))

-----------------------------------------------------------------------------
(* master.db.                                                               *)
IsBooks(table) ==
    LET id == Pick(table.columns, "bookId")
    IN  id # Null /\ PickExcluding(table.columns, "bookTitle", {id}) # Null

BooksScore(table) ==
    Points(table.name \in BookNames, 10) + Points(Has(table, "bookCategoryRef"), 3)
    + Points(Has(table, "authorName") \/ Has(table, "bookAuthorRef"), 3)
    + Points(Cardinality(table.columns) >= 4, 1)

BooksTable(tables) == Best(tables, IsBooks, BooksScore)
Recognised(tables) == BooksTable(tables) # NoTable

CategoriesTable(tables) ==
    LET books == BooksTable(tables)
    IN  Named(tables, CategoryNames,
              LAMBDA t : t # books /\ Has(t, "categoryName") /\ Cardinality(t.columns) <= 4)

AuthorsTable(tables) == Named(tables, AuthorNames, LAMBDA t : FALSE)

(* Mutant: a table of categories that cannot be read goes unmentioned. *)
NotesOfMissing(profile, candidates) ==
    (IF candidates > 1 THEN {"several"} ELSE {})
    \cup (IF profile.categoriesTable = Null THEN {"noCategories"} ELSE {})
    \cup (IF profile.bookCategoryId = Null THEN {"noCategoryColumn"} ELSE {})

(* What remains unsaid is found out by nobody: a column that is not found  *)
(* does not fail, it leaves every book without a school.                   *)
MasterNotes(profile, candidates) ==
    (IF candidates > 1 THEN {"several"} ELSE {})
    \cup (IF profile.categoriesTable = Null THEN {"noCategories"}
          ELSE IF Null \in {profile.categoryId, profile.categoryName}
               THEN {"categoriesUnread"} ELSE {})
    \cup (IF profile.bookCategoryId = Null THEN {"noCategoryColumn"} ELSE {})

(* The profile of a master.db that is Recognised; another is an error.     *)
ProbeMaster(tables) ==
    LET best == BooksTable(tables)
        id == Pick(best.columns, "bookId")
        title == PickExcluding(best.columns, "bookTitle", {id})
        ref == PickExcluding(best.columns, "bookAuthorRef", {id, title})
        author == PickExcluding(best.columns, "authorName", {id, title, ref})
        cats == CategoriesTable(tables)
        catId == Pick(cats.columns, "categoryPk")
        auths == AuthorsTable(tables)
        authId == Pick(auths.columns, "authorPk")
    IN  [booksTable |-> best.name, bookId |-> id, bookTitle |-> title,
         bookAuthorId |-> ref, bookAuthorName |-> author,
         bookCategoryId |->
            PickExcluding(best.columns, "bookCategoryRef", {id, title, ref, author}),
         categoriesTable |-> cats.name, categoryId |-> catId,
         categoryName |-> PickExcluding(cats.columns, "categoryName", {catId}),
         authorsTable |-> auths.name, authorId |-> authId,
         authorName |-> PickExcluding(auths.columns, "authorName", {authId})]

Candidates(tables) == Cardinality({n \in DOMAIN tables : IsBooks(tables[n])})

(* Whether books() can give a book its category from such a profile.        *)
JoinsCategories(profile) ==
    Null \notin {profile.categoriesTable, profile.categoryId, profile.categoryName,
                profile.bookCategoryId}

-----------------------------------------------------------------------------
(* The database of a book. The text column is optional: on Shamela 4 the   *)
(* text of pages and headings is in the index.                             *)
IsPages(table) == Has(table, "pageId")

PagesScore(table) ==
    LET id == Pick(table.columns, "pageId")
        text == PickExcluding(table.columns, "pageText", {id})
        Found(role) == PickExcluding(table.columns, role, {id, text}) # Null
    IN  Points(table.name \in PageNames, 10) + Points(text # Null, 4)
        + Points(Found("pagePart"), 2) + Points(Found("pagePrinted"), 2)

PagesTable(tables) == Best(tables, IsPages, PagesScore)

(* A heading is told by titleId and begins on titlePageRef.                *)
ProbeBook(tables) ==
    LET best == PagesTable(tables)
        id == Pick(best.columns, "pageId")
        text == PickExcluding(best.columns, "pageText", {id})
        part == PickExcluding(best.columns, "pagePart", {id, text})
        titles == Named(tables, TitleNames, LAMBDA t : t # best /\ Has(t, "titleText"))
        titleId == Pick(titles.columns, "titleId")
        page == Pick(titles.columns, "titleRef")
        ref == IF page # Null THEN page ELSE titleId
        words == PickExcluding(titles.columns, "titleText", {ref})
    IN  [pagesTable |-> best.name, pageId |-> id, pageText |-> text, pagePart |-> part,
         pagePrinted |-> PickExcluding(best.columns, "pagePrinted", {id, text, part}),
         titlesTable |-> titles.name, titleId |-> titleId, titlePageRef |-> ref,
         titleText |-> words,
         titleLevel |-> PickExcluding(titles.columns, "titleLevel", {ref, words})]
==============================================================================

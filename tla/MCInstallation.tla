--------------------------- MODULE MCInstallation ----------------------------
(* A library that is moved, half of it missing, with one Java or another,  *)
(* and a folder that only looks like a library.                            *)
EXTENDS Installation

CONSTANTS old, new, system, jdk  \* two roots, two paths a user may name

Table(name, columns) == [name |-> name, columns |-> columns]

Books(columns) == Table("book", {"book_id", "book_name"} \cup columns)

(* A schema as it should be, one whose key of categories has another name, *)
(* an older one with a table of its own name, one of a single table that   *)
(* has its column of categories and one that has not, and none.            *)
MCLayouts ==
    [good |-> <<Table("author", {"author_id", "author_name"}),
                Books({"book_category", "main_author", "major_ondisk"}),
                Table("category", {"category_id", "category_name"}),
                Table("title", {"id", "title", "page", "parent"})>>,
     keyless |-> <<Books({"book_category", "author"}), Table("category", {"number", "name"})>>,
     plain |-> <<Table("abook", {"bkid", "bk", "cat", "authno"}),
                 Table("books", {"id", "title"}),
                 Table("sections", {"catid", "catname"})>>,
     single |-> <<Books({"book_category", "author"})>>,
     alone |-> <<Table("book", {"id", "name"})>>,
     strange |-> <<Table("main", {"number", "words"})>>]

Site(kind, database, app, master, bundled, jars, page) ==
    [kind |-> kind, database |-> database, app |-> app, master |-> master,
     bundled |-> bundled, jars |-> jars, page |-> page]
Gone == Site("none", FALSE, FALSE, NoMaster, FALSE, FALSE, FALSE)
Whole(layout) == Site("folder", TRUE, TRUE, layout, TRUE, TRUE, TRUE)

Machine(dir, java, kind, atOld, atNew, helper) ==
    [dir |-> dir, java |-> java, files |-> (system :> kind) @@ (jdk :> "folder"),
     at |-> (old :> atOld) @@ (new :> atNew), helper |-> helper]

(* Found by searching, without a helper; moved, with a Java of the user's  *)
(* that is gone and none of its own; named, with a folder for a Java and a *)
(* schema that says little; named wrongly with the other still there; a    *)
(* folder of another kind, where the setting never arrived; and a single   *)
(* table.                                                                  *)
MCMachines ==
    <<Machine("empty", "unset", "none", Whole("good"), Whole("plain"), FALSE),
      Machine("unset", system, "none", Gone,
              Site("folder", TRUE, TRUE, "alone", FALSE, TRUE, TRUE), TRUE),
      Machine(new, jdk, "file", Whole("good"), Whole("keyless"), TRUE),
      Machine(old, system, "file",
              Site("folder", TRUE, FALSE, "good", FALSE, FALSE, TRUE), Whole("good"), TRUE),
      Machine("unresolved_placeholder", system, "file", Whole("plain"), Whole("strange"), TRUE),
      Machine("empty", "unset", "none",
              Site("folder", FALSE, FALSE, NoMaster, FALSE, FALSE, FALSE), Whole("strange"), TRUE),
      Machine("unset", "unset", "none", Whole("single"), Gone, TRUE)>>

MCSearchRoots == <<old, new>>

Symmetry == Permutations(Calls)
==============================================================================

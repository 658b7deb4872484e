------------------------------ MODULE MCLibrary ------------------------------
(* Five numbered books under five editions of the disk, rules of both       *)
(* strengths that agree and disagree, two or three schools compared.        *)
EXTENDS Library

CONSTANTS hanafi, shafii, comparative,  \* names of categories
          of_hanafi, of_both, of_shafii, fiqh  \* patterns

MCCore == {"hanafi", "shafii"}

Rule(school, equals, patterns, reviewed) ==
    [school |-> school, equals |-> equals, patterns |-> patterns, reviewed |-> reviewed]

(* A partial rule of each school, and an exact one that outranks them. *)
MCRules == <<Rule("hanafi", FALSE, {of_hanafi, of_both}, TRUE),
             Rule("shafii", FALSE, {of_shafii, of_both}, FALSE),
             Rule("shafii", TRUE, {shafii}, TRUE),
             Rule("comparative", TRUE, {comparative}, TRUE)>>

MCParts == [c \in {hanafi, shafii, comparative, fiqh} |->
    CASE c = hanafi -> {of_hanafi}
      [] c = shafii -> {of_hanafi, of_shafii}
      [] c = comparative -> {of_both}
      [] c = fiqh -> {of_hanafi, of_shafii}]

Row(category, title, author, file, ondisk) ==
    [category |-> category, title |-> title, author |-> author, file |-> file, ondisk |-> ondisk]

First == (1 :> Row(hanafi, {"hanafi"}, {"shafii"}, TRUE, TRUE)) @@
         (2 :> Row(shafii, {}, {}, TRUE, TRUE)) @@
         (3 :> Row(fiqh, {"hanafi", "shafii"}, {}, TRUE, TRUE)) @@
         (4 :> Row(comparative, {}, {}, TRUE, FALSE))
(* Book 4 has been downloaded, and a book without category came. *)
Later == [First EXCEPT ![4].ondisk = TRUE] @@ (5 :> Row(NoCategory, {"shafii"}, {}, TRUE, TRUE))

Over(schools, include, exclude) ==
    [schools |-> schools, include |-> include, exclude |-> exclude]

MCEditions ==
    <<[master |-> First, overrides |-> Over(<<>>, {}, {})],
      [master |-> First, overrides |-> Unreadable],
      [master |-> Later, overrides |-> Over((3 :> "shafii"), {4}, {5})],
      [master |-> Unreadable, overrides |-> Over((3 :> "hanafi"), {}, {2})],
      [master |-> Later, overrides |-> Over((3 :> "hanafi"), {}, {2})]>>

(* All books two by two, and the doubtful ones of one school one by one. *)
MCFilters ==
    {[schools |-> {}, downloaded |-> FALSE, statuses |-> {}, doubtful |-> FALSE, limit |-> 2],
     [schools |-> {"shafii", "hanafi"}, downloaded |-> TRUE, statuses |-> {"needs_review"},
      doubtful |-> TRUE, limit |-> 1]}

Ask(schools, ids, neighbors, room) ==
    [schools |-> schools, ids |-> ids, neighbors |-> neighbors, room |-> room]

MCRequests ==
    {Ask(<<"comparative", "shafii", "hanafi">>, {}, 0, 9), Ask(<<"hanafi", "shafii">>, {}, 1, 12),
     Ask(<<"hanafi", "shafii">>, {}, 1, 4), Ask(<<"shafii">>, {1, 2, 4}, 1, 9),
     Ask(<<"hanafi", "hanafi">>, {}, 0, 9)}

MCMatching == {1, 2, 4}
=============================================================================

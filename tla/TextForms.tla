----------------------------- MODULE TextForms -------------------------------
(***************************************************************************)
(* The forms a text takes on its way from the index to the reader: from    *)
(* Shamela's light HTML to plain text (html.ts), from there to the folded  *)
(* form that queries are compared in (normalize.ts), the place of a match  *)
(* in it (query.ts), and back to an excerpt of what the book prints.       *)
(*                                                                         *)
(* A text is a sequence of characters, one of each kind the code tells     *)
(* apart: letters that stay and that are folded, marks that are stripped   *)
(* and a foreign one that is kept, white space of three kinds, a sign that *)
(* ends a word. "zw" stands for the zero-width controls and the tatweel,   *)
(* "hamza" and "acute" are combining and join a letter before them. Left   *)
(* out is U+FEFF, which normalize.ts strips as a zero-width control though *)
(* /\s/ of html.ts takes it for white space: an excerpt can be cut at one, *)
(* inside a word.                                                          *)
(***************************************************************************)
EXTENDS Integers, Sequences, FiniteSets, SequencesExt, Orders

Letters == {"alef", "alefHamza", "beh", "noon", "e", "eAcute"}
White == {"space", "newline", "nbsp"}
Stripped == {"zw", "harakah", "hamza"}
Tags == {"block", "inline"}
WordChars == Letters \cup Stripped \cup {"acute", "comma"}
Chars == WordChars \cup White \cup Tags

(* A text less what is of a kind.                                          *)
Without(text, kind) ==
    FoldLeft(LAMBDA rest, c : IF c \in kind THEN rest ELSE Append(rest, c), <<>>, text)

(* FOLD_MAP.                                                               *)
Folded(char) == IF char = "alefHamza" THEN "alef" ELSE char

-----------------------------------------------------------------------------
(* htmlToText: a block tag ends a line, another tag vanishes.               *)
Gap(char) == char \in {"space", "nbsp"}

Untagged(raw) ==
    Without([n \in DOMAIN raw |-> IF raw[n] = "block" THEN "newline" ELSE raw[n]], {"inline"})

(* Runs of blanks become one, none of them next to a newline, and no more  *)
(* than two newlines in a row.                                             *)
Spaced(out, char) ==
    LET last == IF out = <<>> THEN "newline" ELSE Last(out)
        before == IF Len(out) < 2 THEN "newline" ELSE out[Len(out) - 1]
    IN  CASE Gap(char) -> IF last \in {"space", "newline"} THEN out ELSE Append(out, "space")
          [] char = "newline" /\ last = "space" -> Append(Front(out), "newline")
          [] char = "newline" /\ last = "newline" ->
                IF before = "newline" THEN out ELSE Append(out, "newline")
          [] OTHER -> Append(out, char)

TrimmedEnd(text) ==
    SubSeq(text, 1, SelectLastInSeq(text, LAMBDA c : c \notin White))

HtmlToText(raw) == TrimmedEnd(FoldLeft(Spaced, <<>>, Untagged(raw)))

-----------------------------------------------------------------------------
(* NFC: a combining mark joins its letter, over marks of a lower class.     *)
Pairs == {<<"alef", "hamza">>, <<"e", "acute">>}
Composed(pair) == IF pair[1] = "alef" THEN "alefHamza" ELSE "eAcute"

Joined(out, char) ==
    LET base == SelectLastInSeq(out, LAMBDA c : c # "harakah")
    IN  IF base # 0 /\ <<out[base], char>> \in Pairs
        THEN [out EXCEPT ![base] = Composed(<<@, char>>)]
        ELSE Append(out, char)

NFC(text) == FoldLeft(Joined, <<>>, text)

Collapsed(out, char) ==
    IF char \notin White THEN Append(out, char)
    ELSE IF out = <<>> \/ Last(out) = "space" THEN out ELSE Append(out, "space")

(* normalizeArabic.                                                         *)
Normalised(text) ==
    LET kept == Without(NFC(text), Stripped)
        folded == [n \in DOMAIN kept |-> Folded(kept[n])]
    IN  TrimmedEnd(FoldLeft(Collapsed, <<>>, folded))

(* Mutant: a space waits before the first word too. *)
MappedLeading(src, done, n) ==
    CASE src[n] \in Stripped -> done
      [] src[n] \in White -> [done EXCEPT !.pending = TRUE]
      [] OTHER ->
            LET space == IF done.pending THEN <<"space">> ELSE <<>>
            IN  [text |-> done.text \o Append(space, Folded(src[n])),
                 map |-> done.map \o [k \in 1..(Len(space) + 1) |-> n],
                 pending |-> FALSE]

(* One step of normalizeArabicWithMap over the composed text: a space is   *)
(* written with the character that follows it, at its place.               *)
Mapped(src, done, n) ==
    CASE src[n] \in Stripped -> done
      [] src[n] \in White -> [done EXCEPT !.pending = done.text # <<>>]
      [] OTHER ->
            LET space == IF done.pending THEN <<"space">> ELSE <<>>
            IN  [text |-> done.text \o Append(space, Folded(src[n])),
                 map |-> done.map \o [k \in 1..(Len(space) + 1) |-> n],
                 pending |-> FALSE]

NormalisedWithMap(text) ==
    LET src == NFC(text)
    IN  FoldLeftDomain(LAMBDA done, n : Mapped(src, done, n),
                       [text |-> <<>>, map |-> <<>>, pending |-> FALSE], src)

-----------------------------------------------------------------------------
(* Words.                                                                   *)
FoldToken(token) ==
    IF token = <<"alef", "beh", "noon">> THEN <<"beh", "noon">> ELSE token

(* The runs of characters of a kind, as first and last places.             *)
Runs(text, kind) ==
    {r \in (DOMAIN text) \X (DOMAIN text) :
        /\ r[1] <= r[2] /\ \A n \in r[1]..r[2] : text[n] \in kind
        /\ r[1] = 1 \/ text[r[1] - 1] \notin kind
        /\ r[2] = Len(text) \/ text[r[2] + 1] \notin kind}
ByStart(text) ==
    LET places == (DOMAIN text) \X (DOMAIN text) IN {p \in places \X places : p[1][1] < p[2][1]}
RunsInOrder(text, kind) ==
    LET runs == Ordered(ByStart(text), Runs(text, kind))
    IN  [n \in DOMAIN runs |-> SubSeq(text, runs[n][1], runs[n][2])]

(* tokenize: whatever stands between two runs of letters.                  *)
Tokenize(text) ==
    LET words == RunsInOrder(text, Letters) IN [n \in DOMAIN words |-> FoldToken(words[n])]

(* parseQuery; a query without a word is refused.                          *)
Query(raw, mode) == [mode |-> mode, terms |-> Tokenize(Normalised(raw))]

(* indexOf, from 1; 0 if the words are nowhere.                            *)
At(text, words) ==
    SelectInSeq([n \in DOMAIN text |-> n],
                LAMBDA n : /\ n + Len(words) - 1 <= Len(text)
                           /\ SubSeq(text, n, n + Len(words) - 1) = words)

(* A phrase is looked for as its terms with a space between them.          *)
Phrase(terms) ==
    FoldLeft(LAMBDA out, t : IF out = <<>> THEN t ELSE Append(out, "space") \o t, <<>>, terms)

TermsIn(query, text) == {t \in ToSet(query.terms) : At(text, t) # 0}

(* firstMatchOffset.                                                        *)
FirstMatch(query, text) ==
    LET phrase == IF query.mode = "phrase" THEN At(text, Phrase(query.terms)) ELSE 0
        places == {At(text, t) : t \in TermsIn(query, text)}
    IN  CASE phrase # 0 -> phrase
          [] phrase = 0 /\ places # {} -> CHOOSE n \in places : \A k \in places : n <= k
          [] OTHER -> 0

(* matchReason.                                                             *)
Reason(query, text) ==
    [says |-> CASE query.mode = "phrase" ->
                    IF At(text, Phrase(query.terms)) # 0 THEN "in order" ELSE "not confirmed"
                [] query.mode = "all_terms" -> "all"
                [] OTHER -> IF TermsIn(query, text) = ToSet(query.terms) THEN "all" ELSE "some",
     found |-> TermsIn(query, text)]

(* Mutant: cut where the radius ends. *)
WindowSharp(text, around, radius) ==
    <<IF around > radius THEN around - radius ELSE 0,
      IF around + radius < Len(text) THEN around + radius ELSE Len(text)>>

(* excerpt: how many characters are before it, and where it ends; a text   *)
(* that is short enough is not cut. `around` counts from 0, as in the code.*)
Window(text, around, radius) ==
    LET start == IF around > radius THEN around - radius ELSE 0
        end == IF around + radius < Len(text) THEN around + radius ELSE Len(text)
        starts == {n \in 0..start : n = 0 \/ text[n] \in White}
        ends == {n \in end..Len(text) : n = Len(text) \/ text[n + 1] \in White}
    IN  IF Len(text) <= 2 * radius THEN <<0, Len(text)>>
        ELSE <<CHOOSE n \in starts : \A k \in starts : k <= n,
               CHOOSE n \in ends : \A k \in ends : n <= k>>
==============================================================================

---------------------------- MODULE StatementText ----------------------------
(***************************************************************************)
(* A statement before the parser sees it: the console cuts its input into  *)
(* statements (shell.rs), and the planner lifts out of the text what the   *)
(* parser does not know, ASOF joins, AS OF cuts and ORDERING KEY (plan.rs).*)
(*                                                                         *)
(* A text is a sequence of atoms: a word, or one character that is none.   *)
(* Two words are never neighbours, and letter case is left out.            *)
(***************************************************************************)
EXTENDS QueryExecution

Newline == "newline"
Blanks == {" ", Newline}
Quotes == {"'", "\""}
Marks == {"(", ")", ",", ";"}
Signs == {"-", "/", "*"}

\* Words that parse as u64.
Cuts == {"5", "7"}

IsWord(atom) == atom \notin Blanks \union Quotes \union Marks \union Signs

\* Two characters in a row, from i.
Opens(text, i, first, second) ==
    i < Len(text) /\ text[i] = first /\ text[i + 1] = second

\* The first position from i on that is one of these, or the end.
Upto(text, i, atoms) == Min({j \in i..Len(text) : text[j] \in atoms} \union {Len(text) + 1})

----------------------------------------------------------------------------
\* tokenize_with_spans.

AfterLine(text, i) == Upto(text, i, {Newline}) + 1

\* mutant: closed by the opening's own star
AfterBlockEarly(text, i) ==
    Min({j \in (i + 2)..Len(text) : text[j - 1] = "*" /\ text[j] = "/"} \union {Len(text)}) + 1

\* A block comment ends at the first star and slash behind its opening.
AfterBlock(text, i) ==
    Min({j \in (i + 3)..Len(text) : text[j - 1] = "*" /\ text[j] = "/"} \union {Len(text)}) + 1

\* A quoted run; in single quotes a doubled quote goes on.
RECURSIVE AfterQuote(_, _, _)
AfterQuote(text, i, quote) ==
    LET close == Upto(text, i, {quote}) IN
    IF close > Len(text) THEN close
    ELSE IF quote = "'" /\ Opens(text, close, "'", "'") THEN AfterQuote(text, close + 2, quote)
    ELSE close + 1

\* The spans of the tokens from i on, the end of a span exclusive.
RECURSIVE Tokens(_, _)
Tokens(text, i) ==
    IF i > Len(text) THEN << >>
    ELSE IF text[i] \in Blanks THEN Tokens(text, i + 1)
    ELSE IF Opens(text, i, "-", "-") THEN Tokens(text, AfterLine(text, i))
    ELSE IF Opens(text, i, "/", "*") THEN Tokens(text, AfterBlock(text, i))
    ELSE LET end == IF text[i] \in Quotes THEN AfterQuote(text, i + 1, text[i])
                    ELSE IF text[i] \in Marks THEN i + 1
                    ELSE Upto(text, i + 1, Blanks \union Quotes \union Marks)
         IN  <<[from |-> i, to |-> end]>> \o Tokens(text, end)

\* The k-th token is this word.
Token(text, spans, k, word) ==
    k \in DOMAIN spans /\ SubSeq(text, spans[k].from, spans[k].to - 1) = <<word>>

IsCut(text, spans, k) == \E n \in Cuts : Token(text, spans, k, n)

Spliced(text, first, last) ==
    SubSeq(text, 1, first.from - 1) \o SubSeq(text, last.to, Len(text))

\* A lift yields at most one text; none is a refusal.
Lifted(text, asof, cut) == [text |-> text, asof |-> asof, cut |-> cut]

\* extract_asof_join: ASOF goes, the join behind it stays.
ExtractAsofJoin(text) ==
    LET spans == Tokens(text, 1)
        Is(k, word) == Token(text, spans, k, word)
        asof == {k \in DOMAIN spans : Is(k, "asof")}
        joins == {k \in asof : (Is(k + 1, "left") \/ Is(k + 1, "inner")) /\ Is(k + 2, "join")}
    IN  IF (\E k \in asof : Is(k + 1, "join")) \/ Cardinality(joins) > 1 THEN {}
        ELSE IF joins = {} THEN {Lifted(text, FALSE, Null)}
        ELSE {Lifted(Spliced(text, spans[k], spans[k]), TRUE, Null) : k \in joins}

\* extract_as_of: both spellings of the cut; AS OF n alone is refused.
ExtractAsOf(lifted) ==
    LET text == lifted.text
        spans == Tokens(text, 1)
        Is(k, word) == Token(text, spans, k, word)
        Cut(k) == text[spans[k].from]
        standard == {k \in DOMAIN spans : Is(k, "for") /\ Is(k + 1, "system_time") /\ Is(k + 2, "as")
                                          /\ Is(k + 3, "of") /\ k + 4 \in DOMAIN spans}
        short == {k \in DOMAIN spans : Is(k, "asof") /\ ~Is(k + 1, "join")}
        clauses == {<<k, k + 4>> : k \in standard} \union {<<k, k + 1>> : k \in short}
        nearMiss == {k \in DOMAIN spans : Is(k, "as") /\ Is(k + 1, "of") /\ IsCut(text, spans, k + 2)
                                          /\ ~Is(k - 1, "system_time")}
    IN  IF \/ nearMiss # {} \/ Cardinality(clauses) > 1
           \/ \E c \in clauses : ~IsCut(text, spans, c[2])
        THEN {}
        ELSE IF clauses = {} THEN {lifted}
        ELSE {Lifted(Spliced(text, spans[c[1]], spans[c[2]]), lifted.asof, Cut(c[2])) : c \in clauses}

\* is_create_table.
IsCreateTable(text) ==
    LET spans == Tokens(text, 1)
    IN  Token(text, spans, 1, "create") /\ Token(text, spans, 2, "table")

\* The phrase's second word, if the phrase stands at i and not at the head
\* of a column's definition; 0 otherwise.
PhraseEnd(text, i, first, second) ==
    LET end == Min({j \in (i + 1)..Len(text) : text[j] \notin Blanks} \union {Len(text) + 1})
        before == {j \in 1..(i - 1) : text[j] \notin Blanks}
    IN  IF /\ text[i] = first /\ end \in (i + 2)..Len(text) /\ text[end] = second
           /\ before # {} /\ text[Max(before)] \notin {"(", ","}
        THEN end ELSE 0

\* rewrite_ordering_key, from i on, inside the quote that is open there.
RECURSIVE RewriteFrom(_, _, _)
RewriteFrom(text, i, quote) ==
    LET Keeping(inside) == {<<text[i]>> \o rest : rest \in RewriteFrom(text, i + 1, inside)} IN
    IF i > Len(text) THEN {<< >>}
    ELSE IF quote # Null THEN Keeping(IF text[i] = quote THEN Null ELSE quote)
    ELSE IF text[i] \in Quotes THEN Keeping(text[i])
    ELSE IF PhraseEnd(text, i, "primary", "key") # 0 THEN {}
    ELSE IF PhraseEnd(text, i, "ordering", "key") # 0
         THEN {<<"primary", " ", "key">> \o rest :
                  rest \in RewriteFrom(text, PhraseEnd(text, i, "ordering", "key") + 1, Null)}
    ELSE Keeping(Null)

RewriteOrderingKey(text) == RewriteFrom(text, 1, Null)

\* What parse_statement hands the parser; the cut is refused for anything
\* but a SELECT.
Lift(text) ==
    UNION {IF ~IsCreateTable(lifted.text) THEN {lifted}
           ELSE IF lifted.cut # Null THEN {}
           ELSE {[lifted EXCEPT !.text = rewritten] : rewritten \in RewriteOrderingKey(lifted.text)} :
               lifted \in UNION {ExtractAsOf(joined) : joined \in ExtractAsofJoin(text)}}

----------------------------------------------------------------------------
\* split_statements.

Trimmed(text) ==
    LET ink == {i \in DOMAIN text : text[i] \notin Blanks}
    IN  IF ink = {} THEN << >> ELSE SubSeq(text, Min(ink), Max(ink))

SplitStart == [done |-> << >>, current |-> << >>, quote |-> Null, comment |-> FALSE]

\* mutant: an apostrophe in a comment opens a quote
CharacterQuoting(text, s, i) ==
    LET c == text[i]
        kept == [s EXCEPT !.current = Append(@, c)]
    IN  IF s.quote # Null THEN [kept EXCEPT !.quote = IF c = s.quote THEN Null ELSE s.quote]
        ELSE IF c \in Quotes THEN [kept EXCEPT !.quote = c]
        ELSE IF s.comment THEN [kept EXCEPT !.comment = c # Newline]
        ELSE IF Opens(text, i, "-", "-") THEN [kept EXCEPT !.comment = TRUE]
        ELSE IF c # ";" THEN kept
        ELSE [s EXCEPT !.current = << >>,
                       !.done = IF Trimmed(s.current) = << >> THEN @ ELSE Append(@, Trimmed(s.current))]

Character(text, s, i) ==
    LET c == text[i]
        kept == [s EXCEPT !.current = Append(@, c)]
    IN  IF s.comment THEN [kept EXCEPT !.comment = c # Newline]
        ELSE IF s.quote # Null THEN [kept EXCEPT !.quote = IF c = s.quote THEN Null ELSE s.quote]
        ELSE IF c \in Quotes THEN [kept EXCEPT !.quote = c]
        ELSE IF Opens(text, i, "-", "-") THEN [kept EXCEPT !.comment = TRUE]
        ELSE IF c # ";" THEN kept
        ELSE [s EXCEPT !.current = << >>,
                       !.done = IF Trimmed(s.current) = << >> THEN @ ELSE Append(@, Trimmed(s.current))]

SplitStatements(text) ==
    LET end == FoldLeft(LAMBDA s, i : Character(text, s, i), SplitStart, Positions(text))
    IN  [statements |-> end.done, rest |-> end.current]

\* only_comments, line by line.
OnlyComments(text) ==
    LET starts == {1} \union {i + 1 : i \in {j \in DOMAIN text : text[j] = Newline}}
        Line(i) == Trimmed(SubSeq(text, i, Upto(text, i, {Newline}) - 1))
    IN  \A i \in starts : Line(i) = << >> \/ Opens(Line(i), 1, "-", "-")

----------------------------------------------------------------------------
\* The two things done to a text.

TextLifted ==
    /\ phase = "text"
    /\ output' = Lift(plan.text)
    /\ phase' = "lifted"
    /\ UNCHANGED <<input, handles, views, sink, heap, at>>

TextSplit ==
    /\ phase = "text"
    /\ output' = SplitStatements(plan.text)
    /\ phase' = "split"
    /\ UNCHANGED <<input, handles, views, sink, heap, at>>

TextNext == TextLifted \/ TextSplit

----------------------------------------------------------------------------
\* What a reader of SQL sees: where each atom stands, a character at a time.

\* The region an atom belongs to; "opened" is the star of an opening.
Region(text) ==
    LET R[i \in 0..Len(text)] ==
          IF i = 0 THEN "code"
          ELSE LET before == R[i - 1]
                   c == text[i]
                   last == IF i = 1 THEN " " ELSE text[i - 1]
                   fresh == CASE Opens(text, i, "-", "-") -> "line"
                              [] Opens(text, i, "/", "*") -> "opening"
                              [] c \in Quotes -> c
                              [] OTHER -> "code"
               IN  CASE before = "code" -> fresh
                     [] before = "line" -> IF last = Newline THEN fresh ELSE "line"
                     [] before = "opening" -> "opened"
                     [] before \in {"opened", "block"} -> IF c = "/" /\ last = "*" /\ before = "block"
                                                          THEN "closing" ELSE "block"
                     [] before = "closing" -> fresh
                     [] before \in Quotes -> IF c = before THEN "end" \o before ELSE before
                     [] before = "end'" -> IF c = "'" THEN "'" ELSE fresh
                     [] before = "end\"" -> fresh
    IN  R

Comments == {"line", "opening", "opened", "block", "closing"}

\* The words and signs in force, and all that stands between quotes.
Legible(text) ==
    LET region == Region(text)
        seen == SelectSeq(Positions(text), LAMBDA i :
                    region[i] \notin Comments /\ (region[i] = "code" => text[i] \notin Blanks))
    IN  [k \in DOMAIN seen |->
            [atom |-> text[seen[k]], quoted |-> region[seen[k]] # "code"]]

Plain(word) == [atom |-> word, quoted |-> FALSE]

\* The positions in Legible where these words stand.
Phrases(seen, words) ==
    {k \in DOMAIN seen : k + Len(words) - 1 \in DOMAIN seen
                         /\ \A w \in DOMAIN words : seen[k + w - 1] = Plain(words[w])}

AsofJoins(seen) == Phrases(seen, <<"asof", "left", "join">>) \union Phrases(seen, <<"asof", "inner", "join">>)

CutClauses(seen) ==
    UNION {{<<k, k + 1, n>> : k \in Phrases(seen, <<"asof", n>>)}
           \union {<<k, k + 4, n>> : k \in Phrases(seen, <<"for", "system_time", "as", "of", n>>)} : n \in Cuts}

Without(seen, removed) ==
    LET kept == SelectSeq(Positions(seen), LAMBDA k : k \notin removed)
    IN  [k \in DOMAIN kept |-> seen[kept[k]]]

\* A word or a sign, and right behind it a comment, or a word behind a sign.
Hugged(text) ==
    LET region == Region(text)
        InCode(i) == region[i] = "code"
    IN  \E i \in 2..Len(text) :
            \/ /\ InCode(i - 1) /\ (IsWord(text[i - 1]) \/ text[i - 1] \in Signs)
               /\ region[i] \in {"line", "opening"}
            \/ InCode(i - 1) /\ text[i - 1] \in Signs /\ InCode(i) /\ IsWord(text[i])

\* A comment with a quote, a mark or a key in it, or behind a mark: the rewrite
\* knows no comments.
Misread(text) ==
    LET region == Region(text)
        Before(i) == Trimmed(SubSeq(text, 1, i - 1))
    IN  \E i \in DOMAIN text :
            /\ region[i] \in Comments
            /\ \/ text[i] \in Quotes \union Marks \union {"ordering", "primary", "key"}
               \/ Before(i) # << >> /\ Last(Before(i)) \in Marks

\* What is left when the clauses go, and ORDERING KEY carried as PRIMARY KEY.
Remaining(seen) ==
    LET joins == AsofJoins(seen)
        cuts == CutClauses(seen)
    IN  Without(seen, joins \union UNION {c[1]..c[2] : c \in cuts})

\* Two words that are not a column's name and type.
Options(seen, words) ==
    {k \in Phrases(seen, words) : k > 1 /\ seen[k - 1] \notin {Plain("("), Plain(",")}}

\* ORDERING KEY spelled as the parser knows it.
AsPrimary(seen) ==
    [k \in DOMAIN seen |-> IF k \in Options(seen, <<"ordering", "key">>) THEN Plain("primary") ELSE seen[k]]

\* Lifting takes the clause out of the text and nothing else: neither a clause
\* in a comment nor one in a string is taken, a comment's newline survives, and
\* what is refused names one of the words the lifts are about. (A comment or a
\* sign that touches a word is outside of this, and so is a definition's comment
\* with a quote, a mark or a key in it, or behind a mark.)
LiftsExact ==
    LET seen == Legible(plan.text)
        create == 1 \in Phrases(seen, <<"create", "table">>)
        Meant == IF create THEN AsPrimary(Remaining(seen)) ELSE Remaining(seen)
    IN  phase = "lifted" /\ ~Hugged(plan.text) /\ ~(create /\ Misread(plan.text)) =>
            /\ \A lifted \in output :
                   /\ Legible(lifted.text) = Meant
                   /\ lifted.asof = (AsofJoins(seen) # {})
                   /\ {lifted.cut} \ {Null} = {c[3] : c \in CutClauses(seen)}
                   /\ create => Options(seen, <<"primary", "key">>) = {}
            /\ output = {} =>
                   \E k \in DOMAIN seen :
                       \/ seen[k] \in {Plain("asof"), Plain("as"), Plain("system_time")}
                       \/ create /\ seen[k] = Plain("primary")

\* Each statement the console runs on its own reads as it does in its place in
\* the input, and what is left over is dropped only if nothing in it is meant.
\* (The console knows no block comments.)
SplitsExact ==
    phase = "split" /\ (\A i \in DOMAIN plan.text : Region(plan.text)[i] \notin {"opening"}) =>
        LET parts == [k \in DOMAIN output.statements |-> Legible(output.statements[k])]
            rest == Legible(output.rest)
            seen == Legible(plan.text)
        IN  /\ FlattenSeq(parts) \o rest = Without(seen, Phrases(seen, <<";">>))
            /\ \A k \in DOMAIN parts : Phrases(parts[k], <<";">>) = {}
            /\ OnlyComments(output.rest) = (rest = << >>)
=============================================================================

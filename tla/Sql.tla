-------------------------------- MODULE Sql --------------------------------
(***************************************************************************)
(* The SQL front end (sql.rs): tokenize, then a parser that reads the      *)
(* tokens once from left to right and builds a query, or refuses.          *)
(*                                                                         *)
(* A text is a sequence of pieces: a punctuation character, a blank, a     *)
(* quote, or a run of other characters without an inner "!".  A token's    *)
(* text is the sequence of its pieces.  The predicate is laid out as in    *)
(* QueryModel, which evaluates it.                                         *)
(***************************************************************************)
EXTENDS QueryModel

CONSTANTS
  Inputs,      \* the texts considered, with what they are meant to say and how it is laid out
  UpperCase,   \* pieces that to_ascii_uppercase changes, and what it makes of them
  Numbers,     \* texts that parse as i64 or as a finite f64, and their cells
  NotFinite,   \* texts that parse as an f64 that JSON has no number for ("nan", "inf")
  StringCell(_), \* the cell of a string
  BoolCell(_), \* the cells of true and false
  LimitOf,     \* texts that parse as usize, and their values
  Unlimited

VARIABLES
  input,  \* the text, its meaning and its layout; never changed
  at,     \* the next piece tokenize looks at
  toks,   \* the tokens found: their kind, "word" or "str", and their text
  pos,    \* the next token the parser looks at
  stage,  \* what is read next
  join,   \* how the next term is joined to those before it
  query   \* what is built so far

parserVars == <<input, at, toks, pos, stage, join, query>>

text == input.text

Blank == " "
Quotes == {"'", "\""}
Marks == {"=", "<", ">", ",", "(", ")", "*"}
Pairs == {<<"<", "=">>, <<">", "=">>, <<"!", "=">>, <<"<", ">">>}
OpOf == [w \in {<<"=">>, <<"<">>, <<">">>} \cup Pairs |->
           CASE w = <<"=">> -> "eq" [] w = <<"<">> -> "lt" [] w = <<">">> -> "gt"
             [] w = <<"<", "=">> -> "le" [] w = <<">", "=">> -> "ge" [] OTHER -> "ne"]
Functions == {<<"COUNT">>, <<"SUM">>, <<"MIN">>, <<"MAX">>, <<"AVG">>}

\* is_operator; "*" is none.
IsOperator(w) == w \in DOMAIN OpOf \cup {<<",">>, <<"(">>, <<")">>}

Upper(w) == [n \in DOMAIN w |-> IF w[n] \in DOMAIN UpperCase THEN UpperCase[w[n]] ELSE w[n]]

NoQuery == [dataset |-> <<>>, aggregates |-> <<>>, projected |-> FALSE, columns |-> <<>>,
            pred |-> <<>>, groupBy |-> <<>>, orderBy |-> <<>>, limit |-> Unlimited]

ParserInit ==
  /\ input \in Inputs
  /\ at = 1 /\ toks = <<>>
  /\ pos = 1 /\ stage = "lex" /\ join = "none"
  /\ query = NoQuery

Ended == stage \in {"done", "refused"}
Refuse == stage' = "refused" /\ UNCHANGED <<input, at, toks, pos, join, query>>

-----------------------------------------------------------------------------
(* tokenize.                                                               *)

\* The first piece from i on that is in S, or the end of the text.
NextIn(S, i) ==
  CHOOSE n \in i .. (Len(text) + 1) :
    /\ n > Len(text) \/ text[n] \in S
    /\ \A m \in i .. (n - 1) : text[m] \notin S

Token(kind, from, to) == [kind |-> kind, text |-> SubSeq(text, from, to - 1)]
Emit(tok, next) ==
  /\ toks' = Append(toks, tok) /\ at' = next
  /\ UNCHANGED <<input, pos, stage, join, query>>

Lexing == stage = "lex" /\ at <= Len(text)

\* Fault variant: an operator of two characters is taken for two of one.
PairAtNone == FALSE

PairAt == at < Len(text) /\ SubSeq(text, at, at + 1) \in Pairs

SkipBlank ==
  /\ Lexing /\ text[at] = Blank
  /\ at' = at + 1 /\ UNCHANGED <<input, toks, pos, stage, join, query>>

LexString ==
  /\ Lexing /\ text[at] \in Quotes
  /\ LET close == NextIn({text[at]}, at + 1)
     IN  IF close > Len(text) THEN Refuse ELSE Emit(Token("str", at + 1, close), close + 1)

LexMark ==
  /\ Lexing
  /\ \/ PairAt /\ Emit(Token("word", at, at + 2), at + 2)
     \/ ~PairAt /\ text[at] \in Marks /\ Emit(Token("word", at, at + 1), at + 1)

\* A "!" does not end a word.
LexWord ==
  /\ Lexing /\ ~PairAt /\ text[at] \notin Marks \cup Quotes \cup {Blank}
  /\ LET end == NextIn(Marks \cup Quotes \cup {Blank}, at)
     IN  Emit(Token("word", at, end), end)

LexEnd ==
  /\ stage = "lex" /\ at > Len(text)
  /\ stage' = "select" /\ UNCHANGED <<input, at, toks, pos, join, query>>

-----------------------------------------------------------------------------
(* The parser.                                                             *)

Here(i) == i \in DOMAIN toks
IsWord(i) == Here(i) /\ toks[i].kind = "word"
Is(i, w) == IsWord(i) /\ toks[i].text = w
Kw(i, k) == IsWord(i) /\ Upper(toks[i].text) = <<k>>
Bare(i) == IsWord(i) /\ ~IsOperator(toks[i].text)   \* next_word
Word(i) == toks[i].text

\* Go on at token i.
GoOn(i, next) == pos' = i /\ stage' = next /\ UNCHANGED <<input, at, toks>>
\* After an item of a list: a comma means one more.
NextItem(i, next) == IF Is(i, <<",">>) THEN GoOn(i + 1, stage) ELSE GoOn(i, next)

\* parse_select_list: "*", a list of aggregates or a list of columns.
ParseSelect ==
  /\ stage = "select"
  /\ IF ~Kw(pos, "SELECT") THEN Refuse
     ELSE /\ UNCHANGED join
          /\ IF Is(pos + 1, <<"*">>)
             THEN GoOn(pos + 2, "from") /\ query' = [query EXCEPT !.projected = TRUE]
             ELSE IF Bare(pos + 1) /\ Is(pos + 2, <<"(">>)
             THEN GoOn(pos + 1, "aggregates") /\ UNCHANGED query
             ELSE GoOn(pos + 1, "columns") /\ query' = [query EXCEPT !.projected = TRUE]

ParseColumn ==
  /\ stage = "columns"
  /\ IF ~Bare(pos) THEN Refuse
     ELSE /\ query' = [query EXCEPT !.columns = Append(@, Word(pos))]
          /\ NextItem(pos + 1, "from") /\ UNCHANGED join

\* parse_agg; COUNT takes any argument and ignores it, the others take no "*".
ParseAgg ==
  /\ stage = "aggregates"
  /\ IF /\ Bare(pos) /\ Is(pos + 1, <<"(">>) /\ IsWord(pos + 2) /\ Is(pos + 3, <<")">>)
        /\ Upper(Word(pos)) \in Functions
        /\ Upper(Word(pos)) # <<"COUNT">> => Word(pos + 2) # <<"*">>
     THEN LET func == Upper(Word(pos))
              arg == IF func = <<"COUNT">> THEN <<>> ELSE Word(pos + 2)
          IN  /\ query' = [query EXCEPT !.aggregates = Append(@, [func |-> func, arg |-> arg])]
              /\ NextItem(pos + 4, "from") /\ UNCHANGED join
     ELSE Refuse

ParseFrom ==
  /\ stage = "from"
  /\ IF ~(Kw(pos, "FROM") /\ Bare(pos + 1)) THEN Refuse
     ELSE /\ UNCHANGED join
          /\ IF Kw(pos + 2, "WHERE")
             THEN GoOn(pos + 3, "term") /\ query' = [query EXCEPT !.dataset = Word(pos + 1)]
             ELSE /\ GoOn(pos + 2, "group")
                  /\ query' = [query EXCEPT !.dataset = Word(pos + 1),
                                            !.pred = <<[shape |-> "true"]>>]

\* literal_from_word.
LiteralFromWord(w) ==
  CASE Upper(w) \in {<<"TRUE">>, <<"FALSE">>} -> BoolCell(Upper(w))
    [] Upper(w) = <<"NULL">> \/ w \in NotFinite -> Null
    [] w \in DOMAIN Numbers -> Numbers[w]
    [] OTHER -> StringCell(w)

\* Any token is a literal, operators and keywords too.
Literal(i) == IF IsWord(i) THEN LiteralFromWord(Word(i)) ELSE StringCell(Word(i))

\* The nodes of a term, moved behind n others.
Shifted(term, n) ==
  [i \in DOMAIN term |->
     IF term[i].shape = "not" THEN [term[i] EXCEPT !.left = @ + n] ELSE term[i]]

\* Fault variant: a term is joined to the one before it only.
JoinedTight(pred, term, how) ==
  IF how = "none" THEN term
  ELSE LET all == pred \o Shifted(term, Len(pred))
           last == pred[Len(pred)]
       IN  IF last.shape \in {"and", "or"}
           THEN all \o <<[shape |-> how, left |-> last.right, right |-> Len(all)],
                         [shape |-> last.shape, left |-> last.left, right |-> Len(all) + 1]>>
           ELSE Append(all, [shape |-> how, left |-> Len(pred), right |-> Len(all)])

\* parse_predicate adds a term to those read so far: AND and OR bind alike, to the left.
Joined(pred, term, how) ==
  IF how = "none" THEN term
  ELSE LET all == pred \o Shifted(term, Len(pred))
       IN  Append(all, [shape |-> how, left |-> Len(pred), right |-> Len(all)])

\* parse_term: NOT negates one comparison.
ParseTerm ==
  LET negate == Kw(pos, "NOT")
      i == IF negate THEN pos + 1 ELSE pos
  IN
  /\ stage = "term"
  /\ IF ~(Bare(i) /\ IsWord(i + 1) /\ Word(i + 1) \in DOMAIN OpOf /\ Here(i + 2)) THEN Refuse
     ELSE LET cmp == [shape |-> "cmp", field |-> Word(i), op |-> OpOf[Word(i + 1)],
                      value |-> Literal(i + 2)]
              term == IF negate THEN <<cmp, [shape |-> "not", left |-> 1]>> ELSE <<cmp>>
              more == Kw(i + 3, "AND") \/ Kw(i + 3, "OR")
          IN  /\ query' = [query EXCEPT !.pred = Joined(@, term, join)]
              /\ join' = IF Kw(i + 3, "AND") THEN "and"
                         ELSE IF Kw(i + 3, "OR") THEN "or" ELSE join
              /\ IF more THEN GoOn(i + 4, "term") ELSE GoOn(i + 3, "group")

\* GROUP BY and ORDER BY are optional; once begun they must be complete.
ParseClause(here, first, items, next) ==
  /\ stage = here
  /\ IF ~Kw(pos, first) THEN GoOn(pos, next) /\ UNCHANGED <<join, query>>
     ELSE IF Kw(pos + 1, "BY") THEN GoOn(pos + 2, items) /\ UNCHANGED <<join, query>>
     ELSE Refuse

ParseGroupColumn ==
  /\ stage = "group columns"
  /\ IF ~Bare(pos) THEN Refuse
     ELSE /\ query' = [query EXCEPT !.groupBy = Append(@, Word(pos))]
          /\ NextItem(pos + 1, "order") /\ UNCHANGED join

ParseOrderKey ==
  /\ stage = "order keys"
  /\ IF ~Bare(pos) THEN Refuse
     ELSE LET told == Kw(pos + 1, "ASC") \/ Kw(pos + 1, "DESC")
              dir == IF Kw(pos + 1, "DESC") THEN "desc" ELSE "asc"
          IN  /\ query' = [query EXCEPT !.orderBy = Append(@, [column |-> Word(pos), dir |-> dir])]
              /\ NextItem(IF told THEN pos + 2 ELSE pos + 1, "limit") /\ UNCHANGED join

ParseLimit ==
  /\ stage = "limit"
  /\ IF ~Kw(pos, "LIMIT") THEN GoOn(pos, "end") /\ UNCHANGED <<join, query>>
     ELSE IF Bare(pos + 1) /\ Word(pos + 1) \in DOMAIN LimitOf
     THEN GoOn(pos + 2, "end") /\ UNCHANGED join
            /\ query' = [query EXCEPT !.limit = LimitOf[Word(pos + 1)]]
     ELSE Refuse

\* Fault variant: what follows the query is ignored.
AllReadAnyway == TRUE

AllRead == pos > Len(toks)

\* The end of parse: nothing may follow, and a projection has no GROUP BY (validate asks
\* for no more than the parser has made sure of).
ParseEnd ==
  /\ stage = "end"
  /\ IF AllRead /\ (query.projected => query.groupBy = <<>>)
     THEN GoOn(pos, "done") /\ UNCHANGED <<join, query>>
     ELSE Refuse

Tokenize == SkipBlank \/ LexString \/ LexMark \/ LexWord \/ LexEnd
Parse ==
  \/ ParseSelect \/ ParseColumn \/ ParseAgg \/ ParseFrom \/ ParseTerm
  \/ ParseClause("group", "GROUP", "group columns", "order") \/ ParseGroupColumn
  \/ ParseClause("order", "ORDER", "order keys", "limit") \/ ParseOrderKey
  \/ ParseLimit \/ ParseEnd
ParserNext == Tokenize \/ Parse
ParserSpec == ParserInit /\ [][ParserNext]_parserVars

-----------------------------------------------------------------------------
\* What the text says, apart from its WHERE clause, is what was parsed.
SaysTheSame ==
  \A clause \in DOMAIN query \ {"pred"} : query[clause] = input.says[clause]

\* The terms of a WHERE clause on a row, read one after the other up to the nth.
TermHolds(term, row) == term.negate # Compare(term.op, Cell(row, term.field), term.value)
ReadUpTo(terms, row) ==
  LET upTo[n \in DOMAIN terms] ==
        IF n = 1 THEN TermHolds(terms[1], row)
        ELSE IF terms[n].join = "and" THEN upTo[n - 1] /\ TermHolds(terms[n], row)
        ELSE upTo[n - 1] \/ TermHolds(terms[n], row)
  IN  upTo
Reading(terms, row) == terms = <<>> \/ ReadUpTo(terms, row)[Len(terms)]

ReadsTheSame == \A row \in Rows : Holds(query.pred, row) = Reading(input.says.terms, row)

\* The documented grammar is accepted, however it is spaced, cased and quoted, and
\* every clause arrives in its place of the query.
ParsesAsWritten ==
  input.whole => /\ stage # "refused"
                 /\ stage = "done" => SaysTheSame

\* "Left-assoc; AND/OR same precedence", NOT for one comparison only: on every row the
\* predicate built evaluates to what the terms give when read from left to right.
ReadsLeftToRight == input.whole /\ stage = "done" => ReadsTheSame

\* No token is ignored: a text with a token left out, or written twice, is refused or
\* means something else.
EveryTokenCounts == ~input.whole /\ stage = "done" => ~(SaysTheSame /\ ReadsTheSame)
=============================================================================

---------------------------- MODULE SqlInvariant ----------------------------
(***************************************************************************)
(* The grammar that sql.rs documents, as a relation between a text and     *)
(* what it says, and the inductive invariant of the parser: how far it has *)
(* come through a text of the grammar, and what it has built by then.      *)
(*                                                                         *)
(* A layout says where the parts of a text stand: its tokens; where each   *)
(* begins and the one before it ends, in pieces; where FROM, each term,    *)
(* the optional clauses and each ORDER BY key stand, in tokens.            *)
(***************************************************************************)
EXTENDS Sql

-----------------------------------------------------------------------------
(* The tokens of a text.                                                   *)

Stops == Marks \cup Quotes \cup {Blank}
PairIn(t, i) == i < Len(t) /\ SubSeq(t, i, i + 1) \in Pairs

\* The pieces from i up to j, not included, are one string, or one word.
IsString(t, tok, i, j) ==
  /\ t[i] \in Quotes /\ i + 1 < j /\ t[j - 1] = t[i]
  /\ \A m \in (i + 1) .. (j - 2) : t[m] # t[i]
  /\ tok = [kind |-> "str", text |-> SubSeq(t, i + 1, j - 2)]
IsOneWord(t, tok, i, j) ==
  /\ \/ PairIn(t, i) /\ j = i + 2
     \/ ~PairIn(t, i) /\ t[i] \in Marks /\ j = i + 1
     \/ /\ ~PairIn(t, i) /\ \A m \in i .. (j - 1) : t[m] \notin Stops
        /\ j > Len(t) \/ t[j] \in Stops
  /\ tok = [kind |-> "word", text |-> SubSeq(t, i, j - 1)]

\* Between the tokens of a text there are blanks only.
Spaced(t, layout) ==
  LET N == Len(layout.tokens)
  IN  /\ t \in Seq(STRING)
      /\ layout.tokens \in Seq([kind : {"word", "str"}, text : Seq(STRING)])
      /\ {layout.begins, layout.ends} \subseteq [1 .. (N + 1) -> 1 .. (Len(t) + 1)]
      /\ layout.ends[1] = 1 /\ layout.begins[N + 1] = Len(t) + 1
      /\ \A k \in 1 .. (N + 1) :
           /\ layout.ends[k] <= layout.begins[k]
           /\ \A m \in layout.ends[k] .. (layout.begins[k] - 1) : t[m] = Blank
      /\ \A k \in 1 .. N :
           /\ layout.begins[k] < layout.ends[k + 1]
           /\ \/ IsString(t, layout.tokens[k], layout.begins[k], layout.ends[k + 1])
              \/ IsOneWord(t, layout.tokens[k], layout.begins[k], layout.ends[k + 1])

-----------------------------------------------------------------------------
(* The clauses, over the tokens ts.                                        *)

Comma == <<",">>
IsWordIn(ts, i) == i \in DOMAIN ts /\ ts[i].kind = "word"
WordAt(ts, i, w) == IsWordIn(ts, i) /\ ts[i].text = w
KeywordAt(ts, i, k) == IsWordIn(ts, i) /\ Upper(ts[i].text) = <<k>>
NameAt(ts, i, w) == WordAt(ts, i, w) /\ ~IsOperator(w)

\* Names at every other token from i on, with commas between them.
NamesAt(ts, i, names) ==
  \A n \in DOMAIN names :
    /\ NameAt(ts, i + 2 * (n - 1), names[n])
    /\ n < Len(names) => WordAt(ts, i + 2 * n - 1, Comma)

\* FUNC(arg); COUNT counts rows, whatever its argument.
AggregateAt(ts, i, agg) ==
  /\ IsWordIn(ts, i) /\ ~IsOperator(ts[i].text)
  /\ agg.func = Upper(ts[i].text) /\ agg.func \in Functions
  /\ WordAt(ts, i + 1, <<"(">>) /\ IsWordIn(ts, i + 2) /\ WordAt(ts, i + 3, <<")">>)
  /\ IF agg.func = <<"COUNT">> THEN agg.arg = <<>>
     ELSE agg.arg = ts[i + 2].text /\ agg.arg # <<"*">>

\* SELECT and what it lists, up to FROM.
SelectSpelled(ts, says, from) ==
  /\ KeywordAt(ts, 1, "SELECT")
  /\ says.columns \in Seq(Seq(STRING))
  /\ says.aggregates \in Seq([func : Seq(STRING), arg : Seq(STRING)])
  /\ \/ /\ says.projected = TRUE /\ says.columns = <<>> /\ says.aggregates = <<>>
        /\ WordAt(ts, 2, <<"*">>) /\ from = 3
     \/ /\ says.projected = TRUE /\ says.columns # <<>> /\ says.aggregates = <<>>
        /\ says.columns[1] # <<"*">> /\ NamesAt(ts, 2, says.columns)
        /\ from = 2 * Len(says.columns) + 1
     \/ /\ says.projected = FALSE /\ says.columns = <<>> /\ says.aggregates # <<>>
        /\ \A n \in DOMAIN says.aggregates :
             /\ AggregateAt(ts, 5 * n - 3, says.aggregates[n])
             /\ n < Len(says.aggregates) => WordAt(ts, 5 * n + 1, Comma)
        /\ from = 5 * Len(says.aggregates) + 1

ValueOf(tok) == IF tok.kind = "word" THEN LiteralFromWord(tok.text) ELSE StringCell(tok.text)

\* [NOT] field op literal, from token i on; a field written NOT would negate.
TermAt(ts, i, term) ==
  LET f == IF term.negate THEN i + 1 ELSE i
  IN  /\ term.negate = KeywordAt(ts, i, "NOT")
      /\ NameAt(ts, f, term.field)
      /\ IsWordIn(ts, f + 1) /\ ts[f + 1].text \in DOMAIN OpOf /\ OpOf[ts[f + 1].text] = term.op
      /\ f + 2 \in DOMAIN ts /\ term.value = ValueOf(ts[f + 2])
AfterTerm(i, term) == IF term.negate THEN i + 4 ELSE i + 3

WhereSpelled(ts, says, layout) ==
  LET terms == says.terms
      where == layout.from + 2
  IN  /\ terms \in Seq([join : {"none", "and", "or"}, negate : BOOLEAN, field : Seq(STRING),
                        op : CmpOps, value : {terms[n].value : n \in DOMAIN terms}])
      /\ layout.terms \in [1 .. (Len(terms) + 1) -> Nat]
      /\ terms = <<>> => layout.groupBy = where
      /\ terms # <<>> =>
           /\ KeywordAt(ts, where, "WHERE") /\ layout.terms[1] = where + 1
           /\ layout.groupBy = layout.terms[Len(terms) + 1] - 1
           /\ \A n \in DOMAIN terms :
                /\ TermAt(ts, layout.terms[n], terms[n])
                /\ layout.terms[n + 1] = AfterTerm(layout.terms[n], terms[n]) + 1
                /\ n < Len(terms) =>
                     \/ terms[n + 1].join = "and" /\ KeywordAt(ts, layout.terms[n + 1] - 1, "AND")
                     \/ terms[n + 1].join = "or" /\ KeywordAt(ts, layout.terms[n + 1] - 1, "OR")

GroupSpelled(ts, says, layout) ==
  LET group == layout.groupBy
  IN  /\ says.groupBy \in Seq(Seq(STRING))
      /\ says.groupBy = <<>> => layout.orderBy = group
      /\ says.groupBy # <<>> =>
           /\ KeywordAt(ts, group, "GROUP") /\ KeywordAt(ts, group + 1, "BY")
           /\ NamesAt(ts, group + 2, says.groupBy)
           /\ layout.orderBy = group + 2 * Len(says.groupBy) + 1
      /\ says.projected => says.groupBy = <<>>

\* A key is a name, with or without a direction.
OrderKeyAt(ts, i, key, end) ==
  /\ NameAt(ts, i, key.column)
  /\ \/ key.dir = "asc" /\ end = i + 1
     \/ key.dir = "asc" /\ KeywordAt(ts, i + 1, "ASC") /\ end = i + 2
     \/ key.dir = "desc" /\ KeywordAt(ts, i + 1, "DESC") /\ end = i + 2

OrderSpelled(ts, says, layout) ==
  LET order == layout.orderBy
      keys == says.orderBy
  IN  /\ keys \in Seq([column : Seq(STRING), dir : {"asc", "desc"}])
      /\ layout.keys \in [1 .. (Len(keys) + 1) -> Nat]
      /\ keys = <<>> => layout.limit = order
      /\ keys # <<>> =>
           /\ KeywordAt(ts, order, "ORDER") /\ KeywordAt(ts, order + 1, "BY")
           /\ layout.keys[1] = order + 2 /\ layout.limit = layout.keys[Len(keys) + 1] - 1
           /\ \A n \in DOMAIN keys :
                /\ OrderKeyAt(ts, layout.keys[n], keys[n], layout.keys[n + 1] - 1)
                /\ n < Len(keys) => WordAt(ts, layout.keys[n + 1] - 1, Comma)

LimitSpelled(ts, says, layout) ==
  \/ says.limit = Unlimited /\ Len(ts) = layout.limit - 1
  \/ /\ KeywordAt(ts, layout.limit, "LIMIT") /\ Len(ts) = layout.limit + 1
     /\ \E w \in DOMAIN LimitOf : NameAt(ts, layout.limit + 1, w) /\ LimitOf[w] = says.limit

\* SELECT list FROM dataset [WHERE ...] [GROUP BY ...] [ORDER BY ...] [LIMIT n].
Spelled(ts, says, layout) ==
  /\ {layout.from, layout.groupBy, layout.orderBy, layout.limit} \subseteq Nat
  /\ SelectSpelled(ts, says, layout.from)
  /\ KeywordAt(ts, layout.from, "FROM") /\ NameAt(ts, layout.from + 1, says.dataset)
  /\ WhereSpelled(ts, says, layout) /\ GroupSpelled(ts, says, layout)
  /\ OrderSpelled(ts, says, layout) /\ LimitSpelled(ts, says, layout)

WrittenOut(i) == Spaced(i.text, i.layout) /\ Spelled(i.layout.tokens, i.says, i.layout)

\* A whole text is one of the grammar.
ASSUME InputsAssumption ==
  \A i \in Inputs : i.text \in Seq(STRING) /\ (i.whole => WrittenOut(i))

\* to_ascii_uppercase changes letters only.
ASSUME UpperCaseAssumption == DOMAIN UpperCase \cap (Marks \cup {"!"}) = {}

-----------------------------------------------------------------------------
(* The invariant: for a whole text, how far the parser is and what it has  *)
(* built.                                                                  *)

Built(aggregates, projected, columns, dataset, pred, groupBy, orderBy, limit) ==
  [dataset |-> dataset, aggregates |-> aggregates, projected |-> projected, columns |-> columns,
   pred |-> pred, groupBy |-> groupBy, orderBy |-> orderBy, limit |-> limit]

First(s, n) == SubSeq(s, 1, n)

\* The predicate means what the first n terms do.
MeansFirst(pred, terms, n) ==
  IsTree(pred) /\ \A row \in Rows : Holds(pred, row) = ReadUpTo(terms, row)[n]
MeansAll(pred, terms) ==
  IsTree(pred) /\ \A row \in Rows : Holds(pred, row) = Reading(terms, row)

says == input.says
layout == input.layout

AtLex ==
  /\ stage = "lex" /\ pos = 1 /\ join = "none" /\ query = NoQuery
  /\ \E k \in 0 .. Len(layout.tokens) :
       /\ toks = First(layout.tokens, k)
       /\ at \in layout.ends[k + 1] .. layout.begins[k + 1]

AtSelect == stage = "select" /\ pos = 1 /\ join = "none" /\ query = NoQuery

AtColumns ==
  /\ stage = "columns" /\ join = "none" /\ says.aggregates = <<>> /\ says.projected = TRUE
  /\ \E n \in 0 .. (Len(says.columns) - 1) :
       /\ pos = 2 * n + 2
       /\ query = Built(<<>>, TRUE, First(says.columns, n), <<>>, <<>>, <<>>, <<>>, Unlimited)

AtAggregates ==
  /\ stage = "aggregates" /\ join = "none" /\ says.columns = <<>> /\ says.projected = FALSE
  /\ \E n \in 0 .. (Len(says.aggregates) - 1) :
       /\ pos = 5 * n + 2
       /\ query = Built(First(says.aggregates, n), FALSE, <<>>, <<>>, <<>>, <<>>, <<>>, Unlimited)

AtFrom ==
  /\ stage = "from" /\ join = "none" /\ pos = layout.from
  /\ query = Built(says.aggregates, says.projected, says.columns, <<>>, <<>>, <<>>, <<>>, Unlimited)

AtTerm ==
  /\ stage = "term"
  /\ query = Built(says.aggregates, says.projected, says.columns, says.dataset, query.pred,
                   <<>>, <<>>, Unlimited)
  /\ \E n \in 0 .. (Len(says.terms) - 1) :
       /\ pos = layout.terms[n + 1]
       /\ n = 0 => join = "none" /\ query.pred = <<>>
       /\ n > 0 => join = says.terms[n + 1].join /\ MeansFirst(query.pred, says.terms, n)

\* From the end of WHERE on.
Filtered(i, groupBy, orderBy, limit) ==
  /\ pos = i
  /\ query = Built(says.aggregates, says.projected, says.columns, says.dataset, query.pred,
                   groupBy, orderBy, limit)
  /\ MeansAll(query.pred, says.terms)

AtGroup == stage = "group" /\ Filtered(layout.groupBy, <<>>, <<>>, Unlimited)
AtGroupColumns ==
  /\ stage = "group columns"
  /\ \E n \in 0 .. (Len(says.groupBy) - 1) :
       Filtered(layout.groupBy + 2 + 2 * n, First(says.groupBy, n), <<>>, Unlimited)
AtOrder == stage = "order" /\ Filtered(layout.orderBy, says.groupBy, <<>>, Unlimited)
AtOrderKeys ==
  /\ stage = "order keys"
  /\ \E n \in 0 .. (Len(says.orderBy) - 1) :
       Filtered(layout.keys[n + 1], says.groupBy, First(says.orderBy, n), Unlimited)
AtLimit == stage = "limit" /\ Filtered(layout.limit, says.groupBy, says.orderBy, Unlimited)
AtEnd ==
  stage \in {"end", "done"} /\ Filtered(Len(toks) + 1, says.groupBy, says.orderBy, says.limit)

Progress ==
  \/ AtLex
  \/ /\ toks = layout.tokens
     /\ \/ AtSelect \/ AtColumns \/ AtAggregates \/ AtFrom \/ AtTerm \/ AtGroup
        \/ AtGroupColumns \/ AtOrder \/ AtOrderKeys \/ AtLimit \/ AtEnd

ParserInv == input \in Inputs /\ (input.whole => Progress)

-----------------------------------------------------------------------------
(* What is built from any text, of the grammar or not.                     *)

Clauses == {"dataset", "aggregates", "projected", "columns", "pred", "groupBy", "orderBy", "limit"}

IsList(s) == s \in Seq({s[n] : n \in DOMAIN s})

\* Aggregates or columns, never both and never neither ("*" lists no column).
SelectsOneKind(q) == IF q.projected THEN q.aggregates = <<>> ELSE q.aggregates # <<>>

\* trim leaves something.
NotBlank(w) == \E n \in DOMAIN w : w[n] # Blank

\* validate of query.rs asks of a query what the parser has made sure of, and its
\* predicate can be evaluated: whatever the text is, a query that is accepted names a
\* dataset, selects either aggregates or columns, groups none of the latter, and its
\* predicate is a tree.
AcceptedIsValid ==
  stage = "done" =>
    /\ NotBlank(query.dataset) /\ SelectsOneKind(query)
    /\ query.projected => query.groupBy = <<>>
    /\ IsTree(query.pred)

\* The inductive invariant behind it: of the tokens, and of what is built from them.
WordsInv ==
  /\ input \in Inputs /\ at \in 1 .. (Len(text) + 1) /\ IsList(toks)
  /\ \A i \in DOMAIN toks : toks[i].kind = "word" => NotBlank(toks[i].text)

BuildsInv ==
  /\ DOMAIN query = Clauses /\ IsList(query.aggregates)
  /\ stage \in {"lex", "select"} =>
       join = "none" /\ query.pred = <<>> /\ query.projected = FALSE /\ query.aggregates = <<>>
  /\ stage = "columns" => query.projected = TRUE /\ query.aggregates = <<>>
  /\ stage = "aggregates" => query.projected = FALSE
  /\ stage \in {"columns", "aggregates", "from"} => join = "none" /\ query.pred = <<>>
  /\ stage = "term" =>
       \/ join = "none" /\ query.pred = <<>>
       \/ join \in {"and", "or"} /\ IsTree(query.pred)
  /\ stage \in {"group", "group columns", "order", "order keys", "limit", "end", "done"} =>
       IsTree(query.pred)
  /\ stage \in {"from", "term", "group", "group columns", "order", "order keys", "limit",
                "end", "done"} => SelectsOneKind(query)
  /\ stage \in {"term", "group", "group columns", "order", "order keys", "limit", "end",
                "done"} => NotBlank(query.dataset)
  /\ stage = "done" => (query.projected => query.groupBy = <<>>)
=============================================================================

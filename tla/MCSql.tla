------------------------------- MODULE MCSql -------------------------------
(* Small instances of Sql for TLC: queries, and the texts that say them.    *)
EXTENDS SqlInvariant, TLC
LOCAL INSTANCE SequencesExt

a == <<"a">>
order == <<"order">>
c == <<"c">>
MCColumns == {a, order, c}

MCNumber(n) == [kind |-> "number", rank |-> n, float |-> n,
                num |-> [lane |-> "int", val |-> n], label |-> ToString(n)]
MCText(w) == [kind |-> "text", rank |-> IF w = <<"x">> THEN 1 ELSE IF w = <<"1">> THEN 2 ELSE 3,
              float |-> None, num |-> None, label |-> ToString(w)]
MCBool(w) == [kind |-> "bool", rank |-> IF w = <<"TRUE">> THEN 1 ELSE 0,
              float |-> None, num |-> None, label |-> "bool"]
MCNumbers == <<"1">> :> MCNumber(1) @@ <<"2">> :> MCNumber(2)
MCNotFinite == {<<"nan">>}
MCLimitOf == <<"1">> :> 1 @@ <<"2">> :> 2
MCCells == {MCNumber(1), MCNumber(2), MCText(<<"x">>), MCText(<<"1">>), MCBool(<<"TRUE">>), Null}

Lower ==
  "SELECT" :> "select" @@ "COUNT" :> "count" @@ "SUM" :> "sum" @@ "FROM" :> "from" @@
    "WHERE" :> "where" @@ "AND" :> "and" @@ "OR" :> "or" @@ "NOT" :> "not" @@
    "GROUP" :> "group" @@ "ORDER" :> "order" @@ "BY" :> "by" @@ "ASC" :> "asc" @@
    "DESC" :> "desc" @@ "LIMIT" :> "limit" @@ "TRUE" :> "true" @@ "NULL" :> "null"
MCUpperCase == [p \in {Lower[k] : k \in DOMAIN Lower} |-> CHOOSE k \in DOMAIN Lower : Lower[k] = p]

\* A literal as it is written, without quotes or with, and its cell.
Lit(w, quote, cell) == [w |-> w, quote |-> quote, cell |-> cell]
Lits == {Lit(<<"1">>, "", MCNumber(1)), Lit(<<"1">>, "'", MCText(<<"1">>)),
         Lit(<<"x">>, "\"", MCText(<<"x">>)), Lit(<<"TRUE">>, "", MCBool(<<"TRUE">>)),
         Lit(<<"NULL">>, "", Null), Lit(<<"nan">>, "", Null)}
Term(j, neg, field, op, lit) == [join |-> j, negate |-> neg, field |-> field, op |-> op, lit |-> lit]

\* The clauses of a query as it is written.
Written(selects, wheres, groups, orders, limits) ==
  [select : selects, where : wheres, group : groups, order : orders, limit : limits]

-----------------------------------------------------------------------------
(* The tokens of a query, as [w |-> pieces, quote |-> quote or ""].        *)

T(w) == <<[w |-> w, quote |-> ""]>>
K(k) == T(<<k>>)
Commas(lists) == FlattenSeq([n \in DOMAIN lists |-> IF n = 1 THEN lists[n] ELSE T(<<",">>) \o lists[n]])
Each(q, F(_)) == [n \in DOMAIN q |-> F(q[n])]

SelectTokens(s) ==
  IF s.kind = "star" THEN T(<<"*">>)
  ELSE IF s.kind = "columns" THEN Commas(Each(s.list, T))
  ELSE Commas(Each(s.list, LAMBDA g : T(g.func) \o T(<<"(">>)
                 \o T(IF g.arg = <<>> THEN <<"*">> ELSE g.arg) \o T(<<")">>)))
TermTokens(t) ==
  (CASE t.join = "and" -> K("AND") [] t.join = "or" -> K("OR") [] OTHER -> K("WHERE"))
    \o (IF t.negate THEN K("NOT") ELSE <<>>) \o T(t.field)
    \o T(CHOOSE w \in DOMAIN OpOf : OpOf[w] = t.op /\ w # <<"<", ">">>)
    \o <<[w |-> t.lit.w, quote |-> t.lit.quote]>>
OrderTokens(k) == T(k.column) \o (IF k.dir = "desc" THEN K("DESC") ELSE <<>>)
Tokens(q) ==
  K("SELECT") \o SelectTokens(q.select) \o K("FROM") \o T(<<"t">>)
    \o FlattenSeq(Each(q.where, TermTokens))
    \o (IF q.group = <<>> THEN <<>> ELSE K("GROUP") \o K("BY") \o Commas(Each(q.group, T)))
    \o (IF q.order = <<>> THEN <<>> ELSE K("ORDER") \o K("BY") \o Commas(Each(q.order, OrderTokens)))
    \o (IF q.limit = 0 THEN <<>> ELSE K("LIMIT") \o T(<<ToString(q.limit)>>))

Says(q) ==
  [dataset |-> <<"t">>, aggregates |-> IF q.select.kind = "aggregates" THEN q.select.list ELSE <<>>,
   projected |-> q.select.kind # "aggregates",
   columns |-> IF q.select.kind = "columns" THEN q.select.list ELSE <<>>,
   groupBy |-> q.group, orderBy |-> q.order, limit |-> IF q.limit = 0 THEN Unlimited ELSE q.limit,
   terms |-> [n \in DOMAIN q.where |->
                [join |-> q.where[n].join, negate |-> q.where[n].negate, field |-> q.where[n].field,
                 op |-> q.where[n].op, value |-> q.where[n].lit.cell]]]

-----------------------------------------------------------------------------
(* Texts: blanks between all tokens, or only where two tokens would grow   *)
(* together; keywords in capitals or not.                                  *)

Styles == [tight : BOOLEAN, lower : BOOLEAN]

Piece(p, style) == IF style.lower /\ p \in DOMAIN Lower THEN Lower[p] ELSE p
Pieces(tok, style) ==
  IF tok.quote # "" THEN <<tok.quote>> \o tok.w \o <<tok.quote>>
  ELSE Each(tok.w, LAMBDA p : Piece(p, style))
\* A word ends before a mark or a quote, but not before "!".
Apart(left, right) ==
  LET wordy(tok) == tok.quote = "" /\ tok.w[1] \notin Marks \cup {"!"}
  IN  wordy(left) /\ (wordy(right) \/ right.w[1] = "!")
Gap(tokens, n, style) ==
  IF n > 1 /\ (~style.tight \/ Apart(tokens[n - 1], tokens[n])) THEN <<Blank>> ELSE <<>>
Text(tokens, style) ==
  FlattenSeq([n \in DOMAIN tokens |-> Gap(tokens, n, style) \o Pieces(tokens[n], style)])

\* Where the parts of a query stand in its text.
Layout(q, style) ==
  LET tokens == Tokens(q)
      N == Len(tokens)
      gap == [k \in 1 .. N |-> Len(Gap(tokens, k, style))]
      width == [k \in 1 .. N |-> Len(Pieces(tokens[k], style))]
      ends[k \in 1 .. (N + 1)] == IF k = 1 THEN 1 ELSE ends[k - 1] + gap[k - 1] + width[k - 1]
      from == Len(SelectTokens(q.select)) + 2
      Items(list, F(_), n) == Len(FlattenSeq(Each(SubSeq(list, 1, n - 1), F)))
      terms == [n \in 1 .. (Len(q.where) + 1) |-> from + 3 + Items(q.where, TermTokens, n)]
      group == terms[Len(q.where) + 1] - 1
      orderBy == group + (IF q.group = <<>> THEN 0 ELSE 2 * Len(q.group) + 1)
      keys == [n \in 1 .. (Len(q.order) + 1) |->
                 orderBy + 1 + n + Items(q.order, OrderTokens, n)]
  IN  [tokens |-> [k \in 1 .. N |-> [kind |-> IF tokens[k].quote = "" THEN "word" ELSE "str",
                                     text |-> IF tokens[k].quote # "" THEN tokens[k].w
                                              ELSE Pieces(tokens[k], style)]],
       ends |-> ends,
       begins |-> [k \in 1 .. (N + 1) |->
                     IF k > N THEN ends[k] ELSE ends[k] + gap[k]],
       from |-> from, terms |-> terms, groupBy |-> group, orderBy |-> orderBy, keys |-> keys,
       limit |-> IF q.order = <<>> THEN orderBy ELSE keys[Len(q.order) + 1] - 1]

\* A changed text keeps the layout of the one it comes from.
Input(q, tokens, style, whole) ==
  [text |-> Text(tokens, style), says |-> Says(q), whole |-> whole, layout |-> Layout(q, style)]

Agg(f, arg) == [func |-> <<f>>, arg |-> arg]
Star == [kind |-> "star", list |-> <<>>]
Cols(list) == [kind |-> "columns", list |-> list]
Aggs(list) == [kind |-> "aggregates", list |-> list]
Sums == Aggs(<<Agg("SUM", a), Agg("COUNT", <<>>)>>)

One(neg, op, lit) == <<Term("none", neg, a, op, lit)>>
Number1 == Lit(<<"1">>, "", MCNumber(1))
Number2 == Lit(<<"2">>, "", MCNumber(2))
Chains ==
  {<<Term("none", n1, a, "eq", Number1), Term(j2, n2, order, "le", Number2), Term(j3, FALSE, c, "gt", Number1)>> :
     n1 \in BOOLEAN, n2 \in BOOLEAN, j2 \in {"and", "or"}, j3 \in {"and", "or"}}

Predicated == Written({Sums, Star}, {One(n, op, l) : n \in BOOLEAN, op \in CmpOps, l \in Lits} \cup Chains,
                      {<<>>}, {<<>>}, {0, 2})
Grouped == Written({Sums, Aggs(<<Agg("COUNT", <<>>)>>)}, {<<>>, One(FALSE, "ne", Number1)},
                   {<<>>, <<a>>, <<order, a>>},
                   {<<>>, <<[column |-> order, dir |-> "desc"], [column |-> a, dir |-> "asc"]>>}, {0, 1})
Projected == Written({Star, Cols(<<a>>), Cols(<<order, a>>)}, {<<>>, One(TRUE, "ge", Number1)}, {<<>>},
                     {<<>>, <<[column |-> a, dir |-> "desc"]>>}, {0, 1})

Without(q, n) == SubSeq(q, 1, n - 1) \o SubSeq(q, n + 1, Len(q))
Twice(q, n) == SubSeq(q, 1, n) \o SubSeq(q, n, Len(q))

MCInputs ==
  {Input(q, Tokens(q), style, TRUE) : q \in Predicated \cup Grouped \cup Projected, style \in Styles}
  \cup UNION {{Input(q, change, [tight |-> FALSE, lower |-> FALSE], FALSE) :
                 change \in {Without(Tokens(q), n) : n \in DOMAIN Tokens(q)}
                              \cup {Twice(Tokens(q), n) : n \in DOMAIN Tokens(q)}} :
              q \in Grouped \cup Projected
                      \cup Written({Sums}, Chains, {<<order, a>>}, {<<>>}, {1})}
=============================================================================

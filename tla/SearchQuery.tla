---------------------------- MODULE SearchQuery ----------------------------
(***************************************************************************)
(* The search language of app/search/query.py: a query's tokens, the       *)
(* recursive-descent parser, the SQL predicate with its bound parameters,  *)
(* and, as the reference, what an expression tree means for a row.         *)
(*                                                                         *)
(* Text is a sequence of atoms, each a run of characters that no rule tells *)
(* apart; a token says whether it touches the one before it.  SQL is a flat *)
(* sequence of tokens, so that its precedence is part of the question.      *)
(***************************************************************************)
EXTENDS Integers, Sequences, FiniteSets, SequencesExt

CONSTANTS MaxNodes, MaxDepth, MaxInValues

ASSUME QueryAssumption == {MaxNodes, MaxDepth, MaxInValues} \subseteq Nat \ {0}

\* QUERYABLE_COLUMNS and FIELD_ALIASES, one or two of each kind.
Columns == {"level", "status_code", "message", "raw_message"}
NumericColumns == {"status_code"}
Numbers == [n \in {"4", "5"} |-> IF n = "4" THEN 4 ELSE 5]
Alias(name) == CASE name = "severity" -> "level"
                 [] name = "status"   -> "status_code"
                 [] OTHER             -> name

Null == <<"NULL">>

IsFieldName(text) == Len(text) = 1 /\ Alias(text[1]) \in Columns

-----------------------------------------------------------------------------
(* Tokens *)

Token(kind, text, glued) == [kind |-> kind, text |-> text, glued |-> glued]

\* Variant: every colon is an operator.
Merge_never(merged, rest) == merged \o rest

RECURSIVE Merge(_, _)
\* _merge_value_colons: a colon that touches a word which is no field name
\* belongs to that word, and so does the word that touches the colon.
Merge(merged, rest) ==
    IF rest = <<>> THEN merged ELSE
    LET token == Head(rest)
        isValueColon == /\ token.kind = "op" /\ token.text = <<":">> /\ token.glued
                        /\ merged # <<>> /\ Last(merged).kind = "word"
                        /\ ~ IsFieldName(Last(merged).text)
        joins == Len(rest) > 1 /\ rest[2].kind = "word" /\ rest[2].glued
        glue(t) == Append(Front(merged), [Last(merged) EXCEPT !.text = @ \o t])
    IN  CASE ~ isValueColon -> Merge(Append(merged, token), Tail(rest))
          [] isValueColon /\ joins ->
                Merge(glue(<<":">> \o rest[2].text), SubSeq(rest, 3, Len(rest)))
          [] OTHER -> Merge(glue(<<":">>), Tail(rest))

tokenize(tokens) == Merge(<<>>, tokens)

-----------------------------------------------------------------------------
(* The tree.  A leaf has the values as the user wrote them. *)

Leaf(column, op, values) == [type |-> "cmp", column |-> column, op |-> op, values |-> values]
FreeText(text) == [type |-> "text", text |-> text]
Not(child) == [type |-> "not", child |-> child]
BoolOp(op, children) == [type |-> "bool", op |-> op, children |-> children]

\* Where the parser is: the next token, the nodes so far, what it has built.
At(i, n, node) == [ok |-> TRUE, i |-> i, n |-> n, node |-> node]
SyntaxError == [ok |-> FALSE]

IsKeyword(ts, i, word) == i <= Len(ts) /\ ts[i].kind = "word" /\ ts[i].text = <<word>>
IsValue(ts, i) == i <= Len(ts) /\ ts[i].kind \in {"word", "quoted"}
IsKind(ts, i, kind) == i <= Len(ts) /\ ts[i].kind = kind

\* The values of a comparison that starts at i: a maximal list with commas.
ValuesEnd(ts, i) ==
    CHOOSE j \in i..Len(ts) :
        /\ \A k \in i..j : IF (k - i) % 2 = 0 THEN IsValue(ts, k) ELSE IsKind(ts, k, "comma")
        /\ (j - i) % 2 = 0
        /\ ~ IsKind(ts, j + 1, "comma")

HasValues(ts, i) ==
    \E j \in i..Len(ts) :
        /\ \A k \in i..j : IF (k - i) % 2 = 0 THEN IsValue(ts, k) ELSE IsKind(ts, k, "comma")
        /\ (j - i) % 2 = 0
        /\ ~ IsKind(ts, j + 1, "comma")
        /\ (j - i) \div 2 < MaxInValues

\* _coerce: a number where the column holds numbers.
Coercible(column, values) ==
    column \in NumericColumns =>
        \A v \in ToSet(values) : Len(v) = 1 /\ v[1] \in DOMAIN Numbers

\* build_comparison: a list is only for equality, and a star in a text column
\* makes a pattern match of whatever the operator was.
IsPattern(column, op, values) ==
    op = "~" \/ (Len(values) = 1 /\ Contains(values[1], "*") /\ column \notin NumericColumns)

BuildComparison(column, op, values) ==
    IF \/ Len(values) > 1 /\ op \notin {"=", "==", ":"}
       \/ ~ IsPattern(column, op, values) /\ ~ Coercible(column, values)
    THEN SyntaxError
    ELSE [ok |-> TRUE, node |->
            Leaf(column, IF IsPattern(column, op, values) THEN "~" ELSE op, values)]

\* _parse_comparison
ParseComparison(ts, i, n) ==
    IF n + 1 > MaxNodes THEN SyntaxError
    ELSE IF ~ IsKind(ts, i + 1, "op")
    THEN IF IsValue(ts, i) THEN At(i + 1, n + 1, FreeText(ts[i].text)) ELSE SyntaxError
    ELSE IF ~ IsFieldName(ts[i].text) \/ ~ HasValues(ts, i + 2) THEN SyntaxError
    ELSE LET last == ValuesEnd(ts, i + 2)
             values == [k \in 1..((last - i) \div 2) |-> ts[i + 2 * k].text]
             made == BuildComparison(Alias(ts[i].text[1]), ts[i + 1].text[1], values)
         IN  IF made.ok THEN At(last + 1, n + 1, made.node) ELSE SyntaxError

One(op, nodes) == IF Len(nodes) = 1 THEN nodes[1] ELSE BoolOp(op, nodes)

RECURSIVE ParseOr(_, _, _, _), OrRest(_, _, _, _), ParseAnd(_, _, _, _),
          AndRest(_, _, _, _), ParseTerm(_, _, _, _)

\* _parse_or; p is where the last operand ended.
ParseOr(ts, i, n, depth) ==
    IF depth > MaxDepth THEN SyntaxError
    ELSE OrRest(ts, ParseAnd(ts, i, n, depth), <<>>, depth)

OrRest(ts, p, nodes, depth) ==
    IF ~ p.ok THEN SyntaxError
    ELSE IF IsKeyword(ts, p.i, "OR")
    THEN OrRest(ts, ParseAnd(ts, p.i + 1, p.n, depth), Append(nodes, p.node), depth)
    ELSE At(p.i, p.n, One("OR", Append(nodes, p.node)))

\* _parse_and: terms that follow one another are ANDed, with or without the word.
ParseAnd(ts, i, n, depth) == AndRest(ts, ParseTerm(ts, i, n, depth), <<>>, depth)

AndRest(ts, p, nodes, depth) ==
    IF ~ p.ok THEN SyntaxError
    ELSE IF p.i > Len(ts) \/ IsKind(ts, p.i, "rparen") \/ IsKeyword(ts, p.i, "OR")
    THEN At(p.i, p.n, One("AND", Append(nodes, p.node)))
    ELSE LET next == IF IsKeyword(ts, p.i, "AND") THEN p.i + 1 ELSE p.i
         IN  AndRest(ts, ParseTerm(ts, next, p.n, depth), Append(nodes, p.node), depth)

\* _parse_term
ParseTerm(ts, i, n, depth) ==
    IF IsKeyword(ts, i, "NOT") \/ IsKeyword(ts, i, "-")
    THEN LET p == ParseTerm(ts, i + 1, n + 1, depth)
         IN  IF n + 1 > MaxNodes \/ ~ p.ok THEN SyntaxError ELSE At(p.i, p.n, Not(p.node))
    ELSE IF i > Len(ts) THEN SyntaxError
    ELSE IF IsKind(ts, i, "lparen")
    THEN LET p == ParseOr(ts, i + 1, n, depth + 1)
         IN  IF p.ok /\ IsKind(ts, p.i, "rparen") THEN At(p.i + 1, p.n, p.node)
             ELSE SyntaxError
    ELSE ParseComparison(ts, i, n)

\* QueryParser.parse, for a query that is not empty: no token may be left.
Parse(ts) ==
    LET p == ParseOr(ts, 1, 0, 0)
    IN  IF p.ok /\ p.i > Len(ts) THEN p ELSE SyntaxError

-----------------------------------------------------------------------------
(* SQL *)

Sql(t) == <<[t |-> t]>>
Paren(sql) == Sql("(") \o sql \o Sql(")")
Atom(column, op, n) == <<[t |-> "atom", column |-> column, op |-> op, n |-> n]>>
Compiled(sql, params) == [sql |-> sql, params |-> params]

SqlOperator(op) == CASE op \in {"=", "==", ":"} -> "="
                     [] op = "!="  -> "<>"
                     [] OTHER      -> op

\* _escape_like and _to_like_pattern
EscapeLike(text) == [i \in DOMAIN text |->
    CASE text[i] = "%" -> "\\%" [] text[i] = "_" -> "\\_" [] OTHER -> text[i]]
LikePattern(text) ==
    IF Contains(text, "*")
    THEN [i \in DOMAIN text |-> IF text[i] = "*" THEN "%" ELSE EscapeLike(text)[i]]
    ELSE <<"%">> \o EscapeLike(text) \o <<"%">>

\* Variant: operands are joined as they are.
Join_bare(op, parts) ==
    FoldLeft(LAMBDA acc, part : IF acc = <<>> THEN part
                                ELSE acc \o Sql(op) \o part, <<>>, parts)

Join(op, parts) ==
    FoldLeft(LAMBDA acc, part : IF acc = <<>> THEN Paren(part)
                                ELSE acc \o Sql(op) \o Paren(part), <<>>, parts)

RECURSIVE Compile(_)
\* Node.compile
Compile(node) ==
    CASE node.type = "cmp" ->
            IF Len(node.values) > 1
            THEN Compiled(Atom(node.column, "IN", Len(node.values)), node.values)
            ELSE IF node.op = "~"
            THEN Compiled(Atom(node.column, "LIKE", 1), <<LikePattern(node.values[1])>>)
            ELSE Compiled(Atom(node.column, SqlOperator(node.op), 1), node.values)
      [] node.type = "text" ->
            LET pattern == <<"%">> \o EscapeLike(node.text) \o <<"%">>
            IN  Compiled(Paren(Atom("message", "LIKE", 1) \o Sql("OR")
                               \o Atom("raw_message", "LIKE", 1)),
                         <<pattern, pattern>>)
      [] node.type = "not" ->
            LET c == Compile(node.child) IN Compiled(Sql("NOT") \o Paren(c.sql), c.params)
      [] node.type = "bool" ->
            LET cs == [i \in DOMAIN node.children |-> Compile(node.children[i])]
            IN  Compiled(Join(node.op, [i \in DOMAIN cs |-> cs[i].sql]),
                         FlattenSeq([i \in DOMAIN cs |-> cs[i].params]))

EmptyQuery == Compiled(<<>>, <<>>)

\* compile_query
CompileQuery(tokens) ==
    IF tokens = <<>> THEN [ok |-> TRUE, query |-> EmptyQuery]
    ELSE LET p == Parse(tokenize(tokens))
         IN  IF p.ok THEN [ok |-> TRUE, query |-> Compile(p.node)] ELSE SyntaxError

\* compile_filters: each filter is <<name, values>>; a name that is not a field
\* is a syntax error, also before no values; long lists are cut short.
CompileFilters(filters) ==
    LET active == SelectSeq(filters, LAMBDA f : f[2] # <<>>)
        made == [i \in DOMAIN active |->
            BuildComparison(Alias(active[i][1]), "=",
                SubSeq(active[i][2], 1, IF Len(active[i][2]) > MaxInValues
                                        THEN MaxInValues ELSE Len(active[i][2])))]
    IN  IF \/ \E i \in DOMAIN filters : ~ IsFieldName(<<filters[i][1]>>)
           \/ \E i \in DOMAIN active : ~ made[i].ok
        THEN SyntaxError
        ELSE IF active = <<>> THEN [ok |-> TRUE, query |-> EmptyQuery]
        ELSE [ok |-> TRUE, query |->
                Compile(One("AND", [i \in DOMAIN made |-> made[i].node]))]

\* combine
Combine(a, b) ==
    IF a.sql = <<>> THEN b ELSE IF b.sql = <<>> THEN a
    ELSE Compiled(Join("AND", <<a.sql, b.sql>>), a.params \o b.params)

-----------------------------------------------------------------------------
(* DuckDB: three-valued logic, NOT before AND before OR, and parameters bound *)
(* from left to right.                                                        *)

Truth(b) == IF b THEN "T" ELSE "F"
Not3(a) == CASE a = "T" -> "F" [] a = "F" -> "T" [] OTHER -> "N"
And3(a, b) == IF "F" \in {a, b} THEN "F" ELSE IF "N" \in {a, b} THEN "N" ELSE "T"
Or3(a, b) == Not3(And3(Not3(a), Not3(b)))

RECURSIVE Like(_, _)
Like(text, pattern) ==
    IF pattern = <<>> THEN text = <<>>
    ELSE IF Head(pattern) = "%"
    THEN \E k \in 0..Len(text) : Like(SubSeq(text, k + 1, Len(text)), Tail(pattern))
    ELSE /\ text # <<>>
         /\ \/ Head(pattern) = "_"
            \/ EscapeLike(<<Head(text)>>)[1] = Head(pattern)
         /\ Like(Tail(text), Tail(pattern))

Holds(op, v, params) ==
    IF v = Null THEN "N" ELSE
    CASE op = "IN"   -> Truth(v \in ToSet(params))
      [] op = "="    -> Truth(v = params[1])
      [] op = "<>"   -> Truth(v # params[1])
      [] op = ">="   -> Truth(Numbers[v[1]] >= Numbers[params[1][1]])
      [] op = "LIKE" -> Truth(Like(v, params[1]))

\* Where op stands outside all parentheses.
TopLevel(sql, op) ==
    LET count(t, i) == Cardinality({k \in 1..i : sql[k].t = t})
    IN  {i \in DOMAIN sql : sql[i].t = op /\ count("(", i) = count(")", i)}

Placeholders(sql) == FoldLeft(LAMBDA n, t : IF t.t = "atom" THEN n + t.n ELSE n, 0, sql)

RECURSIVE Evaluate(_, _, _)
Evaluate(sql, params, row) ==
    LET split(op, Con(_, _)) ==
            LET i == CHOOSE i \in TopLevel(sql, op) : TRUE
                n == Placeholders(SubSeq(sql, 1, i))
            IN  Con(Evaluate(SubSeq(sql, 1, i - 1), SubSeq(params, 1, n), row),
                    Evaluate(SubSeq(sql, i + 1, Len(sql)),
                             SubSeq(params, n + 1, Len(params)), row))
    IN  CASE sql = <<>> -> "T"
          [] TopLevel(sql, "OR") # {} -> split("OR", Or3)
          [] TopLevel(sql, "OR") = {} /\ TopLevel(sql, "AND") # {} -> split("AND", And3)
          [] OTHER ->
                CASE sql[1].t = "NOT" -> Not3(Evaluate(Tail(sql), params, row))
                  [] sql[1].t = "("   -> Evaluate(SubSeq(sql, 2, Len(sql) - 1), params, row)
                  [] OTHER -> Holds(sql[1].op, row[sql[1].column], params)

-----------------------------------------------------------------------------
(* Reference: what a tree means, and how it is written down with the fewest *)
(* parentheses.                                                             *)

HasText(text, part) == \E i \in 1..Len(text) : IsPrefix(part, SubSeq(text, i, Len(text)))

LeafMeaning(leaf, v) ==
    IF v = Null THEN "N"
    ELSE IF Len(leaf.values) = 1 /\ Contains(leaf.values[1], "*")
    THEN Truth(IsPrefix(Front(leaf.values[1]), v))
    ELSE CASE leaf.op = "~"  -> Truth(HasText(v, leaf.values[1]))
           [] leaf.op = "!=" -> Truth(v # leaf.values[1])
           [] leaf.op = ">=" -> Truth(Numbers[v[1]] >= Numbers[leaf.values[1][1]])
           [] OTHER          -> Truth(v \in ToSet(leaf.values))

RECURSIVE Meaning(_, _)
Meaning(node, row) ==
    CASE node.type = "cmp"  -> LeafMeaning(node, row[node.column])
      [] node.type = "text" -> Or3(Truth(HasText(row["message"], node.text)),
                                   Truth(HasText(row["raw_message"], node.text)))
      [] node.type = "not"  -> Not3(Meaning(node.child, row))
      [] node.type = "bool" ->
            FoldLeft(LAMBDA acc, c : IF node.op = "AND" THEN And3(acc, Meaning(c, row))
                                     ELSE Or3(acc, Meaning(c, row)),
                     IF node.op = "AND" THEN "T" ELSE "F", node.children)

\* A text: one word, or the words around its colons, or quoted.
Written(text) ==
    IF text[1] \in {"AND", "OR", "NOT", "-"} \union Columns
    THEN <<Token("quoted", text, FALSE)>>
    ELSE IF ~ Contains(text, ":") THEN <<Token("word", text, FALSE)>>
    ELSE [i \in DOMAIN text |-> Token(IF text[i] = ":" THEN "op" ELSE "word",
                                      <<text[i]>>, i > 1)]

RECURSIVE WriteIn(_, _, _)
\* "and": whether AND is spelled out.
WriteIn(node, within, and) ==
    LET body ==
        CASE node.type = "cmp" ->
                <<Token("word", <<node.column>>, FALSE), Token("op", <<node.op>>, TRUE)>>
                \o FoldLeft(LAMBDA acc, v :
                               IF acc = <<>> THEN Written(v)
                               ELSE acc \o <<Token("comma", <<",">>, TRUE)>> \o Written(v),
                            <<>>, node.values)
          [] node.type = "text" -> Written(node.text)
          [] node.type = "not" -> <<Token("word", <<"NOT">>, FALSE)>> \o WriteIn(node.child, "NOT", and)
          [] node.type = "bool" ->
                FoldLeft(LAMBDA acc, c :
                            IF acc = <<>> THEN WriteIn(c, node.op, and)
                            ELSE acc \o (IF node.op = "OR" \/ and THEN <<Token("word", <<node.op>>, FALSE)>>
                                         ELSE <<>>) \o WriteIn(c, node.op, and),
                         <<>>, node.children)
        closed == \/ node.type # "bool"
                  \/ within = "OR" \/ within = node.op \/ within = ""
    IN  IF closed THEN body
        ELSE <<Token("lparen", <<"(">>, FALSE)>> \o body \o <<Token("rparen", <<")">>, FALSE)>>

Write(tree, and) == WriteIn(tree, "", and)

\* How deep its parentheses are nested.
Nesting(tokens) ==
    LET count(kind, i) == Cardinality({k \in 1..i : tokens[k].kind = kind})
        depths == {count("lparen", i) - count("rparen", i) : i \in DOMAIN tokens}
    IN  CHOOSE d \in depths : \A e \in depths : e <= d

RECURSIVE Size(_)
\* The terms and negations that count against MaxNodes.
Size(node) ==
    CASE node.type = "not"  -> 1 + Size(node.child)
      [] node.type = "bool" -> FoldLeft(LAMBDA n, c : n + Size(c), 0, node.children)
      [] OTHER -> 1
=============================================================================

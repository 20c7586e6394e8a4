--------------------------- MODULE ExpressionParser ---------------------------
(***************************************************************************)
(* The parser of expressions (src/src/expression_parser.cpp) over the      *)
(* tokens the lexer hands it (src/src/lexer.cpp, LexScanner of lexer.h).    *)
(* A text is a sequence of lexemes; Scan is one round of the lexer's loop,  *)
(* Parse the recursive descent over what was scanned.  The parser keeps no  *)
(* state but the position in the tokens, so each of its functions is an     *)
(* operator from a position to an outcome: a tree and the position behind   *)
(* it, or an error and the token it names.                                  *)
(*                                                                         *)
(* A lexeme stands for a class: "a" is any name, "'s'" any string, "'if'"   *)
(* a string whose text is a keyword.  A position counts tokens, from 1; the *)
(* position after the last token is the scanner's end.                      *)
(***************************************************************************)
EXTENDS Naturals, SequencesExt

CONSTANTS
    Scripts,  \* what may be scanned: records [toks, max] of lexemes and a length
    Trees     \* expressions an author may mean, as the parser would build them

VARIABLES
    toks,     \* the lexemes of the block scanned so far, the last one "eof"
    meant,    \* the tree the author of the text meant, or NoTree
    result    \* what Parse answered, or NoResult

vars == <<toks, meant, result>>

-----------------------------------------------------------------------------
(* The lexer: the type of a token, and the keyword its text spells. A       *)
(* keyword is an identifier; the text of a string is looked up as well.     *)

Keywords == {"not", "and", "or", "in", "is", "if", "else"}
Strings == {"'s'", "'t'", "'if'", "'not'"}
Identifiers == {"a", "b"} \cup Keywords
Constants == {"1", "true"} \cup Strings

AsKeyword(tok) ==
    CASE tok \in Keywords -> tok
      [] tok = "'if'" -> "if"
      [] tok = "'not'" -> "not"
      [] OTHER -> "unknown"

\* LexScanner: at the end NextToken stays where it is, ReturnToken goes back.
TokenAt(s, i) == IF i > Len(s) THEN "end" ELSE s[i]
NextToken(s, i) == IF i > Len(s) THEN i ELSE i + 1
ReturnToken(i) == IF i = 1 THEN i ELSE i - 1

-----------------------------------------------------------------------------
(* Trees and outcomes.                                                      *)

NoTree == [k |-> "no tree"]
Name(n) == [k |-> "name", id |-> n]
Const(c) == [k |-> "const", id |-> c]
Unary(op, x) == [k |-> "unary", op |-> op, x |-> x]
Binary(op, l, r) == [k |-> "binary", op |-> op, l |-> l, r |-> r]
Is(x, name, params) == [k |-> "is", x |-> x, id |-> name, params |-> params]
Filtered(x, chain) == [k |-> "filtered", x |-> x, chain |-> chain]
Subscript(x, indexes) == [k |-> "subscript", x |-> x, xs |-> indexes]
Call(x, params) == [k |-> "call", x |-> x, params |-> params]
Tuple(xs) == [k |-> "tuple", xs |-> xs]
Dict(items) == [k |-> "dict", items |-> items]
Full(x, test, alt) == [k |-> "full", x |-> x, test |-> test, alt |-> alt]
Params(pos, kw) == [k |-> "params", xs |-> pos, items |-> kw]

NoResult == [ok |-> FALSE, code |-> "none", at |-> 0, pos |-> 0, lost |-> FALSE]

\* lost is a history flag: part of what was read is in no tree.
Ok(tree, pos, lost) == [ok |-> TRUE, tree |-> tree, pos |-> pos, lost |-> lost]
Error(code, at, pos) ==
    [ok |-> FALSE, code |-> code, at |-> at, pos |-> pos, lost |-> FALSE]

\* The two operands in one node, when the second one was parsed as well.
Joined(op, left, right) ==
    IF right.ok
    THEN Ok(Binary(op, left.tree, right.tree), right.pos, left.lost \/ right.lost)
    ELSE right

-----------------------------------------------------------------------------
RECURSIVE ParseFullExpression(_, _), ParseLogicalOr(_, _), ParseLogicalAnd(_, _),
          ParseLogicalCompare(_, _), ParseMathPow(_, _), MoreTerms(_, _), MoreFactors(_, _),
          BracedItems(_, _, _, _, _), TupleItems(_, _, _, _), DictItems(_, _, _, _),
          ParamItems(_, _, _, _, _), MoreIndexes(_, _, _, _, _), FilterChain(_, _, _, _)

\* '(' was read. A comma makes a tuple; any other token separates as well, and
\* without a comma only the first of the expressions is kept.
BracedItems(s, i, xs, isTuple, lost) ==
    LET expr == ParseFullExpression(s, i)
        items == Append(xs, expr.tree)
        tok == TokenAt(s, expr.pos)
        next == NextToken(s, expr.pos)
    IN  IF ~expr.ok THEN
            IF expr.at = i THEN Error("ExpectedRoundBracket", i, i) ELSE expr
        ELSE IF tok = ")" THEN
            IF isTuple THEN Ok(Tuple(items), next, lost \/ expr.lost)
            ELSE Ok(items[1], next, lost \/ expr.lost)
        ELSE BracedItems(s, next, items, isTuple \/ tok = ",",
                         lost \/ expr.lost \/ tok # ",")

ParseBracedExpressionOrTuple(s, i) == BracedItems(s, i, <<>>, FALSE, FALSE)

TupleItems(s, i, xs, lost) ==
    LET expr == ParseFullExpression(s, i)
        items == Append(xs, expr.tree)
        dropped == lost \/ expr.lost
    IN  IF ~expr.ok THEN expr
        ELSE IF TokenAt(s, expr.pos) = "," THEN TupleItems(s, expr.pos + 1, items, dropped)
        ELSE IF TokenAt(s, expr.pos) = "]" THEN Ok(Tuple(items), expr.pos + 1, dropped)
        ELSE Error("ExpectedSquareBracket", expr.pos, NextToken(s, expr.pos))

ParseTuple(s, i) ==
    IF TokenAt(s, i) = "]" THEN Ok(Tuple(<<>>), i + 1, FALSE)
    ELSE TupleItems(s, i, <<>>, FALSE)

\* Of two values of one key the last one stays.
DictItems(s, i, items, lost) ==
    LET key == TokenAt(s, i)
        expr == ParseFullExpression(s, i + 2)
        all == (key :> expr.tree) @@ items
        dropped == lost \/ expr.lost \/ key \in DOMAIN items
    IN  IF key \notin Strings THEN Error("ExpectedStringLiteral", i, NextToken(s, i))
        ELSE IF TokenAt(s, i + 1) # "=" THEN Error("ExpectedToken", i + 1, i + 1)
        ELSE IF ~expr.ok THEN
            IF expr.at = i + 2 THEN Error("ExpectedExpression", i + 2, i + 2) ELSE expr
        ELSE IF TokenAt(s, expr.pos) = "," THEN DictItems(s, expr.pos + 1, all, dropped)
        ELSE IF TokenAt(s, expr.pos) = "}" THEN Ok(Dict(all), expr.pos + 1, dropped)
        ELSE Error("ExpectedCurlyBracket", expr.pos, NextToken(s, expr.pos))

ParseDictionary(s, i) ==
    IF TokenAt(s, i) = "}" THEN Ok(Dict(<<>>), i + 1, FALSE)
    ELSE DictItems(s, i, <<>>, FALSE)

ParamItems(s, i, pos, kw, lost) ==
    LET tok == TokenAt(s, i)
        named == tok \in Identifiers /\ TokenAt(s, i + 1) = "="
        expr == ParseFullExpression(s, IF named THEN i + 2 ELSE i)
        pos2 == IF named THEN pos ELSE Append(pos, expr.tree)
        kw2 == IF named THEN (tok :> expr.tree) @@ kw ELSE kw
        dropped == lost \/ expr.lost \/ (named /\ tok \in DOMAIN kw)
    IN  IF ~expr.ok THEN expr
        ELSE IF TokenAt(s, expr.pos) = "," THEN ParamItems(s, expr.pos + 1, pos2, kw2, dropped)
        ELSE IF TokenAt(s, expr.pos) = ")" THEN Ok(Params(pos2, kw2), expr.pos + 1, dropped)
        ELSE Error("ExpectedRoundBracket", expr.pos, NextToken(s, expr.pos))

\* '(' was read.
ParseCallParams(s, i) ==
    IF TokenAt(s, i) = ")" THEN Ok(Params(<<>>, <<>>), i + 1, FALSE)
    ELSE ParamItems(s, i, <<>>, <<>>, FALSE)

\* The parameters behind a name, when a bracket opens there.
OptionalParams(s, i) ==
    IF TokenAt(s, i) = "(" THEN ParseCallParams(s, i + 1)
    ELSE Ok(Params(<<>>, <<>>), i, FALSE)

ParseCall(s, left, i) ==
    LET params == ParseCallParams(s, i)
    IN  IF params.ok
        THEN Ok(Call(left.tree, params.tree), params.pos, left.lost \/ params.lost)
        ELSE params

MoreIndexes(s, i, x, indexes, lost) ==
    LET expr == ParseFullExpression(s, i + 1)
    IN  CASE TokenAt(s, i) = "." ->
                IF TokenAt(s, i + 1) \in Identifiers
                THEN MoreIndexes(s, i + 2, x, Append(indexes, Const(TokenAt(s, i + 1))), lost)
                ELSE Error("ExpectedIdentifier", i + 1, NextToken(s, i + 1))
          [] TokenAt(s, i) = "[" ->
                IF ~expr.ok THEN [expr EXCEPT !.pos = i + 1]
                ELSE IF TokenAt(s, expr.pos) # "]"
                THEN Error("ExpectedSquareBracket", expr.pos, expr.pos)
                ELSE MoreIndexes(s, expr.pos + 1, x, Append(indexes, expr.tree),
                                 lost \/ expr.lost)
          [] OTHER -> Ok(Subscript(x, indexes), i, lost)

ParseSubscript(s, left) == MoreIndexes(s, left.pos, left.tree, <<>>, left.lost)

\* A bracket is looked for behind a subscript that failed too, and the value of
\* the failure is called: undefined.
CallBehind(s, sub) ==
    IF TokenAt(s, sub.pos) # "(" THEN sub
    ELSE IF sub.ok THEN ParseCall(s, sub, sub.pos + 1)
    ELSE Error("undefined", sub.pos, sub.pos)

\* What follows a value.
Postfixed(s, value) ==
    IF ~value.ok THEN value
    ELSE CallBehind(s, IF TokenAt(s, value.pos) \in {"[", "."} THEN ParseSubscript(s, value)
                       ELSE value)

ParseValueExpression(s, i) ==
    LET tok == TokenAt(s, i)
        next == NextToken(s, i)
    IN  IF tok \in Constants THEN Ok(Const(tok), next, FALSE)
        ELSE Postfixed(s,
            CASE tok \in Identifiers /\ AsKeyword(tok) \notin {"is", "in", "if", "else"} ->
                    Ok(Name(tok), next, FALSE)
              [] tok = "(" -> ParseBracedExpressionOrTuple(s, next)
              [] tok = "[" -> ParseTuple(s, next)
              [] tok = "{" -> ParseDictionary(s, next)
              [] OTHER -> Error("UnexpectedToken", i, next))

\* Mutant of FilterChain: the filter before is not made the parent of the next one.
OnlyTheLastFilter(s, i, chain, lost) ==
    LET params == OptionalParams(s, i + 1)
        filters == <<[id |-> TokenAt(s, i), params |-> params.tree]>>
    IN  IF TokenAt(s, i) \notin Identifiers
        THEN Error("ExpectedIdentifier", i, NextToken(s, i))
        ELSE IF ~params.ok THEN params
        ELSE IF TokenAt(s, params.pos) = "|"
        THEN FilterChain(s, params.pos + 1, filters, lost \/ params.lost)
        ELSE Ok(filters, params.pos, lost \/ params.lost)

\* '|' was read.
FilterChain(s, i, chain, lost) ==
    LET params == OptionalParams(s, i + 1)
        filters == Append(chain, [id |-> TokenAt(s, i), params |-> params.tree])
    IN  IF TokenAt(s, i) \notin Identifiers THEN Error("ExpectedIdentifier", i, NextToken(s, i))
        ELSE IF ~params.ok THEN params
        ELSE IF TokenAt(s, params.pos) = "|"
        THEN FilterChain(s, params.pos + 1, filters, lost \/ params.lost)
        ELSE Ok(filters, params.pos, lost \/ params.lost)

ParseFilterExpression(s, i) == FilterChain(s, i, <<>>, FALSE)

WithFilters(value, sub, filter) ==
    IF filter.ok THEN Ok(Filtered(value, filter.tree), filter.pos, sub.lost \/ filter.lost)
    ELSE filter

FiltersBehind(s, value, sub) ==
    IF ~sub.ok THEN sub
    ELSE IF TokenAt(s, sub.pos) # "|" THEN Ok(value, sub.pos, sub.lost)
    ELSE WithFilters(value, sub, ParseFilterExpression(s, sub.pos + 1))

SignedAndFiltered(s, tok, isUnary, sub) ==
    FiltersBehind(s, IF ~isUnary THEN sub.tree
                     ELSE Unary(IF tok \in {"+", "-"} THEN tok ELSE "not", sub.tree), sub)

\* One sign at most. The filters apply to the value with its sign.
ParseUnaryPlusMinus(s, i) ==
    LET tok == TokenAt(s, i)
        isUnary == tok \in {"+", "-"} \/ AsKeyword(tok) = "not"
    IN  SignedAndFiltered(s, tok, isUnary,
            ParseValueExpression(s, IF isUnary THEN i + 1 ELSE ReturnToken(NextToken(s, i))))

MoreFactors(s, left) ==
    IF left.ok /\ TokenAt(s, left.pos) \in {"*", "/", "//", "%"}
    THEN MoreFactors(s, Joined(TokenAt(s, left.pos), left, ParseUnaryPlusMinus(s, left.pos + 1)))
    ELSE left

ParseMathMulDiv(s, i) == MoreFactors(s, ParseUnaryPlusMinus(s, i))

MoreTerms(s, left) ==
    IF left.ok /\ TokenAt(s, left.pos) \in {"+", "-"}
    THEN MoreTerms(s, Joined(TokenAt(s, left.pos), left, ParseMathMulDiv(s, left.pos + 1)))
    ELSE left

ParseMathPlusMinus(s, i) == MoreTerms(s, ParseMathMulDiv(s, i))

\* Mutant of PowBehind: a chain of powers is grouped from the left.
PowFromTheLeft(s, left) ==
    IF left.ok /\ TokenAt(s, left.pos) = "**"
    THEN Joined("**", left, ParseMathPlusMinus(s, left.pos + 1))
    ELSE left

PowBehind(s, left) ==
    IF left.ok /\ TokenAt(s, left.pos) = "**"
    THEN Joined("**", left, ParseMathPow(s, left.pos + 1))
    ELSE left

ParseMathPow(s, i) == PowBehind(s, ParseMathPlusMinus(s, i))

\* Mutant of ConcatBehind: the right operand ends before a comparison.
ConcatPow(s, left) ==
    IF left.ok /\ TokenAt(s, left.pos) = "~"
    THEN Joined("~", left, ParseMathPow(s, left.pos + 1))
    ELSE left

ConcatBehind(s, left) ==
    IF left.ok /\ TokenAt(s, left.pos) = "~"
    THEN Joined("~", left, ParseLogicalAnd(s, left.pos + 1))
    ELSE left

ParseStringConcat(s, i) == ConcatBehind(s, ParseMathPow(s, i))

\* Mutant of ParseTester: the error names 'is', not the token that is no name.
TesterAtFault(s, left, i) ==
    LET params == OptionalParams(s, i + 1)
    IN  IF TokenAt(s, i) \notin Identifiers
        THEN Error("ExpectedIdentifier", i - 1, NextToken(s, i))
        ELSE IF ~params.ok THEN params
        ELSE Ok(Is(left.tree, TokenAt(s, i), params.tree), params.pos,
                left.lost \/ params.lost)

\* 'is' was read.
ParseTester(s, left, i) ==
    LET params == OptionalParams(s, i + 1)
    IN  IF TokenAt(s, i) \notin Identifiers THEN Error("ExpectedIdentifier", i, NextToken(s, i))
        ELSE IF ~params.ok THEN params
        ELSE Ok(Is(left.tree, TokenAt(s, i), params.tree), params.pos,
                left.lost \/ params.lost)

CompareBehind(s, left) ==
    LET tok == TokenAt(s, left.pos)
        op == IF AsKeyword(tok) = "in" THEN "in" ELSE tok
    IN  IF ~left.ok THEN left
        ELSE IF op \in {"==", "!=", "<", ">", "<=", ">=", "in"}
        THEN Joined(op, left, ParseStringConcat(s, left.pos + 1))
        ELSE IF AsKeyword(tok) = "is" THEN ParseTester(s, left, left.pos + 1)
        ELSE left

ParseLogicalCompare(s, i) == CompareBehind(s, ParseStringConcat(s, i))

AndBehind(s, left) ==
    IF left.ok /\ AsKeyword(TokenAt(s, left.pos)) = "and"
    THEN Joined("and", left, ParseLogicalAnd(s, left.pos + 1))
    ELSE left

ParseLogicalAnd(s, i) == AndBehind(s, ParseLogicalCompare(s, i))

OrBehind(s, left) ==
    IF left.ok /\ AsKeyword(TokenAt(s, left.pos)) = "or"
    THEN Joined("or", left, ParseLogicalOr(s, left.pos + 1))
    ELSE left

ParseLogicalOr(s, i) == OrBehind(s, ParseLogicalAnd(s, i))

\* The other value behind 'else', when there is one.
ElseBehind(s, value, test) ==
    LET alt == ParseFullExpression(s, test.pos + 1)
    IN  IF ~test.ok THEN test
        ELSE IF AsKeyword(TokenAt(s, test.pos)) # "else"
        THEN Ok(Full(value.tree, test.tree, NoTree), test.pos, value.lost \/ test.lost)
        ELSE IF ~alt.ok THEN alt
        ELSE Ok(Full(value.tree, test.tree, alt.tree), alt.pos,
                value.lost \/ test.lost \/ alt.lost)

\* 'if' was read.
ParseIfExpression(s, value, i) == ElseBehind(s, value, ParseLogicalOr(s, i))

IfBehind(s, value) ==
    IF ~value.ok THEN value
    ELSE IF AsKeyword(TokenAt(s, value.pos)) = "if"
    THEN ParseIfExpression(s, value, value.pos + 1)
    ELSE Ok(Full(value.tree, NoTree, NoTree), value.pos, value.lost)

ParseFullExpression(s, i) == IfBehind(s, ParseLogicalOr(s, i))

WholeExpression(s, expr) ==
    IF expr.ok /\ TokenAt(s, expr.pos) # "eof"
    THEN Error("ExpectedToken", expr.pos, NextToken(s, expr.pos))
    ELSE expr

\* The whole of Parse over the tokens of a block; a text the tokenizer refuses
\* is refused at its start.
Parsed(text) ==
    LET s == Append(text, "eof")
    IN  IF "?" \in Range(text) THEN Error("Unspecified", 1, 1)
        ELSE WholeExpression(s, ParseFullExpression(s, 1))

-----------------------------------------------------------------------------
(* The grammar apart from the way it is parsed: what a tree is written as,  *)
(* without its priorities, and which trees the priorities allow.  Yields is *)
(* a set, since a tuple has two kinds of brackets and named items any order.*)

Cat(A, B) == {a \o b : a \in A, b \in B}
Bracketed(open, texts, close) == Cat({<<open>>}, Cat(texts, {<<close>>}))

\* The texts of items, each given by its texts, with commas between them.
RECURSIVE Listed(_)
Listed(texts) ==
    CASE Len(texts) = 0 -> {<<>>}
      [] Len(texts) = 1 -> texts[1]
      [] OTHER -> Cat(texts[1], Cat({<<",">>}, Listed(Tail(texts))))

RECURSIVE Yields(_)

YieldsOfItems(xs, items) ==
    UNION {Listed([i \in DOMAIN xs |-> Yields(xs[i])]
                  \o [i \in DOMAIN keys |-> Cat({<<keys[i], "=">>}, Yields(items[keys[i]]))])
           : keys \in SetToSeqs(DOMAIN items)}

\* Empty brackets behind the name of a filter or a tester may be left out.
YieldsOfNamed(id, params) ==
    LET texts == Cat({<<id>>}, Bracketed("(", YieldsOfItems(params.xs, params.items), ")"))
    IN  IF params.xs = <<>> /\ DOMAIN params.items = {} THEN texts \cup {<<id>>}
        ELSE texts

Operand(t) == IF t.k = "full" THEN Bracketed("(", Yields(t), ")") ELSE Yields(t)

YieldsOfIndex(t) ==
    IF t.k = "const" THEN {<<".", t.id>>} ELSE Bracketed("[", Yields(t), "]")

Yields(t) ==
    CASE t.k \in {"name", "const"} -> {<<t.id>>}
      [] t.k = "unary" -> Cat({<<t.op>>}, Operand(t.x))
      [] t.k = "binary" -> Cat(Operand(t.l), Cat({<<t.op>>}, Operand(t.r)))
      [] t.k = "is" -> Cat(Operand(t.x), Cat({<<"is">>}, YieldsOfNamed(t.id, t.params)))
      [] t.k = "filtered" ->
            FoldLeft(LAMBDA texts, f : Cat(texts, Cat({<<"|">>}, YieldsOfNamed(f.id, f.params))),
                     Operand(t.x), t.chain)
      [] t.k = "subscript" ->
            FoldLeft(LAMBDA texts, x : Cat(texts, YieldsOfIndex(x)), Operand(t.x), t.xs)
      [] t.k = "call" ->
            Cat(Operand(t.x), Bracketed("(", YieldsOfItems(t.params.xs, t.params.items), ")"))
      [] t.k = "tuple" ->
            LET texts == YieldsOfItems(t.xs, <<>>)
            IN  Bracketed("[", texts, "]")
                \cup IF Len(t.xs) > 1 THEN Bracketed("(", texts, ")") ELSE {}
      [] t.k = "dict" -> Bracketed("{", YieldsOfItems(<<>>, t.items), "}")
      [] t.k = "full" ->
            LET test == IF t.test = NoTree THEN {<<>>} ELSE Cat({<<"if">>}, Operand(t.test))
                alt == IF t.alt = NoTree THEN {<<>>} ELSE Cat({<<"else">>}, Yields(t.alt))
            IN  Cat(Operand(t.x), Cat(test, alt))

\* The priorities: operands of a node are of its level or of a higher one.
LevelOf(op) ==
    CASE op = "or" -> 1
      [] op = "and" -> 2
      [] op \in {"==", "!=", "<", ">", "<=", ">=", "in"} -> 3
      [] op = "~" -> 4
      [] op = "**" -> 5
      [] op \in {"+", "-"} -> 6
      [] op \in {"*", "/", "//", "%"} -> 7

Level(t) ==
    CASE t.k = "binary" -> LevelOf(t.op)
      [] t.k = "is" -> 3
      [] t.k = "filtered" -> 8
      [] t.k = "unary" -> 9
      [] OTHER -> 10

\* '~' takes all that follows down to an 'and'. So a tree that ends in one takes
\* an 'and' behind it, and a comparison unless its last part has one already.
RECURSIVE TakesAnd(_), TakesCompare(_), LastOfAnd(_)
LastOfAnd(t) == IF t.k = "binary" /\ t.op = "and" THEN LastOfAnd(t.r) ELSE t
TakesAnd(t) ==
    t.k = "binary" /\ \/ t.op = "~"
                      \/ Level(t) = 3 /\ TakesAnd(t.r)
TakesCompare(t) ==
    t.k = "binary" /\ \/ /\ t.op = "~"
                         /\ LET last == LastOfAnd(t.r)
                            IN  Level(last) > 3 \/ TakesCompare(last)
                      \/ Level(t) = 3 /\ TakesCompare(t.r)

\* Powers, 'and' and 'or' group from the right, the other operators from the
\* left; comparisons do not chain, nor do signs; a constant is no base of a
\* subscript or a call.
RightKind(t) ==
    CASE t.k = "binary" ->
            LET level == Level(t)
            IN  /\ Level(t.l) >= IF level \in {6, 7} THEN level ELSE level + 1
                /\ Level(t.r) >= CASE level \in {1, 2, 5} -> level
                                   [] level = 4 -> 2
                                   [] OTHER -> level + 1
                /\ level = 2 => ~TakesAnd(t.l)
                /\ level = 3 => ~TakesCompare(t.l)
      [] t.k = "is" -> Level(t.x) >= 4 /\ ~TakesCompare(t.x)
      [] t.k = "filtered" -> Level(t.x) >= 9 /\ t.chain # <<>>
      [] t.k = "unary" -> Level(t.x) = 10
      [] t.k = "subscript" -> t.x.k \in {"name", "full", "tuple", "dict"} /\ t.xs # <<>>
      [] t.k = "call" -> t.x.k \in {"name", "full", "tuple", "dict", "subscript"}
      [] t.k = "full" -> t.alt # NoTree => t.test # NoTree
      [] OTHER -> TRUE

SubTreesOfItems(p) == Range(p.xs) \cup {p.items[key] : key \in DOMAIN p.items}
Children(t) ==
    CASE t.k = "binary" -> {t.l, t.r}
      [] t.k = "unary" -> {t.x}
      [] t.k = "is" -> {t.x} \cup SubTreesOfItems(t.params)
      [] t.k = "filtered" -> {t.x} \cup UNION {SubTreesOfItems(f.params) : f \in Range(t.chain)}
      [] t.k = "subscript" -> {t.x} \cup Range(t.xs)
      [] t.k = "call" -> {t.x} \cup SubTreesOfItems(t.params)
      [] t.k = "tuple" -> Range(t.xs)
      [] t.k = "dict" -> {t.items[key] : key \in DOMAIN t.items}
      [] t.k = "full" -> {t.x, t.test, t.alt} \ {NoTree}
      [] OTHER -> {}

RECURSIVE WellShaped(_)
WellShaped(t) == RightKind(t) /\ \A child \in Children(t) : WellShaped(child)

-----------------------------------------------------------------------------
(* The system: the lexer's loop, or an author who writes down an expression *)
(* of the set Trees, and then the parser.                                   *)

Init ==
    /\ toks = <<>>
    /\ meant = NoTree
    /\ result = NoResult

\* One round of Lexer::Preprocess.
Scan(tok) ==
    /\ result = NoResult /\ meant = NoTree
    /\ \E script \in Scripts :
          /\ Len(toks) < script.max
          /\ Range(toks) \cup {tok} \subseteq script.toks
    /\ toks' = Append(toks, tok)
    /\ UNCHANGED <<meant, result>>

Write ==
    /\ toks = <<>> /\ meant = NoTree /\ result = NoResult
    /\ \E tree \in Trees : meant' = tree /\ toks' \in Yields(tree)
    /\ UNCHANGED result

Parse ==
    /\ result = NoResult
    /\ result' = Parsed(toks)
    /\ UNCHANGED <<toks, meant>>

Next ==
    \/ \E tok \in UNION {script.toks : script \in Scripts} : Scan(tok)
    \/ Write
    \/ Parse

Spec == Init /\ [][Next]_vars

-----------------------------------------------------------------------------
(* Properties.                                                              *)

\* The texts of a set, strings that spell a keyword read as that keyword.
Plain(text) ==
    [i \in DOMAIN text |->
        IF AsKeyword(text[i]) = "unknown" THEN text[i] ELSE AsKeyword(text[i])]

\* Nothing of an accepted text is lost: the tree, written down, is the text
\* again. Known losses are left out: what a separator other than a comma divides
\* in round brackets, and all but the last of several values of one key
\* (expression_parser.cpp:366, :416, :498).
NothingLost ==
    result.ok /\ ~result.lost => Plain(toks) \in {Plain(text) : text \in Yields(result.tree)}

\* A tree has the shape the priorities ask for: every operator binds the operands
\* it should, and no operand is left to an operator further out. With NothingLost
\* this makes the answer the one tree of the text.
BoundByPriority == result.ok => WellShaped(result.tree)

\* Every expression of the grammar is accepted, and is read as it was meant.
ReadAsMeant ==
    meant # NoTree /\ result # NoResult => result.ok /\ result.tree = meant

\* The brackets a text leaves open, innermost first. Some of them may have been
\* read as separators: any subsequence of them may be what closes the text.
Open(text) ==
    FoldLeft(LAMBDA open, tok :
                CASE tok = "(" -> <<")">> \o open
                  [] tok = "[" -> <<"]">> \o open
                  [] tok = "{" -> <<"}">> \o open
                  [] tok \in {")", "]", "}"} /\ open # <<>> /\ Head(open) = tok -> Tail(open)
                  [] OTHER -> open,
             <<>>, text)
Closings(text) ==
    FoldLeft(LAMBDA some, close : some \cup {Append(c, close) : c \in some}, {<<>>}, Open(text))

\* Nothing, a value, an item of a dictionary or a value of a name ends a text.
Endings == {<<>>, <<"a">>, <<"'s'", "=", "a">>, <<"=", "a">>}
IsEndedBy(text, ending, closing) == Parsed(text \o ending \o closing).ok

\* An error names the token at fault: what stands before it can be completed to an
\* expression, and what ends with it cannot (a keyword is at fault where only '='
\* would make it a parameter's name). The texts the tokenizer refuses as a whole
\* are left out; and a text has no answer at all only where '(' follows a subscript
\* that failed.
ErrorIsAtFault ==
    /\ result # NoResult /\ ~result.ok /\ result.code \notin {"undefined", "Unspecified"} =>
           LET before == SubSeq(toks, 1, result.at - 1)
               through == SubSeq(toks, 1, result.at)
           IN  /\ \/ \E ending \in Endings : IsEndedBy(before, ending, Open(before))
                  \/ \E ending \in Endings, closing \in Closings(before) :
                        IsEndedBy(before, ending, closing)
               /\ result.at <= Len(toks) =>
                    \A ending \in Endings \ {<<"=", "a">>} :
                       ~IsEndedBy(through, ending, Open(through))
    /\ result # NoResult /\ ~result.ok /\ result.code = "undefined" =>
           /\ toks[result.at] = "("
           /\ \E i \in 1..(result.at - 1) : toks[i] \in {"[", "."}
=============================================================================

-------------------------- MODULE MCExpressionParser --------------------------
(* ExpressionParser on all short texts over its lexemes, on longer texts    *)
(* over the lexemes of one part of the grammar, and on a set of expressions *)
(* that were written down.                                                  *)
EXTENDS ExpressionParser

Script(set, max) == [toks |-> set, max |-> max]

AllLexemes ==
    {"a", "1", "'s'", "'if'", "'not'", "none", "?", "not", "and", "or", "in", "is", "if",
     "else", "+", "-", "*", "**", "~", "==", "|", "(", ")", "[", "]", "{", "}", ",", ".", "="}

MCScripts ==
    {Script(AllLexemes, 3),
     Script({"a", "~", "==", "and"}, 7),
     Script({"a", "-", "*", "**"}, 6),
     Script({"a", "not", "or", "and", "is"}, 5),
     Script({"a", "if", "else", "(", ")"}, 6),
     Script({"a", "(", ")", "[", "]", "."}, 5),
     Script({"a", "(", ")", ",", "="}, 6),
     Script({"a", "|", "(", ")", "-"}, 6),
     Script({"'s'", "{", "}", ",", "=", "1"}, 6)}

Leaves == {Name("a"), Const("1")}
NoParams == Params(<<>>, <<>>)
Bare(x) == Full(x, NoTree, NoTree)
SomeParams(S) ==
    {NoParams} \cup {Params(<<Bare(x)>>, <<>>) : x \in S}
    \cup {Params(<<Bare(x)>>, ("b" :> Bare(y)) @@ ("a" :> Bare(x))) : x \in S, y \in S}

Over(S) ==
    S \cup {Bare(x) : x \in S}
    \cup {Unary(op, x) : op \in {"-", "not"}, x \in S}
    \cup {Binary(op, x, y) : op \in {"or", "and", "==", "~", "**", "-", "*"}, x \in S, y \in S}
    \cup {Is(x, "a", p) : x \in S, p \in {NoParams}}

Shaped(S) == {Bare(t) : t \in {u \in S : WellShaped(u)}}

Structures ==
    LET a == Name("a")
        S == {a, Bare(Unary("-", Const("1")))}
        P == SomeParams({a, Const("1")})
    IN  {Is(a, "b", p) : p \in P}
        \cup {Call(x, p) : x \in S, p \in P}
        \cup {Filtered(x, <<[id |-> "b", params |-> p]>>) : x \in S \cup {Unary("-", a)}, p \in P}
        \cup {Filtered(a, <<[id |-> "a", params |-> p], [id |-> "b", params |-> NoParams]>>) : p \in P}
        \cup {Subscript(x, <<Const("b"), Bare(a)>>) : x \in S}
        \cup {Call(Subscript(a, <<Bare(x)>>), NoParams) : x \in S}
        \cup {Tuple(<<>>), Tuple(<<Bare(a)>>), Tuple(<<Bare(a), Bare(Const("1")), Bare(a)>>), Dict(<<>>)}
        \cup {Dict(("'s'" :> Bare(x)) @@ ("'t'" :> Bare(a))) : x \in S \ {Bare(Unary("-", Const("1")))}}

MCTrees ==
    Shaped(Over(Over(Leaves)) \cup Structures)
    \cup {Full(x, test, alt) :
             x \in {Name("a")}, test \in {Binary("or", Name("a"), Name("a"))},
             alt \in {NoTree, Bare(Name("a")), Full(Name("a"), Name("b"), Bare(Name("a")))}}
=============================================================================

----------------------------- MODULE MCEvaluator ------------------------------
(* Evaluator on values of every kind: numbers around zero and around halves, *)
(* strings that differ in case and blanks, lists of one kind and of several,  *)
(* of pairs and of maps, in the three forms.                                  *)
EXTENDS Evaluator

T(s) == View(s)
Ab == <<"A", "b">>
Name1 == <<"a">>
Name2 == <<"b">>

Record1(x, y) == MapOf((Name1 :> x) @@ (Name2 :> y))
Walked(s, form) == [kind |-> "list", form |-> form, v |-> s]

Half(n) == Double(n, 2)
Numbers == {Integer(n) : n \in {-3, 0, 2}} \cup {Half(-3), Half(5), Double(7, 4), Double(0, 1), Double(2, 1), Double(41, 16)}
Texts ==
    {<<>>, <<"a">>, Ab, <<"a", "B">>, <<" ", "a", " ", " ", "b", "-", "A", " ">>,
     <<"<", "b", ">", "a", "&", "'", "<", "/", "b", ">">>, <<"<", "!", "-", "-", ">", "-", "-", ">", "a">>,
     <<"a", "b", "g", " ", "l", "m", " ", " ", "p">>, <<"a", "b", "g", "l", "m", "-", "s">>,
     <<"-", "1", "9">>, <<"1", ".", "4">>, <<" ", "+", "2">>, <<"1", "a">>,
     <<"&", "a", "m", "p", ";", "l", "t", ";">>}

NumberLists == {<<>>, <<Integer(2)>>, <<Integer(3), Half(-1), Integer(1)>>, <<Integer(2), Half(4), Integer(2), Integer(1)>>,
                <<Half(4), Double(33, 16), Double(17, 8)>>}
TextLists ==
    {<<T(<<"b">>), T(<<"A">>), T(<<"a">>)>>, <<T(Ab), T(<<"a", "B">>), T(<<"a">>), T(<<"B">>)>>}
MixedLists ==
    {<<Integer(2), T(<<"a">>), Integer(1)>>, <<Empty, Bool(TRUE), Bool(FALSE)>>, <<Bool(TRUE), Bool(FALSE)>>,
     <<Items(<<Integer(1)>>), Items(<<Integer(1)>>)>>,
     <<Pair(Name1, Integer(1)), Pair(Name2, Integer(1)), Pair(Name1, Integer(1))>>,
     <<Record1(Integer(2), T(<<"b">>)), Record1(Integer(1), T(<<"B">>)), Record1(Integer(2), T(<<"a">>))>>}

MCInputs ==
    Numbers \cup {Bool(TRUE), Bool(FALSE), Empty, Pair(Name1, Integer(2))}
    \cup {View(s) : s \in Texts} \cup {Str(Ab), Str(<<>>)}
    \cup {Items(s) : s \in NumberLists \cup TextLists \cup MixedLists}
    \cup {Walked(s, form) : s \in NumberLists \cup {<<T(<<"b">>), T(<<"A">>)>>}, form \in {"forward", "generator"}}
    \cup {Record1(Integer(2), Integer(1)), Record1(T(<<"b">>), T(<<"A">>)), MapOf(<<>>)}

MCOperands ==
    {Integer(-2), Integer(0), Integer(1), Half(5), Bool(TRUE), Empty, Str(<<"a">>), Str(<<"B">>), View(<<"a", "b">>),
     Items(<<Integer(1), Half(5), View(Ab)>>), Pair(Name1, Integer(1)), Record1(Integer(1), Empty)}

Call(name, args) == [name |-> name, args |-> args]
Yes == Bool(TRUE)
Attribute1 == [attribute |-> Str(Name1)]
Plain == {"sort", "join", "first", "last", "length", "random", "max", "min", "reverse", "sum", "unique", "list",
          "dictsort", "abs", "int", "float", "round", "trim", "title", "wordcount", "upper", "lower", "capitalize",
          "escape", "striptags", "urlencode", "camelize", "default", "select", "reject"}

MCCalls ==
    {Call(name, <<>>) : name \in Plain}
    \cup {Call(name, Attribute1) : name \in {"sort", "join", "max", "min", "sum", "unique", "groupby", "select", "reject"}}
    \cup {Call("sort", [reverse |-> Yes]), Call("sort", [case_sensitive |-> Yes]), Call("join", [d |-> Str(<<"-">>)]),
          Call("max", [case_sensitive |-> Yes]), Call("sum", [start |-> Integer(1)]),
          Call("dictsort", [by |-> Str(ValueName)]), Call("dictsort", [reverse |-> Yes, case_sensitive |-> Yes]),
          Call("dictsort", [by |-> Str(<<"a">>)]), Call("default", [default_value |-> Integer(1), boolean |-> Yes]),
          Call("attr", [name |-> Str(Name1)]), Call("attr", [name |-> Integer(0), default |-> Integer(9)]),
          Call("map", [filter |-> "attr", params |-> [name |-> Str(Name1)]]),
          Call("map", [filter |-> "upper", params |-> <<>>]), Call("map", [filter |-> "list", params |-> <<>>]),
          Call("select", [tester |-> "gt", arg |-> Integer(1)]), Call("reject", [tester |-> "odd"]),
          Call("reject", [attribute |-> Str(Name1), tester |-> "eq", arg |-> Integer(2)]),
          Call("applymacro", [macro |-> Str(Name1), args |-> <<Str(<<"b">>)>>]), Call("applymacro", <<>>),
          Call("both", [args |-> <<Integer(1)>>]), Call("count", <<>>), Call("nobody's", <<>>),
          Call("map", [filter |-> "both", params |-> <<>>]), Call("select", [tester |-> "both"]),
          Call("int", [default |-> Integer(1)]), Call("float", [default |-> Half(1)])}
    \cup {Call("slice", [slices |-> Integer(n), fill_with |-> x]) : n \in {-1, 0, 2, 3}, x \in {Empty, Integer(0)}}
    \cup {Call("batch", [linecount |-> Integer(n), fill_with |-> x]) : n \in {0, 2, 3, 5}, x \in {Empty, Integer(0)}}
    \cup {Call("round", [precision |-> Integer(n), method |-> m]) : n \in {0, 1}, m \in {"common", "ceil", "floor", "up"}}
    \cup {Call("truncate", [length |-> Integer(n), killwords |-> k, leeway |-> l, end |-> Str(<<".">>)]) :
             n \in {-1, 0, 4, 6}, k \in {No, Yes}, l \in {Empty, Integer(0), Integer(2), Integer(-1)}}
    \cup {Call("center", [width |-> Integer(n)]) : n \in {-1, 4, 7}}
    \cup {Call("replace", [old |-> Str(old), new |-> Str(new), count |-> Integer(n)]) :
             old \in {<<>>, <<"a">>, <<" ">>}, new \in {<<>>, <<"a", "b">>, <<"-">>}, n \in {0, 2}}

MCTesters == DOMAIN ComparatorNames \cup
    {"in", "startsWith", "defined", "undefined", "even", "odd", "number", "string", "sequence", "iterable",
     "mapping", "lower", "upper", "both", "count", "nobody's"}

\* The context: a loop in its second round, a macro that writes the texts among its
\* arguments, a callable that answers its arguments, and a number.
MCLoop == MapOf(IndexName :> Integer(1))
MCMacros == {Name1}
MCExpansion(name, args) == FlattenSeq([i \in DOMAIN args |-> AsString(args[i])])
MCCallables == {"both"}
MCCalled(name, args) == Items(args)
MCOtherNames == {"count"}
=============================================================================

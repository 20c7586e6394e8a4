------------------------------- MODULE Evaluator -------------------------------
(***************************************************************************)
(* An expression being evaluated (src/src/expression_evaluator.cpp): a      *)
(* value goes through a chain of filters, and the result into an operator,  *)
(* a subscript or a test.  What the steps compute is in Values,             *)
(* StringFilters and Filters; here are the steps and what an author of      *)
(* templates relies on between them.                                        *)
(***************************************************************************)
EXTENDS Filters

CONSTANTS
    Loop,        \* the value of the name loop, Empty when there is none
    Inputs,      \* the values a chain begins with
    Operands,    \* the other values of operators, subscripts and tests
    Calls,       \* filter calls: records [name, args]
    Testers,     \* names of testers
    MaxSteps,    \* bound: steps from the value a chain begins with
    MaxItems     \* bound: the length of a list or a text a second step is made on

VARIABLES
    value,       \* what the expression has come to
    last,        \* the step that made it, with the value it began with
    steps        \* the number of steps so far

vars == <<value, last, steps>>

NoStep == [step |-> "none", from |-> Empty]

Init ==
    /\ value \in Inputs
    /\ last = NoStep
    /\ steps = 0

\* A chain ends with the operator, and with a value nothing can be said about.
RECURSIVE Spoilt(_)
Spoilt(val) ==
    \/ Poison(val)
    \/ ~Finite(val)
    \/ val.kind = "list" /\ \E i \in DOMAIN val.v : Spoilt(val.v[i])

Small(val) == val.kind \in {"list", "str", "view"} => Len(val.v) <= MaxItems

Going ==
    /\ steps < MaxSteps
    /\ steps > 0 => last.step = "filter" /\ Small(value)
    /\ ~Spoilt(value)

ExpressionFilter ==
    /\ Going
    /\ \E call \in Calls : \E result \in Outcomes(call.name, value, call.args) :
          /\ value' = result
          /\ last' = [step |-> "filter", call |-> call, from |-> value]
    /\ steps' = steps + 1

Applied(step, op, other, result) ==
    /\ value' = result
    /\ last' = [step |-> step, op |-> op, other |-> other, from |-> value]
    /\ steps' = steps + 1

EvaluateUnary ==
    /\ Going
    /\ \E op \in {"not", "+", "-"} : Applied("unary", op, Empty, UnaryOperation(op, value))

\* std::pow with an exponent that is no whole number is left out, as is ~ of values
\* that are no strings.
Offered(op, left, right) ==
    /\ op = "**" => right.kind \in {"int", "str", "empty"}
    /\ op = "~" => {left.kind, right.kind} \subseteq {"str", "view", "empty"}
MathOperators == {"+", "-", "*", "/", "%", "//", "**", "~"}
Comparisons == {"==", "!=", "<", ">", "<=", ">="}

EvaluateBinary ==
    /\ Going
    /\ \E op \in MathOperators \cup Comparisons \cup {"and", "or"}, other \in Operands :
          /\ Offered(op, value, other)
          /\ Applied("binary", op, other, BinaryExpression(op, value, other))

EvaluateSubscript ==
    /\ Going
    /\ \E other \in Operands : Applied("subscript", "[]", other, Subscript(value, other))

EvaluateTest ==
    /\ Going
    /\ \E name \in Testers, other \in Operands :
          Applied("test", name, other, Bool(Test(name, value, other)))

\* other if value else alt; without an alternative, nothing.
IfExpression(result, test, alt) == IF ConvertToBool(test) THEN result ELSE alt
EvaluateIf ==
    /\ Going
    /\ \E other \in Operands, alt \in {Empty, value} :
          Applied("if", alt, other, IfExpression(other, value, alt))

\* [value, other] and {a: value, b: other}.
TupleCreator(first, second) == Items(<<first, second>>)
DictCreator(first, second) == MapOf((<<"a">> :> first) @@ (<<"b">> :> second))
EvaluateTuple ==
    /\ Going
    /\ \E other \in Operands : Applied("tuple", ",", other, TupleCreator(value, other))
EvaluateDict ==
    /\ Going
    /\ \E other \in Operands : Applied("dict", ":", other, DictCreator(value, other))

\* The functions range and loop.cycle are integers, and any value that converts to one
\* of them is called in their place.
RangeFn == 1
LoopCycleFn == 2

\* range(stop) and range(start, stop); how it finds its parameters is in CallParams.
CallGlobalRange(params) ==
    LET stop == ConvertToInt(Last(params), 0)
        start == IF Len(params) = 1 THEN 0 ELSE ConvertToInt(params[1], 0)
    IN  IF params = <<>> THEN Empty
        ELSE Items([i \in 1 .. stop - start |-> Integer(start + i - 1)])

\* A name loop that holds no map is read as one.
IndexName == <<"i">>
CallLoopCycle(params) ==
    CASE Loop = Empty -> Empty
      [] Loop.kind # "map" \/ params = <<>> -> Unknown
      [] OTHER -> params[(ConvertToInt(GetItem(Loop, IndexName), 0) % Len(params)) + 1]

CallExpression(fn, params) ==
    CASE ConvertToInt(fn, -1) = RangeFn -> CallGlobalRange(params)
      [] ConvertToInt(fn, -1) = LoopCycleFn -> CallLoopCycle(params)
      [] OTHER -> Empty
EvaluateCall ==
    /\ Going
    /\ \E other \in Operands : \E params \in {<<>>, <<other>>, <<other, value>>} :
          Applied("call", params, other, CallExpression(value, params))

Next ==
    \/ ExpressionFilter \/ EvaluateUnary \/ EvaluateBinary \/ EvaluateSubscript \/ EvaluateTest
    \/ EvaluateIf \/ EvaluateTuple \/ EvaluateDict \/ EvaluateCall

Spec == Init /\ [][Next]_vars

-----------------------------------------------------------------------------
(* The same value in another form.                                          *)

RECURSIVE WithTexts(_, _)
WithTexts(val, kind) ==
    CASE IsText(val) -> [val EXCEPT !.kind = kind]
      [] val.kind \in {"list", "map"} -> [val EXCEPT !.v = [x \in DOMAIN @ |-> WithTexts(@[x], kind)]]
      [] val.kind = "pair" -> [val EXCEPT !.v = WithTexts(@, kind)]
      [] OTHER -> val

WalkedAs(val, form) == IF val.kind = "list" THEN [val EXCEPT !.form = form] ELSE val

RECURSIVE InOneForm(_)
InOneForm(val) ==
    CASE val.kind = "list" -> Items([i \in DOMAIN val.v |-> InOneForm(val.v[i])])
      [] val.kind = "map" -> MapOf([k \in DOMAIN val.v |-> InOneForm(val.v[k])])
      [] val.kind = "pair" -> Pair(val.key, InOneForm(val.v))
      [] OTHER -> WithTexts(val, "str")

\* What the last step may give for another value in the place of its own.
Redone(val) ==
    CASE last.step = "filter" -> Outcomes(last.call.name, val, last.call.args)
      [] last.step = "unary" -> {UnaryOperation(last.op, val)}
      [] last.step = "binary" -> {BinaryExpression(last.op, val, last.other)}
      [] last.step = "subscript" -> {Subscript(val, last.other)}
      [] last.step = "test" -> {Bool(Test(last.op, val, last.other))}
      [] last.step = "if" ->
            {IfExpression(last.other, val, IF last.op = Empty THEN Empty ELSE val)}
      [] last.step = "tuple" -> {TupleCreator(val, last.other)}
      [] last.step = "dict" -> {DictCreator(val, last.other)}
      [] last.step = "call" -> {CallExpression(val, IF Len(last.op) = 2 THEN <<last.other, val>> ELSE last.op)}

Args == last.call.args @@ Defaults(last.call.name)
Filtered(name) == last.step = "filter" /\ last.call.name = name

\* Where an owned string is known to differ from a view: subscribed by a string.
ByAttribute == "attribute" \in DOMAIN Args /\ Args.attribute # Empty
OwnedOnly ==
    \/ last.step = "subscript" /\ IsText(last.from) /\ IsText(last.other)
    \/ last.step = "filter" /\ (ByAttribute \/ Filtered("attr") \/ (Filtered("map") /\ Args.filter = "attr"))

\* Where a list is known to need its index (or its size), and a walk that is over.
NeedsIndex ==
    \/ last.step = "subscript" \/ Filtered("attr")
    \/ Filtered("unique") \/ Filtered("batch")
    \/ (Filtered("join") \/ Filtered("sum")) /\ ByAttribute
    \/ last.step = "binary" /\ last.op \in {"and", "or"} /\ last.from.v = <<>>
    \/ last.step = "if" /\ last.from.v = <<>>
    \/ Filtered("default") /\ last.from.v = <<>>

\* The values the last step must not tell apart.
Lookalikes ==
    {vals \in {{WithTexts(last.from, kind) : kind \in {"view", "str"}}} : ~OwnedOnly}
    \cup {vals \in {{WalkedAs(last.from, form) :
                        form \in {"sized", "forward"} \cup (IF Filtered("max") THEN {} ELSE {"generator"})}} :
             last.from.kind = "list" /\ ~NeedsIndex}

(* No step tells an owned string from a view of the caller's string (C++    *)
(* overloads each operation for both), in either place of an operator of    *)
(* two strings (four overloads), nor a list with an index from one that can *)
(* only be walked, apart from the places named above and from the first     *)
(* item of a generator's maximum.                                           *)
FormsAgree ==
    /\ last.step # "none" =>
          \A vals \in Lookalikes :
              Cardinality({{InOneForm(r) : r \in Redone(val)} : val \in vals}) = 1
    /\ last.step = "binary" /\ IsText(last.from) /\ IsText(last.other) =>
          Cardinality({InOneForm(BinaryExpression(last.op, WithTexts(last.from, left), WithTexts(last.other, right))) :
                          left, right \in {"str", "view"}}) = 1

-----------------------------------------------------------------------------
(* What the filters of lists keep.                                          *)

Flat(rows) == FlattenSeq([i \in DOMAIN rows |-> rows[i].v])
Count(s, x) == Cardinality({i \in DOMAIN s : s[i] = x})
SameItems(s, t) == \A x \in ToSet(s) \cup ToSet(t) : Count(s, x) = Count(t, x)
OnlyIn(s, t) == \A x \in ToSet(s) : Count(s, x) <= Count(t, x)

\* Values there is an equality and an order for.
RECURSIVE Equatable(_, _)
Equatable(x, y) ==
    \/ IsNumber(x) /\ IsNumber(y)
    \/ IsText(x) /\ IsText(y)
    \/ x.kind = y.kind /\ x.kind = "bool"
    \/ x.kind = "empty" \/ y.kind = "empty"
    \/ x.kind = y.kind /\ x.kind = "pair" /\ Equatable(x.v, y.v)
Orderable(keys) ==
    \A i, j \in DOMAIN keys : Equatable(keys[i], keys[j]) /\ keys[i].kind \notin {"empty", "pair"}

RowsKeepItems(items, rows) ==
    CASE Filtered("slice") ->
            LET length == ConvertToInt(Args.slices, 0)
            IN  /\ IsPrefix(items, Flat(rows))
                /\ \A i \in DOMAIN Flat(rows) : i > Len(items) => Flat(rows)[i] = Args.fill_with
                /\ length > 0 => \A i \in DOMAIN rows :
                      IF i < Len(rows) \/ Args.fill_with # Empty THEN Len(rows[i].v) = length
                      ELSE Len(rows[i].v) \in 1 .. length
      [] Filtered("batch") ->
            LET full == {i \in DOMAIN rows : Len(items) % Len(rows) = 0 \/ i <= Len(items) % Len(rows)}
            IN  /\ Len(rows) = Args.linecount.v
                /\ \A i, j \in DOMAIN rows : Len(rows[i].v) = Len(rows[j].v)
                /\ FlattenSeq([i \in DOMAIN rows |-> IF i \in full THEN rows[i].v ELSE Front(rows[i].v)]) = items
                /\ \A i \in DOMAIN rows \ full : Last(rows[i].v) = Args.fill_with
      [] Filtered("groupby") ->
            LET Grouper(i) == rows[i].v[GrouperName]
                Group(i) == rows[i].v[ListName].v
            IN  /\ SameItems(FlattenSeq([i \in DOMAIN rows |-> Group(i)]), items)
                /\ \A i \in DOMAIN rows :
                      /\ \A j \in DOMAIN rows \ {i} : ~Holds("==", Grouper(i), Grouper(j))
                      /\ \A k \in DOMAIN Group(i) : LET attr == Subscript(Group(i)[k], Args.attribute) IN
                            attr = Grouper(i) \/ Holds("==", attr, Grouper(i))

(* No filter of lists loses an item, takes one twice or makes one up: sort  *)
(* and reverse only move them; slice, batch and groupby cut the list into   *)
(* pieces of the sizes asked for and fill up behind the last item; select   *)
(* and reject are complements; what unique leaves out it has another of.    *)
ItemsKept ==
    last.step = "filter" /\ ~Poison(value) /\ value.kind = "list" =>
        CASE last.from.kind = "map" /\ Filtered("dictsort") ->
                SameItems(value.v, SetToSeq({Pair(k, last.from.v[k]) : k \in DOMAIN last.from.v}))
          [] last.from.kind = "list" /\ last.call.name \in {"sort", "reverse"} ->
                SameItems(value.v, last.from.v)
          [] last.from.kind = "list" /\ last.call.name \in {"slice", "batch", "groupby"} ->
                RowsKeepItems(last.from.v, value.v)
          [] last.from.kind = "list" /\ last.call.name \in {"select", "reject"} ->
                \A other \in OfList(IF Filtered("select") THEN "reject" ELSE "select", last.from, Args) :
                    SameItems(value.v \o other.v, last.from.v)
          [] Filtered("unique") /\ IsSized(last.from) ->
                LET Key(item) == Attr(item, Args.attribute)
                    Alike(x, y) == ConvertToBool(BinaryMathOperation("==", Key(x), Key(y), TRUE))
                    keys == [i \in DOMAIN last.from.v |-> Key(last.from.v[i])]
                IN  /\ OnlyIn(value.v, last.from.v)
                    /\ \A x \in ToSet(last.from.v) : \E y \in ToSet(value.v) : x = y \/ Alike(x, y)
                    /\ Orderable(keys) => \A i, j \in DOMAIN value.v : i # j => ~Alike(value.v[i], value.v[j])
          [] OTHER -> TRUE

-----------------------------------------------------------------------------
(* Order, equality and numbers.                                             *)

\* The order an author expects of two values of one kind.
ComesFirst(x, y, anyCase) ==
    CASE IsNumber(x) -> Numerator(x) * Denominator(y) < Numerator(y) * Denominator(x)
      [] IsText(x) -> Precedes(Folded(x.v, anyCase), Folded(y.v, anyCase))
      [] OTHER -> ~x.v /\ y.v

InOrder(keys, anyCase, reversed) ==
    \A i, j \in DOMAIN keys :
        i < j => IF reversed THEN ~ComesFirst(keys[i], keys[j], anyCase)
                 ELSE ~ComesFirst(keys[j], keys[i], anyCase)

(* sort and dictsort put values of one kind in their order, case ignored    *)
(* unless it is asked for; min and max answer an item no other is beyond. A *)
(* reversed sort of booleans is left out (booleans have no >), and the      *)
(* maximum of a generator.                                                  *)
OrderIsRight ==
    last.step = "filter" /\ last.from.kind \in {"list", "map"} /\ ~Poison(value) /\ value # Empty =>
        CASE Filtered("sort") ->
                LET keys == [i \in DOMAIN value.v |-> Attr(value.v[i], Args.attribute)]
                    reversed == ConvertToBool(Args.reverse)
                IN  Orderable(keys) /\ (reversed => \A i \in DOMAIN keys : keys[i].kind # "bool") =>
                        InOrder(keys, ~ConvertToBool(Args.case_sensitive), reversed)
          [] Filtered("dictsort") ->
                LET keys == [i \in DOMAIN value.v |->
                                IF Args.by = Str(KeyName) THEN Str(value.v[i].key) ELSE value.v[i].v]
                IN  Orderable(keys) =>
                        InOrder(keys, ~ConvertToBool(Args.case_sensitive), ConvertToBool(Args.reverse))
          [] Filtered("min") \/ (Filtered("max") /\ last.from.form # "generator") ->
                LET keys == [i \in DOMAIN last.from.v |-> Attr(last.from.v[i], Args.attribute)]
                    key == Attr(value, Args.attribute)
                    anyCase == ~ConvertToBool(Args.case_sensitive)
                IN  Orderable(keys) =>
                       /\ Contains(last.from.v, value)
                       /\ \A i \in DOMAIN keys : IF Filtered("min") THEN ~ComesFirst(keys[i], key, anyCase)
                                                  ELSE ~ComesFirst(key, keys[i], anyCase)
          [] OTHER -> TRUE

\* Numbers, one of them a double, of which the greater exceeds the other by no more
\* than two parts in Closeness - 1; and numbers that are the same.
Near(x, y) ==
    LET n == Numerator(x) * Denominator(y)   m == Numerator(y) * Denominator(x)
    IN  /\ "double" \in {x.kind, y.kind} /\ Sign(n) = Sign(m)
        /\ (Closeness - 1) * Max({Abs(n), Abs(m)}) <= (Closeness + 1) * Min({Abs(n), Abs(m)})
SameNumber(x, y) == Numerator(x) * Denominator(y) = Numerator(y) * Denominator(x)

(* The operators fit together: == is symmetric, and of == and != exactly    *)
(* one holds where two values can be compared at all; of <, == and > exactly *)
(* one holds of two strings or two numbers, except that a double is also == *)
(* to the numbers near it (AlmostEqual), which are < or > all the same; <=  *)
(* and >= are what they say; // and % give the number back that was divided; *)
(* and what was added to a list or a string is found in it.                 *)
OperatorsAgree ==
    last.step = "binary" =>
        LET x == last.from  y == last.other
            Is(op, l, r) == Holds(op, l, r)
            divided == BinaryMathOperation("//", x, y, FALSE)
            rest == BinaryMathOperation("%", x, y, FALSE)
        IN  /\ Is("==", x, y) <=> Is("==", y, x)
            /\ IF Equatable(x, y) THEN Is("==", x, y) # Is("!=", x, y)
               ELSE ~Is("==", x, y) /\ ~(x.kind # "pair" /\ Is("!=", x, y))
            /\ Equatable(x, y) /\ (IsNumber(x) \/ IsText(x)) /\ y # Empty =>
                  /\ Cardinality({op \in {"<", "==", ">"} : Is(op, x, y)}) =
                        IF IsNumber(x) /\ Near(x, y) /\ ~SameNumber(x, y) THEN 2 ELSE 1
                  /\ IsNumber(x) => (Is("==", x, y) <=> SameNumber(x, y) \/ Near(x, y))
                  /\ \A op \in {"<", ">"} : Is(op \o "=", x, y) <=> Is(op, x, y) \/ Is("==", x, y)
                  /\ Is("<", x, y) <=> Is(">", y, x)
            /\ IsNumber(x) /\ IsNumber(y) /\ Numerator(y) # 0 =>
                  SameNumber(BinaryMathOperation("+", BinaryMathOperation("*", divided, y, FALSE), rest, FALSE), x)
            /\ last.op = "+" /\ IsText(value) => IsIn(x, value) /\ IsIn(y, value)
            /\ last.op = "+" /\ value.kind = "list" =>
                  \A item \in ToSet(x.v) \cup ToSet(y.v) : Equatable(item, item) => IsIn(item, value)

(* A number a filter answers is near the one it was made of: int is less    *)
(* than one away and not farther from zero, round at most half a unit (one, *)
(* to the side named, for ceil and floor), and both leave a whole number as *)
(* it is.                                                                   *)
NumbersAreClose ==
    last.step = "filter" /\ IsNumber(last.from) /\ IsNumber(value) =>
        LET d == Denominator(last.from) * Denominator(value)
            n == Numerator(last.from) * Denominator(value)
            m == Numerator(value) * Denominator(last.from)
            unit == 10 ^ ConvertToInt(Args.precision, 0)
        IN  CASE Filtered("int") -> Abs(n - m) < d /\ Abs(m) <= Abs(n)
              [] Filtered("round") /\ Args.method = "common" -> 2 * unit * Abs(n - m) <= d
                                     /\ (2 * unit * Abs(n - m) = d => Abs(m) > Abs(n))
              [] Filtered("round") /\ Args.method = "ceil" -> unit * Abs(n - m) < d /\ Abs(m) >= Abs(n)
              [] Filtered("round") /\ Args.method = "floor" -> unit * Abs(n - m) < d /\ Abs(m) <= Abs(n)
              [] Filtered("abs") -> m \in {n, -n} /\ m >= 0
              [] Filtered("float") -> n = m
              [] OTHER -> TRUE

-----------------------------------------------------------------------------
(* Strings.                                                                 *)

Words(s) == {i \in DOMAIN s : IsAlNum(s[i]) /\ (i = 1 \/ ~IsAlNum(s[i - 1]))}
SansCase(s) == Folded(s, TRUE)

(* The filters of strings keep to their limits: truncate leaves a beginning *)
(* of the text (blanks at its end aside) no longer than asked for, with the *)
(* leeway, and the end mark behind it, or the whole text; center adds blanks *)
(* alone and comes to the width; escape leaves no tag or quote, and         *)
(* striptags gives the text back that had no ampersand; replace leaves none *)
(* of the old text when the new one cannot make it again; the change of     *)
(* case changes nothing else.                                               *)
TextsFit ==
    last.step = "filter" /\ IsText(last.from) =>
        LET s == last.from.v
            Beginning(t, max) == \E n \in 0 .. Len(s) : n <= max /\ t = SubSeq(s, 1, n) \o AsString(Args.end)
        IN  CASE Filtered("truncate") /\ ~Poison(value) ->
                    LET length == ConvertToInt(Args.length, 0)
                        leeway == ConvertToInt(Args.leeway, 5)
                    IN  \/ value.v = s /\ (Len(s) <= length + leeway \/ leeway < 0)
                        \/ Beginning(value.v, IF ConvertToBool(Args.killwords) THEN length
                                              ELSE IF leeway < 0 THEN Len(s) ELSE length + leeway)
              [] Filtered("center") ->
                    /\ TrimAll(value.v) = TrimAll(s)
                    /\ Len(value.v) = IF Len(s) > ConvertToInt(Args.width, 0) THEN Len(s)
                                      ELSE ConvertToInt(Args.width, 0)
              [] Filtered("escape") ->
                    /\ ToSet(value.v) \cap {"<", ">", "'", "\""} = {}
                    /\ \A i \in DOMAIN value.v : value.v[i] = "&" =>
                          \E ch \in {"<", ">", "&", "'", "\""} : IsPrefix(Entity(ch), SubSeq(value.v, i, Len(value.v)))
                    /\ ~(\E i \in DOMAIN s : s[i] = "&") => Striptags(value.v) = TrimAll(s)
              [] last.call.name \in {"upper", "lower", "title", "capitalize"} -> SansCase(value.v) = SansCase(s)
              [] Filtered("wordcount") -> value.v = Cardinality(Words(s))
              [] Filtered("replace") /\ Args.count = Integer(0) /\ AsString(Args.new) # <<>> ->
                    ToSet(AsString(Args.new)) \cap ToSet(AsString(Args.old)) = {} =>
                        Args.old = Str(<<>>) \/ ~Within(AsString(Args.old), value.v)
              [] OTHER -> TRUE

(* What a filter answers for a number or a string fits what it was given.   *)
ResultsFit == NumbersAreClose /\ TextsFit
=============================================================================

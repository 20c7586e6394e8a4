-------------------------------- MODULE Values --------------------------------
(***************************************************************************)
(* The values expressions are made of and the operations on two of them:    *)
(* src/src/value_visitors.h, the adapters of src/src/internal_value.cpp and *)
(* the testers of src/src/testers.cpp.                                      *)
(*                                                                         *)
(* A value has a kind.  A string is owned ("str") or a view into the        *)
(* caller's data ("view"); both hold characters.  A list is "sized" (it has *)
(* an index), "forward" (it can only be walked, as often as one likes) or a *)
(* "generator" (walked once).  The kind "unknown" is what undefined         *)
(* behaviour leaves, "endless" an enumeration that never stops, "thrown" an *)
(* exception.                                                               *)
(*                                                                         *)
(* Numbers are exact: a double is a reduced fraction, and <<n, 0>> the      *)
(* infinities and NaN.  Doubles that are near each other are equal all the  *)
(* same, as in the code.  Left out: overflow of int64_t, rounding and the   *)
(* sign of zero, wide strings, how a number is spelt, and the callable a    *)
(* map may hold under the name value(), which a subscript that ends at such *)
(* a map calls.                                                             *)
(***************************************************************************)
EXTENDS Integers, SequencesExt

CONSTANTS
    Closeness,      \* bound: doubles are equal when their difference is at most this
                    \* part of their sum, 1 / (6 epsilon) in the code
    Callables,      \* the names of the application's callables in the context
    OtherNames,     \* the names of its other values
    Called(_, _)    \* what a callable answers, by its name and arguments

-----------------------------------------------------------------------------
(* Characters, in the order of their codes.                                 *)

Lowercase == <<"a", "b", "g", "l", "m", "o", "p", "q", "s", "t", "u">>
Uppercase == <<"A", "B", "G", "L", "M", "O", "P", "Q", "S", "T", "U">>
Digits == <<"0", "1", "2", "3", "4", "9">>
Codes == <<" ", "!", "\"", "#", "%", "&", "'", "+", "-", ".", "/">> \o Digits
         \o <<";", "<", ">">> \o Uppercase \o <<"_">> \o Lowercase

Position(s, x) == CHOOSE i \in DOMAIN s : s[i] = x
Code == [ch \in ToSet(Codes) |-> Position(Codes, ch)]
ToUpper(ch) == IF ch \in ToSet(Lowercase) THEN Uppercase[Position(Lowercase, ch)] ELSE ch
ToLower(ch) == IF ch \in ToSet(Uppercase) THEN Lowercase[Position(Uppercase, ch)] ELSE ch
IsAlpha(ch) == ch \in ToSet(Lowercase) \cup ToSet(Uppercase)
IsAlNum(ch) == IsAlpha(ch) \/ ch \in ToSet(Digits)

MapChars(s, Op(_)) == [i \in DOMAIN s |-> Op(s[i])]
Folded(s, anyCase) == IF anyCase THEN MapChars(s, ToUpper) ELSE s
\* std::string::compare and boost::lexicographical_compare.
Precedes(s, t) ==
    \/ IsStrictPrefix(s, t)
    \/ \E i \in DOMAIN s \cap DOMAIN t :
          SubSeq(s, 1, i - 1) = SubSeq(t, 1, i - 1) /\ Code[s[i]] < Code[t[i]]

-----------------------------------------------------------------------------
(* Values.                                                                  *)

Empty == [kind |-> "empty"]
Unknown == [kind |-> "unknown"]
Endless == [kind |-> "endless"]
Thrown == [kind |-> "thrown"]
Bool(b) == [kind |-> "bool", v |-> b]
Integer(n) == [kind |-> "int", v |-> n]
Str(s) == [kind |-> "str", v |-> s]
View(s) == [kind |-> "view", v |-> s]
Items(s) == [kind |-> "list", form |-> "sized", v |-> s]
MapOf(f) == [kind |-> "map", v |-> f]
Pair(key, val) == [kind |-> "pair", key |-> key, v |-> val]

IsText(val) == val.kind \in {"str", "view"}
IsNumber(val) == val.kind \in {"int", "double"}
IsSized(val) == val.kind = "list" /\ val.form = "sized"
Poison(val) == val.kind \in {"unknown", "endless", "thrown"}

RECURSIVE Gcd(_, _)
Gcd(m, n) == IF n = 0 THEN m ELSE Gcd(n, m % n)
Abs(n) == IF n < 0 THEN -n ELSE n
Sign(n) == IF n < 0 THEN -1 ELSE IF n > 0 THEN 1 ELSE 0
Double(n, d) ==
    LET g == Gcd(Abs(n), Abs(d))
    IN  [kind |-> "double",
         v |-> IF d = 0 THEN <<Sign(n), 0>> ELSE <<(Sign(d) * n) \div g, Abs(d) \div g>>]
Finite(val) == val.kind = "double" => val.v[2] # 0

\* Rounded towards zero, as C++ divides and converts.
Truncated(n, d) == Sign(n) * Sign(d) * (Abs(n) \div Abs(d))
Numerator(val) == IF val.kind = "int" THEN val.v ELSE val.v[1]
Denominator(val) == IF val.kind = "int" THEN 1 ELSE val.v[2]

-----------------------------------------------------------------------------
(* Conversions.                                                             *)

\* ConvertToBool. Doubles are the wrong way round: nearly zero is true.
BooleanEvaluator(val) ==
    CASE val.kind = "bool" -> val.v
      [] val.kind = "int" -> val.v # 0
      [] val.kind = "double" -> val.v[1] = 0 /\ val.v[2] # 0
      [] IsText(val) -> val.v # <<>>
      [] val.kind = "map" -> DOMAIN val.v # {}
      [] val.kind = "list" -> IsSized(val) => val.v # <<>>
      [] OTHER -> FALSE

ConvertToBool(val) == BooleanEvaluator(val)

ConvertToInt(val, default) ==
    CASE val.kind = "int" -> val.v
      [] val.kind = "double" -> Truncated(val.v[1], val.v[2])
      [] val.kind = "bool" -> IF val.v THEN 1 ELSE 0
      [] OTHER -> default

AsString(val) == IF IsText(val) THEN val.v ELSE <<>>

\* ConvertToList, strict as every filter asks: the items, or not converted.
IsList(val) == val.kind = "list"

-----------------------------------------------------------------------------
(* Operators of one value and of two.                                       *)

Not(val) ==
    CASE val.kind \in {"list", "map"} -> Bool(TRUE)
      [] val.kind = "double" -> Bool(val.v[1] = 0)
      [] val.kind = "pair" -> Empty
      [] OTHER -> Bool(~BooleanEvaluator(val))

UnaryOperation(op, val) ==
    CASE op = "not" -> Not(val)
      [] op = "+" /\ IsNumber(val) -> val
      [] op = "-" /\ val.kind = "int" -> Integer(-val.v)
      [] op = "-" /\ val.kind = "double" -> Double(-val.v[1], val.v[2])
      [] OTHER -> Empty

Comparison(op, equal, less, greater) ==
    CASE op = "==" -> Bool(equal)
      [] op = "!=" -> Bool(~equal)
      [] op = "<" -> Bool(less)
      [] op = ">" -> Bool(greater)
      [] op = "<=" -> Bool(less \/ equal)
      [] op = ">=" -> Bool(greater \/ equal)
      [] OTHER -> Empty

\* std::pow, for a whole exponent.
Power(n, d, exponent) ==
    IF exponent = 0 THEN Double(1, 1)
    ELSE IF exponent > 0 THEN Double(n ^ exponent, d ^ exponent)
    ELSE IF n = 0 THEN Double(1, 0)
    ELSE Double((Sign(n) * d) ^ (-exponent), Abs(n) ^ (-exponent))

\* What DoubleMath takes for equal. An infinity is equal to every finite number and to
\* no other infinity; NaN to nothing.
AlmostEqual(left, right) ==
    LET n == Numerator(left)   d == Denominator(left)
        m == Numerator(right)  e == Denominator(right)
    IN  CASE d = 0 /\ e = 0 -> FALSE
          [] d = 0 /\ e # 0 -> n # 0
          [] d # 0 /\ e = 0 -> m # 0
          [] OTHER -> Closeness * Abs(n * e - m * d) <= Abs(n * e + m * d)

\* No operand is infinite (Evaluator ends a chain there): the order is that of fractions.
DoubleMath(op, left, right) ==
    LET n == Numerator(left)   d == Denominator(left)
        m == Numerator(right)  e == Denominator(right)
    IN  CASE op = "+" -> Double(n * e + m * d, d * e)
          [] op = "-" -> Double(n * e - m * d, d * e)
          [] op = "*" -> Double(n * m, d * e)
          [] op = "/" -> Double(IF m < 0 THEN -(n * e) ELSE n * e, d * Abs(m))
          [] op = "%" -> IF m = 0 THEN Double(0, 0)
                         ELSE Double(n * e - Truncated(n * e, d * m) * m * d, d * e)
          [] op = "//" -> IF m = 0 THEN Double(n, 0) ELSE Double(Truncated(n * e, d * m), 1)
          [] op = "**" -> Power(n, d, Truncated(m, e))
          [] OTHER -> Comparison(op, AlmostEqual(left, right), n * e < m * d, n * e > m * d)

IntMath(op, n, m) ==
    CASE op = "+" -> Integer(n + m)
      [] op = "-" -> Integer(n - m)
      [] op = "*" -> Integer(n * m)
      [] op = "//" -> IF m = 0 THEN Unknown ELSE Integer(Truncated(n, m))
      [] op \in {"/", "%", "**"} -> DoubleMath(op, Integer(n), Integer(m))
      [] OTHER -> Comparison(op, n = m, n < m, n > m)

Repeated(s, n) == FlattenSeq([i \in 1 .. n |-> s])

\* Mutant of ProcessStrings: the order looks at the lengths alone.
LengthsAlone(op, s, t, anyCase) ==
    LET l == Folded(s, anyCase)
        r == Folded(t, anyCase)
    IN  IF op = "+" THEN Str(s \o t)
        ELSE Comparison(op, l = r, Len(l) < Len(r), Len(r) < Len(l))

ProcessStrings(op, s, t, anyCase) ==
    LET l == Folded(s, anyCase)
        r == Folded(t, anyCase)
    IN  IF op = "+" THEN Str(s \o t)
        ELSE Comparison(op, l = r, Precedes(l, r), Precedes(r, l))

\* Mutant of StringPairs: the overload for a view and an owned string is forgotten.
StringPairsButOne == {<<"str", "str">>, <<"str", "view">>, <<"view", "view">>}

\* The pairs of strings there is an overload for.
StringPairs == {<<"str", "str">>, <<"view", "str">>, <<"str", "view">>, <<"view", "view">>}

\* Two strings, each owned or a view; a string so many times; a string and nothing.
StringMath(op, left, right, anyCase) ==
    CASE <<left.kind, right.kind>> \in StringPairs -> ProcessStrings(op, left.v, right.v, anyCase)
      [] right.kind = "int" /\ op = "*" -> Str(Repeated(left.v, right.v))
      [] right.kind = "empty" /\ op \in {"==", "!="} -> Bool(op = "!=")
      [] OTHER -> Empty

\* Two operands no case is written for compare as nothing: neither == nor != holds.
RECURSIVE BinaryMathOperation(_, _, _, _)
BinaryMathOperation(op, left, right, anyCase) ==
    CASE left.kind = "int" /\ right.kind = "int" -> IntMath(op, left.v, right.v)
      [] IsNumber(left) /\ IsNumber(right) /\ {left.kind, right.kind} # {"int"} ->
            DoubleMath(op, left, right)
      [] IsText(left) -> StringMath(op, left, right, anyCase)
      [] left.kind = "list" /\ right.kind = "list" /\ op = "+" -> Items(left.v \o right.v)
      [] left.kind = "list" /\ right.kind = "int" /\ op = "*" /\ right.v >= 0 ->
            Items(Repeated(left.v, right.v))
      [] left.kind = "bool" /\ right.kind = "bool" /\ op \in {"==", "!=", "<"} ->
            Comparison(op, left.v = right.v, ~left.v /\ right.v, FALSE)
      [] left.kind = "empty" /\ right.kind = "empty" /\ op \in {"==", "!="} -> Bool(op = "==")
      [] {left.kind, right.kind} \cap {"empty"} # {} /\ left.kind # right.kind
         /\ op \in {"==", "!="} -> Bool(op = "!=")
      [] left.kind = "pair" /\ right.kind = "pair" /\ op \in {"==", "!="} ->
            LET keys == ConvertToBool(ProcessStrings(op, left.key, right.key, anyCase))
                vals == ConvertToBool(BinaryMathOperation(op, left.v, right.v, anyCase))
            IN  Bool(IF op = "==" THEN keys /\ vals ELSE keys \/ vals)
      [] OTHER -> Empty

Holds(op, left, right) == ConvertToBool(BinaryMathOperation(op, left, right, FALSE))
Equal(left, right) == Holds("==", left, right)

-----------------------------------------------------------------------------
(* Subscripts, lists of subscripts, concatenation.                          *)

\* The names key and value, spelt with one letter here.
KeyName == <<"k">>
ValueName == <<"v">>

SubscriptKvPair(pair, field) ==
    CASE field = KeyName -> Str(pair.key)
      [] field = ValueName -> pair.v
      [] OTHER -> Empty

\* A map has no value for a name it does not hold.
GetItem(map, name) == IF name \in DOMAIN map.v THEN map.v[name] ELSE Empty

\* An owned string subscribed by an owned string is the string itself.
Subscript(val, index) ==
    CASE val.kind = "map" /\ IsText(index) -> GetItem(val, index.v)
      [] val.kind = "str" /\ index.kind = "str" -> val
      [] IsSized(val) /\ index.kind = "int" ->
            IF index.v \in 0 .. Len(val.v) - 1 THEN val.v[index.v + 1] ELSE Empty
      [] IsText(val) /\ index.kind = "int" ->
            IF index.v \in 0 .. Len(val.v) - 1 THEN Str(<<val.v[index.v + 1]>>) ELSE Empty
      [] val.kind = "pair" /\ IsText(index) -> SubscriptKvPair(val, index.v)
      [] OTHER -> Empty

\* Without an attribute the values themselves.
Attr(val, name) == IF name = Empty THEN val ELSE Subscript(val, name)

\* ListAdapter::ToSubscriptedList. The enumerator of a list without an index is
\* never moved: its first item comes for ever.
ToSubscriptedList(list, name) ==
    IF name # Empty /\ ~IsSized(list) /\ list.v # <<>> THEN Endless
    ELSE Items([i \in DOMAIN list.v |-> Attr(list.v[i], name)])

\* The item at an index, from 1: a list without an index has none.
ValueByIndex(list, i) == IF IsSized(list) THEN list.v[i] ELSE Empty

StringJoiner(left, right) ==
    CASE left.kind = "empty" /\ IsText(right) -> Str(right.v)
      [] left.kind = "str" /\ IsText(right) -> Str(left.v \o right.v)
      [] OTHER -> Str(<<>>)

\* The operator ~, of strings and of nothing.
StringConcat(left, right) == Str(AsString(left) \o AsString(right))

BinaryExpression(op, left, right) ==
    CASE op = "and" -> Bool(ConvertToBool(left) /\ ConvertToBool(right))
      [] op = "or" -> Bool(ConvertToBool(left) \/ ConvertToBool(right))
      [] op = "~" -> StringConcat(left, right)
      [] OTHER -> BinaryMathOperation(op, left, right, FALSE)

-----------------------------------------------------------------------------
(* Testers.                                                                 *)

\* A double is even or odd when it is whole.
EvenOdd(val, remainder) ==
    CASE val.kind = "int" -> val.v % 2 = remainder
      [] val.kind = "double" -> val.v[2] = 1 /\ val.v[1] % 2 = remainder
      [] OTHER -> FALSE

Within(s, t) == \E i \in 1 .. Len(t) + 1 : IsPrefix(s, SubSeq(t, i, Len(t)))

IsIn(val, seq) ==
    CASE seq.kind = "list" -> \E i \in DOMAIN seq.v : Equal(seq.v[i], val)
      [] IsText(seq) /\ IsText(val) -> Within(val.v, seq.v)
      [] OTHER -> FALSE

ComparatorNames ==
    [eq |-> "==", ne |-> "!=", lt |-> "<", gt |-> ">", le |-> "<=", ge |-> ">="]

Comparator(op, val, b) == Holds(op, val, b)
StartsWith(val, str) == IsPrefix(AsString(str), AsString(val))

\* A tester nobody knows is looked up in the context: a callable is given the value
\* before its own arguments, and anything else is false.
UserDefinedTester(name, val, args) ==
    name \in Callables /\ ConvertToBool(Called(name, <<val>> \o args))

Test(name, val, arg) ==
    CASE name \in DOMAIN ComparatorNames -> Comparator(ComparatorNames[name], val, arg)
      [] name = "in" -> IsIn(val, arg)
      [] name = "startsWith" -> StartsWith(val, arg)
      [] name = "defined" -> val.kind # "empty"
      [] name = "undefined" -> val.kind = "empty"
      [] name = "even" -> EvenOdd(val, 0)
      [] name = "odd" -> EvenOdd(val, 1)
      [] name = "number" -> IsNumber(val)
      [] name = "string" -> IsText(val)
      [] name = "sequence" -> val.kind = "list"
      [] name = "iterable" -> val.kind \in {"list", "map"}
      [] name = "mapping" -> val.kind \in {"map", "pair"}
      [] name = "lower" -> IsText(val) /\ MapChars(val.v, ToLower) = val.v
      [] name = "upper" -> IsText(val) /\ MapChars(val.v, ToUpper) = val.v
      [] OTHER -> UserDefinedTester(name, val, <<arg>>)
=============================================================================

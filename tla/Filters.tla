-------------------------------- MODULE Filters --------------------------------
(***************************************************************************)
(* The filters of src/src/filters.cpp, one operator per class.  The         *)
(* arguments of a call are a record, the defaults of ParseParams filled in. *)
(* A filter whose outcome the library does not fix (the order std::sort     *)
(* gives to equal items, the order of an unordered map) has a set of        *)
(* outcomes.  Left out: format, pprint, xmlattr and the serializers.        *)
(***************************************************************************)
EXTENDS StringFilters

CONSTANTS
    Macros,           \* the names of the macros in the context
    Expansion(_, _)   \* the text a macro renders, by its name and arguments

-----------------------------------------------------------------------------
(* Arguments.                                                               *)

No == Bool(FALSE)
Defaults(name) ==
    CASE name = "join" -> [d |-> Str(<<>>), attribute |-> Empty]
      [] name = "sort" -> [reverse |-> No, case_sensitive |-> No, attribute |-> Empty]
      [] name = "attr" -> [name |-> Empty, default |-> Empty]
      [] name = "default" -> [default_value |-> Str(<<>>), boolean |-> No]
      [] name = "dictsort" -> [case_sensitive |-> Empty, by |-> Str(KeyName), reverse |-> Empty]
      [] name \in {"max", "min"} -> [case_sensitive |-> No, attribute |-> Empty]
      [] name = "sum" -> [attribute |-> Empty, start |-> Empty]
      [] name \in {"unique", "groupby"} -> [attribute |-> Empty]
      [] name = "slice" -> [slices |-> Empty, fill_with |-> Empty]
      [] name = "batch" -> [linecount |-> Empty, fill_with |-> Empty]
      [] name \in {"select", "reject"} -> [tester |-> "", attribute |-> Empty, arg |-> Empty]
      [] name \in {"float", "int"} -> [default |-> Empty]
      [] name = "round" -> [precision |-> Empty, method |-> "common"]
      [] name = "replace" -> [old |-> Empty, new |-> Empty, count |-> Integer(0)]
      [] name = "truncate" -> [length |-> Integer(255), killwords |-> No,
                               end |-> Str(<<".", ".", ".">>), leeway |-> Empty]
      [] name = "center" -> [width |-> Integer(80)]
      [] name = "applymacro" -> [macro |-> Empty, args |-> <<>>]
      [] OTHER -> [args |-> <<>>]

-----------------------------------------------------------------------------
(* The standard library's sorts.                                            *)

\* The pairs of positions whose items the comparator puts in this order.
Pairs(items, Less(_, _)) ==
    {pair \in (DOMAIN items) \X (DOMAIN items) : Less(items[pair[1]], items[pair[2]])}

\* What std::sort asks of its comparator, over the items it sorts.
StrictWeak(positions, less) ==
    LET Tie(i, j) == <<i, j>> \notin less /\ <<j, i>> \notin less
    IN  \A i, j \in positions :
           /\ <<i, j>> \in less => <<j, i>> \notin less
           /\ \A k \in positions :
                 /\ <<i, j>> \in less /\ <<j, k>> \in less => <<i, k>> \in less
                 /\ Tie(i, j) /\ Tie(j, k) => Tie(i, k)

\* The orders (of positions) a sort may leave, any of them when the comparator is
\* no order: items of different kinds are neither less nor greater. A stable sort
\* leaves those that tie as they were.
OrdersOf(positions, less, stable) ==
    LET isOrder == StrictWeak(positions, less)
    IN  {p \in Permutations(positions) :
            isOrder => \A i, j \in positions :
                          i < j => /\ <<p[j], p[i]>> \notin less
                                   /\ stable /\ <<p[i], p[j]>> \notin less => p[i] < p[j]}

Orders(items, Less(_, _)) == OrdersOf(DOMAIN items, Pairs(items, Less), FALSE)
StableOrders(items, Less(_, _)) == OrdersOf(DOMAIN items, Pairs(items, Less), TRUE)

\* Mutant of Ordered: the last item is taken twice.
OrderedTwice(items, p) ==
    [i \in DOMAIN items |-> IF i = 1 THEN items[p[Len(items)]] ELSE items[p[i]]]

Ordered(items, p) == [i \in DOMAIN items |-> items[p[i]]]

-----------------------------------------------------------------------------
(* Filters of lists.                                                        *)

\* Mutant of Less: items are compared as they are, letter by letter.
LessAsTheyAre(left, right, args, op) ==
    ConvertToBool(BinaryMathOperation(op, Attr(left, args.attribute), Attr(right, args.attribute), FALSE))

Less(left, right, args, op) ==
    ConvertToBool(BinaryMathOperation(op, Attr(left, args.attribute), Attr(right, args.attribute),
                                      ~ConvertToBool(args.case_sensitive)))

\* The operator is > for a reversed sort, which two booleans do not have.
Sort(list, args) ==
    LET op == IF ConvertToBool(args.reverse) THEN ">" ELSE "<"
    IN  {Items(Ordered(list.v, p)) : p \in Orders(list.v, LAMBDA x, y : Less(x, y, args, op))}

\* An item that is no string makes the text so far empty.
Join(list, args) ==
    LET items == ToSubscriptedList(list, args.attribute)
        Add(text, item) == StringJoiner(StringJoiner(text, args.d), item)
    IN  IF Poison(items) THEN items
        ELSE IF items.v = <<>> THEN Empty
        ELSE FoldLeft(Add, StringJoiner(Empty, items.v[1]), Tail(items.v))

\* A sum that came to nothing starts again with the next item.
SumItems(list, args) ==
    LET items == ToSubscriptedList(list, args.attribute)
        Add(sum, item) == IF sum = Empty THEN item ELSE BinaryMathOperation("+", sum, item, FALSE)
    IN  IF Poison(items) THEN items ELSE FoldLeft(Add, args.start, items.v)

\* Max calls begin() a second time, which costs a generator its first item.
MaxItem(list, args) ==
    LET items == IF list.form = "generator" THEN SubSeq(list.v, 2, Len(list.v)) ELSE list.v
        Greater(max, item) == IF Less(max, item, args, "<") THEN item ELSE max
    IN  IF items = <<>> THEN Empty ELSE FoldLeft(Greater, items[1], items)

MinItem(list, args) ==
    LET Smaller(min, item) == IF Less(item, min, args, "<") THEN item ELSE min
    IN  IF list.v = <<>> THEN Empty ELSE FoldLeft(Smaller, list.v[1], list.v)

\* Sorted, without the neighbours that are equal, and in the old order again. Only
\* a list with an index gives its items back.
UniqueOf(list, keys, p) ==
    LET Same(i, j) == ConvertToBool(BinaryMathOperation("==", keys[i], keys[j], TRUE))
        Keep(kept, i) == IF kept # <<>> /\ Same(Last(kept), i) THEN kept ELSE Append(kept, i)
        kept == SortSeq(FoldLeft(Keep, <<>>, p), <)
    IN  Items([i \in DOMAIN kept |-> ValueByIndex(list, kept[i])])
UniqueItems(list, args) ==
    LET keys == [i \in DOMAIN list.v |-> Attr(list.v[i], args.attribute)]
        Before(x, y) == ConvertToBool(BinaryMathOperation("<", x, y, TRUE))
    IN  {UniqueOf(list, keys, p) : p \in StableOrders(keys, Before)}

GrouperName == <<"g">>
ListName == <<"l">>
\* The first group whose grouper equals the attribute of the item takes it.
GroupBy(list, args) ==
    LET Add(groups, item) ==
            LET attr == Subscript(item, args.attribute)
                i == SelectInSeq(groups, LAMBDA g : Equal(g.grouper, attr))
            IN  IF i = 0 THEN Append(groups, [grouper |-> attr, items |-> <<item>>])
                ELSE [groups EXCEPT ![i].items = Append(@, item)]
        groups == FoldLeft(Add, <<>>, list.v)
    IN  Items([i \in DOMAIN groups |->
                 MapOf((GrouperName :> groups[i].grouper) @@ (ListName :> Items(groups[i].items)))])

\* Rows of the given length: "slices" counts the items of a row. The remainder by
\* zero is undefined; a negative length is never reached.
Slice(list, args) ==
    LET n == Len(list.v)
        length == ConvertToInt(args.slices, 0)
        fill == args.fill_with
        rows == IF length > 0
                THEN [i \in 1 .. (n + length - 1) \div length |->
                         SubSeq(list.v, (i - 1) * length + 1, IF i * length < n THEN i * length ELSE n)]
                ELSE <<list.v>>
        Padded(row) == [i \in 1 .. (IF length > Len(row) THEN length ELSE Len(row)) |->
                           IF i \in DOMAIN row THEN row[i] ELSE fill]
        last == IF list.v = <<>> THEN <<>> ELSE Last(rows)
    IN  IF length = 0 /\ n > 0 THEN Unknown
        ELSE IF fill = Empty THEN Items([i \in 1 .. (IF n = 0 THEN 0 ELSE Len(rows)) |-> Items(rows[i])])
        ELSE LET front == IF n = 0 THEN <<>> ELSE Front(rows)
                 all == Append(front, Padded(last))
             IN  Items([i \in DOMAIN all |-> Items(all[i])])

\* The given number of rows, the first ones longer by one item.
Batch(list, args) ==
    LET lines == ConvertToInt(args.linecount, 0)
        n == IF IsSized(list) THEN Len(list.v) ELSE 0
        remainder == n % lines
        columns == n \div lines + (IF remainder > 0 THEN 1 ELSE 0)
        Elems(line) == columns - (IF remainder > 0 /\ line > remainder THEN 1 ELSE 0)
        Before(line) == (line - 1) * columns
                        - (IF remainder > 0 /\ line > remainder THEN line - 1 - remainder ELSE 0)
        Row(line) == Items([c \in 1 .. columns |-> IF c <= Elems(line) THEN list.v[Before(line) + c]
                                                   ELSE args.fill_with])
    IN  IF lines <= 0 \/ n = 0 THEN Empty ELSE Items([line \in 1 .. lines |-> Row(line)])

\* select, reject and their attr forms.
Tester(list, args, wanted) ==
    LET Passes(item) ==
            IF args.tester = "" THEN ConvertToBool(Attr(item, args.attribute))
            ELSE Test(args.tester, Attr(item, args.attribute), args.arg)
    IN  Items(SelectSeq(list.v, LAMBDA item : Passes(item) = wanted))

-----------------------------------------------------------------------------
(* Filters of maps and of single values.                                    *)

\* The keys of an unordered map come in any order.
KeyOrders(map) == SetToSeqs(DOMAIN map.v)

DictSort(map, args) ==
    LET anyCase == ~ConvertToBool(args.case_sensitive)
        By(pair) == IF AsString(args.by) = KeyName THEN Str(pair.key) ELSE pair.v
        Before(x, y) == ConvertToBool(BinaryMathOperation("<", By(x), By(y), anyCase))
        Sooner(x, y) == IF ConvertToBool(args.reverse) THEN Before(y, x) ELSE Before(x, y)
        pairs == LET keys == SetToSeq(DOMAIN map.v) IN [i \in DOMAIN keys |-> Pair(keys[i], map.v[keys[i]])]
    IN  IF AsString(args.by) \notin {KeyName, ValueName} THEN {Empty}
        ELSE {Items(Ordered(pairs, p)) : p \in Orders(pairs, Sooner)}

Attribute(val, args) ==
    IF Subscript(val, args.name) = Empty THEN args.default ELSE Subscript(val, args.name)

Default(val, args) ==
    IF val = Empty \/ (ConvertToBool(args.boolean) /\ ~ConvertToBool(val))
    THEN args.default_value ELSE val

\* strtoll and strtod: blanks, a sign and digits, to the end of the text. They take
\* the empty text for zero.
DigitValue == [ch \in ToSet(Digits) |-> CASE ch = "0" -> 0 [] ch = "1" -> 1 [] ch = "2" -> 2
                                          [] ch = "3" -> 3 [] ch = "4" -> 4 [] ch = "9" -> 9]
NumberText(s) ==
    LET t == TrimLeft(s)
        signed == t # <<>> /\ t[1] \in {"+", "-"}
        body == IF signed THEN Tail(t) ELSE t
        digits == SelectSeq(body, LAMBDA ch : ch \in ToSet(Digits))
        point == SelectInSeq(body, LAMBDA ch : ch = ".")
        Value(n, ch) == 10 * n + DigitValue[ch]
    IN  [ok |-> s = <<>> \/ (digits # <<>> /\ Len(body) = Len(digits) + (IF point > 0 THEN 1 ELSE 0)),
         whole |-> point = 0,
         n |-> (IF signed /\ t[1] = "-" THEN -1 ELSE 1) * FoldLeft(Value, 0, digits),
         d |-> IF point = 0 THEN 1 ELSE 10 ^ (Len(body) - point)]

\* "ceil" rounds away from zero and "floor" towards it.
RoundTo(n, d, method) ==
    CASE method = "ceil" -> Sign(n) * ((Abs(n) + d - 1) \div d)
      [] method = "floor" -> Truncated(n, d)
      [] method = "common" -> Sign(n) * ((2 * Abs(n) + d) \div (2 * d))

RoundDouble(val, args) ==
    LET scale == 10 ^ ConvertToInt(args.precision, 0)
    IN  IF args.method \notin {"ceil", "floor", "common"} THEN val
        ELSE Double(RoundTo(val.v[1] * scale, val.v[2], args.method), scale)

\* A value of another kind (a boolean, nothing) is not converted, nor defaulted.
ToNumber(name, val, args) ==
    LET text == NumberText(AsString(val))
    IN  CASE name = "float" /\ IsNumber(val) -> Double(Numerator(val), Denominator(val))
          [] name = "int" /\ IsNumber(val) -> Integer(ConvertToInt(val, 0))
          [] name = "float" /\ IsText(val) -> IF text.ok THEN Double(text.n, text.d) ELSE args.default
          [] name = "int" /\ IsText(val) ->
                IF text.ok /\ text.whole THEN Integer(text.n) ELSE args.default
          [] OTHER -> Empty

AbsOf(val) ==
    CASE val.kind = "int" -> Integer(Abs(val.v))
      [] val.kind = "double" -> Double(Abs(val.v[1]), val.v[2])
      [] OTHER -> Empty

Round(val, args) ==
    CASE val.kind = "int" -> val
      [] val.kind = "double" -> RoundDouble(val, args)
      [] OTHER -> Empty

\* The characters of a string, in its own form; the keys of a map.
ToList(val) ==
    CASE val.kind = "list" -> {val}
      [] val.kind = "str" -> {Items(MapChars(val.v, LAMBDA ch : Str(<<ch>>)))}
      [] val.kind = "view" -> {Items(MapChars(val.v, LAMBDA ch : View(<<ch>>)))}
      [] val.kind = "map" -> {Items(MapChars(keys, Str)) : keys \in KeyOrders(val)}
      [] OTHER -> {Empty}

-----------------------------------------------------------------------------
(* Filters the context is asked for; the value comes before the arguments.  *)

ApplyMacro(val, args) ==
    IF AsString(args.macro) \in Macros
    THEN Str(Expansion(AsString(args.macro), <<val>> \o args.args)) ELSE Empty

\* A name that is nothing at all ends the rendering.
UserDefinedFilter(name, val, args) ==
    CASE name \in Callables -> Called(name, <<val>> \o args.args)
      [] name \in OtherNames -> Empty
      [] OTHER -> Thrown

-----------------------------------------------------------------------------
(* CreateFilter and Filter: the table of names.                             *)

ListFilters == {"join", "sort", "groupby", "first", "last", "length", "random", "max", "min",
                "reverse", "sum", "unique", "slice", "batch", "select", "reject", "map"}

StringFilterNames == {"trim", "title", "wordcount", "upper", "lower", "capitalize", "escape", "urlencode",
                      "striptags", "replace", "truncate", "center", "camelize", "wordwrap",
                      "underscorize", "escapecpp"}

RECURSIVE Outcomes(_, _, _)

\* map calls a filter for each item; MapParams of the call are the filter's own.
MapItems(list, args) ==
    LET Add(lists, item) ==
            {Append(l, r) : l \in lists, r \in Outcomes(args.filter, item, args.params)}
    IN  {Items(l) : l \in FoldLeft(Add, {<<>>}, list.v)}

OfList(name, list, args) ==
    CASE name = "join" -> {Join(list, args)}
      [] name = "sort" -> Sort(list, args)
      [] name = "groupby" -> {GroupBy(list, args)}
      [] name = "first" -> {IF list.v = <<>> THEN Empty ELSE list.v[1]}
      [] name = "last" -> {IF list.v = <<>> THEN Empty ELSE Last(list.v)}
      [] name = "random" -> IF list.v = <<>> THEN {Empty} ELSE ToSet(list.v)
      [] name = "length" -> {Integer(Len(list.v))}
      [] name = "max" -> {MaxItem(list, args)}
      [] name = "min" -> {MinItem(list, args)}
      [] name = "reverse" -> {Items(Reverse(list.v))}
      [] name = "sum" -> {SumItems(list, args)}
      [] name = "unique" -> UniqueItems(list, args)
      [] name = "slice" -> {Slice(list, args)}
      [] name = "batch" -> {Batch(list, args)}
      [] name \in {"select", "reject"} -> {Tester(list, args, name = "select")}
      [] name = "map" -> MapItems(list, args)

\* given: the arguments of the call, by name.
Outcomes(name, val, given) ==
    LET args == given @@ Defaults(name)
    IN  CASE name \in ListFilters -> IF IsList(val) THEN OfList(name, val, args) ELSE {Empty}
          [] name = "dictsort" -> IF val.kind = "map" THEN DictSort(val, args) ELSE {Empty}
          [] name = "list" -> ToList(val)
          [] name = "attr" -> {Attribute(val, args)}
          [] name = "default" -> {Default(val, args)}
          [] name \in {"float", "int"} -> {ToNumber(name, val, args)}
          [] name = "abs" -> {AbsOf(val)}
          [] name = "round" -> {Round(val, args)}
          [] name = "applymacro" -> {ApplyMacro(val, args)}
          [] name \in StringFilterNames -> {StringConverter(name, val, args)}
          [] OTHER -> {UserDefinedFilter(name, val, args)}
=============================================================================

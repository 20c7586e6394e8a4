--------------------------- MODULE ValueLifetimes ---------------------------
(***************************************************************************)
(* Who keeps a value alive while a template works with it.                 *)
(*                                                                         *)
(* An InternalValue (src/src/internal_value.h) copies a number or a short  *)
(* text, looks into a user's value (ByRef, string_view), or owns one that  *)
(* a function has returned (BySharedVal).  What is taken out of an owned   *)
(* value looks into it, so it carries a second pointer, its parent data,   *)
(* which is there only to keep the owner alive.                            *)
(*                                                                         *)
(* A user's value is a tree, its shape.  "list" and "map" are ValuesList   *)
(* and ValuesMap, which hand out their items by reference; "glist" and     *)
(* "gmap" are GenericList and GenericMap, whose items are returned by      *)
(* value; "text" is a string.  The parameters of Render are tree 0; every  *)
(* value that is returned to the template is a tree of its own.            *)
(***************************************************************************)
EXTENDS Naturals, SequencesExt

CONSTANTS
    Params,     \* the shape of the parameters
    Results,    \* the shapes of what a user's function may return
    Names,      \* the variables of the template
    MaxTrees,   \* bound: how many trees are returned to the template
    MaxSteps    \* bound: how many steps a template takes

ASSUME LifetimesAssumption == MaxTrees \in Nat /\ MaxSteps \in Nat

VARIABLES
    trees,      \* the shapes of the trees returned so far
    cur,        \* the value the expression under evaluation has so far
    outer,      \* the variables of the template's scope
    inner,      \* those of the scope of the running loop
    loop,       \* loopVal of RenderLoop
    item,       \* the loop's variable
    steps       \* the steps taken so far

vars == <<trees, cur, outer, inner, loop, item, steps>>

\* InternalValueData: what the value is, where it looks, what the list or the pair
\* that the template has made holds, and whether a user's function has handed it back.
Nothing == [how |-> "empty", at |-> [tree |-> 0, path |-> <<>>], items |-> <<>>, passed |-> FALSE]
Own == [Nothing EXCEPT !.how = "own"]
View(place) == [Nothing EXCEPT !.how = "view", !.at = place]
Ref(place) == [Nothing EXCEPT !.how = "ref", !.at = place]
Shared(tree) == [Nothing EXCEPT !.how = "shared", !.at = [tree |-> tree, path |-> <<>>]]
Made(values) == [Nothing EXCEPT !.how = "made", !.items = values]
KeyValuePair(value) == [Nothing EXCEPT !.how = "pair", !.items = <<value>>]

\* An InternalValue; bare is history: a step that sets no parent was in its making.
Value(data) == [data |-> data, parent |-> Nothing, bare |-> FALSE]
NoValue == Value(Nothing)

Child(place, i) == [place EXCEPT !.path = Append(@, i)]
ShapeAt(place) ==
    FoldLeft(LAMBDA shape, i : shape.items[i],
             IF place.tree = 0 THEN Params ELSE trees[place.tree], place.path)

KindOf(data) ==
    CASE data.how = "made" -> "list"
      [] data.how \in {"ref", "shared"} -> ShapeAt(data.at).kind
      [] OTHER -> data.how
IsList(data) == KindOf(data) \in {"list", "glist"}
ItemsOf(data) ==
    IF data.how \in {"made", "pair"} THEN DOMAIN data.items
    ELSE IF data.how \in {"ref", "shared"} THEN DOMAIN ShapeAt(data.at).items
    ELSE IF data.how \in {"view", "own"} THEN {1} ELSE {}

ShouldExtendLifetime(value) ==
    value.parent # Nothing \/ value.data.how = "shared" \/ value.data.passed

\* SetParentData copies the data of the base, not the parent the base has itself.
SetParentData(value, base) == [value EXCEPT !.parent = base.data]
ProtectedValue(value, base) ==
    IF ShouldExtendLifetime(base) THEN SetParentData(value, base) ELSE value

\* InputValueConvertor for a value that stays where it is.
ByReference(place) == IF ShapeAt(place).kind = "text" THEN View(place) ELSE Ref(place)

\* A value that is returned: a text is moved into the InternalValue, anything else into
\* a tree of its own.
Returned(shape) ==
    IF shape.kind = "text" THEN {[value |-> Value(Own), trees |-> trees]}
    ELSE IF Len(trees) = MaxTrees THEN {}
    ELSE {[value |-> Value(Shared(Len(trees) + 1)), trees |-> Append(trees, shape)]}

\* IntValue2Value, and the Value back again: a list or map that keeps its adapter, and
\* with it what the adapter owns, but has no parent.
HandedBack(value) ==
    [value EXCEPT !.parent = Nothing, !.bare = TRUE,
                  !.data.passed = @ \/ value.data.how \in {"ref", "shared", "made"}]

\* Item i of base, as GetItem of its adapter, of a string or of a pair gives it.
Items(base, i) ==
    LET place == Child(base.data.at, i)
        here == CASE base.data.how = "made" -> {[base.data.items[i] EXCEPT !.bare = @ \/ base.bare]}
                  [] base.data.how = "pair" -> {[base.data.items[i] EXCEPT !.bare = TRUE]}
                  [] KindOf(base.data) \in {"list", "map"} ->
                        {[Value(ByReference(place)) EXCEPT !.bare = base.bare]}
                  [] OTHER -> {Value(Own)}
        found == IF KindOf(base.data) \in {"glist", "gmap"} THEN Returned(ShapeAt(place))
                 ELSE {[value |-> v, trees |-> trees] : v \in here}
    IN  {IF base.data.passed THEN [f EXCEPT !.value = HandedBack(@)] ELSE f : f \in found}

\* Items of a list that are all taken at once; those of a GenericList would be one tree each.
AllItems(base) ==
    IF KindOf(base.data) = "list"
    THEN [i \in ItemsOf(base.data) |-> (CHOOSE f \in Items(base, i) : TRUE).value] ELSE <<>>

InLoop == loop # NoValue
Evaluating == cur # NoValue
Lookup(name) == IF inner[name] # NoValue THEN inner[name] ELSE outer[name]
Becomes(value) == cur' = value /\ UNCHANGED <<trees, outer, inner, loop, item>>
BecomesFound(found) ==
    /\ cur' = found.value /\ trees' = found.trees
    /\ UNCHANGED <<outer, inner, loop, item>>
-----------------------------------------------------------------------------
Init ==
    /\ trees = <<>> /\ steps = 0
    /\ cur = NoValue /\ loop = NoValue /\ item = NoValue
    /\ outer = [name \in Names |-> NoValue]
    /\ inner = outer

(* An expression: it begins with a name or a call. *)

\* The parameters are converted when Render begins.
ValueOfParams == ~Evaluating /\ Becomes(Value(ByReference(Nothing.at)))
ValueRef(name) == ~Evaluating /\ Lookup(name) # NoValue /\ Becomes(Lookup(name))
ValueOfItem == ~Evaluating /\ InLoop /\ Becomes(item)

CallArbitraryFn ==
    /\ ~Evaluating
    /\ \E shape \in Results : \E found \in Returned(shape) : BecomesFound(found)

\* A function, or a user's filter, that returns what it was given.
UserDefinedFilter == Evaluating /\ Becomes(HandedBack(cur))

\* Mutant of EvaluateSubscript: the item forgets where it comes from.
SubscriptAlone(i) ==
    /\ Evaluating /\ i \in ItemsOf(cur.data)
    /\ \E found \in Items(cur, i) : BecomesFound(found)

\* One round of SubscriptExpression::Evaluate.
EvaluateSubscript(i) ==
    /\ Evaluating /\ i \in ItemsOf(cur.data)
    /\ \E found \in Items(cur, i) :
          BecomesFound([found EXCEPT !.value = ProtectedValue(@, cur)])

\* first, last, random, min and max.
SequenceAccessor(i) ==
    /\ Evaluating /\ IsList(cur.data) /\ i \in ItemsOf(cur.data)
    /\ \E found \in Items(cur, i) :
          BecomesFound([found EXCEPT !.value = ProtectedValue(@, cur)])

\* reverse, unique, slice and batch.
ReverseFilter ==
    /\ Evaluating /\ KindOf(cur.data) = "list"
    /\ LET items == AllItems(cur)
       IN  Becomes([Value(Made([i \in DOMAIN items |-> ProtectedValue(items[i], cur)]))
                    EXCEPT !.bare = cur.bare])

\* sort, map, select, reject and groupby set no parent.
Sort ==
    /\ Evaluating /\ KindOf(cur.data) = "list"
    /\ Becomes([Value(Made(AllItems(cur))) EXCEPT !.bare = TRUE])

\* Neither does attr.
Attribute(i) ==
    /\ Evaluating /\ i \in ItemsOf(cur.data)
    /\ \E found \in Items(cur, i) :
          BecomesFound([found EXCEPT !.value.bare = TRUE])

\* dictsort: the pairs have parents, the values in them have none.
DictSort ==
    /\ Evaluating /\ KindOf(cur.data) = "map"
    /\ Becomes([Value(Made([i \in ItemsOf(cur.data) |->
                    ProtectedValue(Value(KeyValuePair(Value(ByReference(Child(cur.data.at, i))))), cur)]))
                EXCEPT !.bare = cur.bare])

\* list: the list itself, whose parent is replaced, or the keys of a map, which are copied.
ValueConverter ==
    /\ Evaluating /\ KindOf(cur.data) \in {"list", "glist", "map", "gmap"}
    /\ LET list == IF IsList(cur.data) THEN [cur EXCEPT !.parent = Nothing, !.bare = @ \/ cur.parent # Nothing]
                   ELSE Value(Made([i \in ItemsOf(cur.data) |-> Value(Own)]))
       IN  Becomes(ProtectedValue(list, cur))

(* What becomes of it. *)

\* The end of an expression statement.
WriteValue == Evaluating /\ Becomes(NoValue)

\* Mutant of Set: a loop sets the variables of the template.
SetOuter(name) ==
    /\ Evaluating
    /\ outer' = [outer EXCEPT ![name] = cur]
    /\ cur' = NoValue
    /\ UNCHANGED <<trees, inner, loop, item>>

Set(name) ==
    /\ Evaluating
    /\ IF InLoop THEN inner' = [inner EXCEPT ![name] = cur] /\ UNCHANGED outer
       ELSE outer' = [outer EXCEPT ![name] = cur] /\ UNCHANGED inner
    /\ cur' = NoValue
    /\ UNCHANGED <<trees, loop, item>>

\* RenderLoop: the value of the loop lives as long as the loop, its items are bound to
\* the loop's variable one after the other, in a new scope.
NoInner == inner' = [name \in Names |-> NoValue]

For ==
    /\ Evaluating /\ ~InLoop /\ IsList(cur.data)
    /\ loop' = cur /\ cur' = NoValue
    /\ UNCHANGED <<trees, outer, inner, item>>

Bind(i) ==
    /\ ~Evaluating /\ InLoop /\ i \in ItemsOf(loop.data)
    /\ \E found \in Items(loop, i) : item' = found.value /\ trees' = found.trees
    /\ NoInner
    /\ UNCHANGED <<cur, outer, loop>>

EndFor ==
    /\ ~Evaluating /\ InLoop
    /\ loop' = NoValue /\ item' = NoValue /\ NoInner
    /\ UNCHANGED <<trees, cur, outer>>

Places == 1 .. 2

Step ==
    \/ ValueOfParams \/ (\E name \in Names : ValueRef(name)) \/ ValueOfItem
    \/ CallArbitraryFn \/ UserDefinedFilter
    \/ \E i \in Places : EvaluateSubscript(i) \/ SequenceAccessor(i) \/ Attribute(i) \/ Bind(i)
    \/ ReverseFilter \/ Sort \/ DictSort \/ ValueConverter
    \/ WriteValue
    \/ \E name \in Names : Set(name)
    \/ For \/ EndFor

Next == steps < MaxSteps /\ steps' = steps + 1 /\ Step

Spec == Init /\ [][Next]_vars
-----------------------------------------------------------------------------
(* Properties. *)

\* The trees a value keeps alive, and the places it looks at.
RECURSIVE Keeps(_)
Keeps(value) ==
    LET KeptBy(data) == (IF data.how = "shared" THEN {data.at.tree} ELSE {})
                        \union UNION {Keeps(data.items[i]) : i \in DOMAIN data.items}
    IN  KeptBy(value.data) \union KeptBy(value.parent)

RECURSIVE LooksAt(_)
LooksAt(value) ==
    (IF value.data.how \in {"view", "ref", "shared"} THEN {value.data.at} ELSE {})
    \union UNION {LooksAt(value.data.items[i]) : i \in DOMAIN value.data.items}

RECURSIVE HasBare(_)
HasBare(value) ==
    \/ value.bare
    \/ value.data.passed
    \/ \E i \in DOMAIN value.data.items : HasBare(value.data.items[i])

Living == {cur, loop, item} \union {outer[name] : name \in Names} \union {inner[name] : name \in Names}
Alive == {0} \union UNION {Keeps(value) : value \in Living}
Dangles(value) == \E place \in LooksAt(value) : place.tree \notin Alive

\* A value that is at most one step into a tree, made without one of the steps that set
\* no parent, keeps that tree alive itself, or the running loop does: whatever else is
\* dropped or overwritten, it can be read (SubscriptExpression::Evaluate, ProtectedValue
\* of the filters).
OneStepIsKept ==
    \A value \in Living :
        ~HasBare(value) =>
            \A place \in LooksAt(value) :
                Len(place.path) <= 1 => place.tree \in {0} \union Keeps(value) \union Keeps(loop)

\* A loop that can be read when it begins can be read to its end, and so can its items,
\* which have no parents: nothing its body does drops an owner (RenderLoop keeps loopVal,
\* and the body sets variables of its own).
LoopStaysReadable ==
    [][InLoop /\ loop' = loop /\ ~Dangles(loop) => ~Dangles(loop)' /\ ~Dangles(item)']_vars
=============================================================================

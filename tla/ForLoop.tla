------------------------------- MODULE ForLoop -------------------------------
(***************************************************************************)
(* ForStatement::RenderLoop of src/src/statements.cpp: one rendering of a  *)
(* {% for %} statement.  The items are read ahead by one, the loop variable *)
(* is kept up to date, and the number of items, when the list does not say *)
(* it, is found out only when the body asks for loop.length.               *)
(*                                                                         *)
(* An item is named by its place in the source list.  A body may ask for   *)
(* loop.length or not; all else it does leaves the loop's state alone.     *)
(* {% for %} with `recursive' is not modelled: loop(x) is another          *)
(* rendering, with its own state.                                          *)
(*                                                                         *)
(* `rendered' and `late' are history: no guard reads them.                 *)
(***************************************************************************)
EXTENDS Integers, SequencesExt

CONSTANTS
    MaxItems,   \* bound: the length of the source list
    VarCounts,  \* the numbers of variables of the statement, m_vars.size()
    None,       \* no value
    Moved       \* what a value is after std::move has taken it

ASSUME ForLoopAssumption ==
    /\ MaxItems \in Nat
    /\ VarCounts \subseteq Nat \ {0}
    /\ None \notin Nat /\ Moved \notin Nat /\ None # Moved

VARIABLES
    form,          \* the statement and the list it is rendered with
    pc,            \* "enter", "head", "body", "leave", "done"
    scopes,        \* RenderContext::m_scopes, what each scope was entered for
    bound,         \* the variables in the loop's scope: the item each is from
    loopVar,       \* the members of the loop variable
    enumerator,    \* enumerator, and the list it walks
    listSize,
    itemIdx,
    isLast,
    curValue, prevValue, nextValue,
    loopRendered,
    elseRendered,  \* whether the else branch has been rendered
    rendered,      \* history: what each rendering of the body saw
    late           \* history: loop.length was first asked for in the last round

lists == <<enumerator, listSize, isLast>>
values == <<curValue, prevValue, nextValue>>
history == <<rendered, late>>
vars == <<form, pc, scopes, bound, loopVar, lists, itemIdx, values, loopRendered,
          elseRendered, history>>

Places == 1..MaxItems
MaxVars == CHOOSE m \in VarCounts : \A k \in VarCounts : k <= m
NotAList == -1
NoSize == -1

\* What the first n elements of s leave when those outside S are passed over, for
\* each n.
Filtered(s, S) ==
    LET left[n \in 0..Len(s)] ==
            IF n = 0 THEN <<>>
            ELSE IF s[n] \in S THEN Append(left[n - 1], s[n]) ELSE left[n - 1]
    IN left

\* The items the loop goes through: without an if part, all of them.
Chosen(f) == Filtered([i \in 1..f.count |-> i], {i \in Places : f.passes[i]})[f.count]

\* sized: the list says its size, and there is no if part.  arity: how many values
\* an item holds.
Forms ==
    [isList : BOOLEAN, count : 0..MaxItems, passes : [Places -> BOOLEAN], sized : BOOLEAN,
     varCount : VarCounts, arity : [Places -> {NotAList} \union 0..MaxVars],
     hasElse : BOOLEAN]

\* The details that make no difference are fixed.
IsCanonical(f) ==
    /\ \A i \in Places : i > f.count => f.passes[i] /\ f.arity[i] = 1
    /\ f.varCount = 1 => \A i \in Places : f.arity[i] = 1
    /\ f.sized => \A i \in Places : f.passes[i]

NoLoop == [length |-> None, index |-> 0, first |-> FALSE, last |-> FALSE,
           previtem |-> None, nextitem |-> None]

Init ==
    /\ form \in {f \in Forms : IsCanonical(f)}
    /\ pc = "enter"
    /\ scopes = <<"outer">>
    /\ bound = [v \in 1..form.varCount |-> None]
    /\ loopVar = NoLoop
    /\ enumerator = [items |-> <<>>, at |-> 0, indexed |-> FALSE]
    /\ listSize = NoSize
    /\ itemIdx = 0
    /\ isLast = FALSE
    /\ curValue = None /\ prevValue = None /\ nextValue = None
    /\ loopRendered = FALSE
    /\ elseRendered = FALSE
    /\ rendered = <<>>
    /\ late = FALSE
-----------------------------------------------------------------------------
(* The enumerators.  Past the end, a generator keeps the last value it made and *)
(* is asked again each time (other lists without a size may do otherwise, which *)
(* only a loop that is `late' meets); a list's enumerator goes on counting.     *)

Start(s, indexed) == [items |-> s, at |-> 0, indexed |-> indexed]
AtEnd(e) == e.at >= Len(e.items)
MoveNext(e) == IF AtEnd(e) /\ ~e.indexed THEN e ELSE [e EXCEPT !.at = @ + 1]
GetCurrent(e) == IF e.at = 0 THEN None ELSE e.items[e.at]

\* The items left, beginning with the current one; a do loop, at least one.
Rest(e) == SubSeq(e.items, e.at, Len(e.items))
-----------------------------------------------------------------------------
(* The rendering. *)

RenderElse == elseRendered' = form.hasElse

\* A value that is no list: the else branch is rendered.
EnterNoList ==
    /\ pc = "enter" /\ ~form.isList
    /\ RenderElse
    /\ pc' = "leave"
    /\ scopes' = Append(scopes, "loop")
    /\ UNCHANGED <<form, bound, loopVar, lists, itemIdx, values, loopRendered, history>>

Enter ==
    /\ pc = "enter" /\ form.isList
    /\ scopes' = Append(scopes, "loop")
    /\ LET e == Start(Chosen(form), form.sized)
       IN /\ enumerator' = MoveNext(e)
          /\ isLast' = AtEnd(e)
    /\ listSize' = IF form.sized THEN form.count ELSE NoSize
    /\ loopVar' = [loopVar EXCEPT !.length = IF form.sized THEN form.count ELSE None]
    /\ pc' = "head"
    /\ UNCHANGED <<form, bound, itemIdx, values, loopRendered, elseRendered, history>>

\* Mutant of Bind: the variables an item has no value for are cleared.
BindAll(item) ==
    [v \in 1..form.varCount |->
        IF form.varCount = 1 \/ (item \in Places /\ v <= form.arity[item]) THEN item ELSE None]

\* One variable gets the item; several get its values, as far as they go.
Bind(item) ==
    [v \in 1..form.varCount |->
        IF form.varCount = 1 \/ (item \in Places /\ v <= form.arity[item]) THEN item ELSE bound[v]]

\* An item that is no list cannot be unpacked.  A list that has been moved away
\* may be an empty list or none.
Unpackable(item) ==
    form.varCount = 1 \/ item = Moved \/ (item \in Places /\ form.arity[item] # NotAList)
Skippable(item) == form.varCount > 1 /\ (Unpackable(item) => item = Moved)

\* Mutant of Advance: the list is read ahead before the next value is taken over.
AdvanceFirst ==
    LET e == MoveNext(enumerator)
        last == AtEnd(enumerator)
        current == IF itemIdx = 0 \/ last THEN GetCurrent(enumerator) ELSE GetCurrent(e)
    IN /\ enumerator' = e
       /\ isLast' = last
       /\ prevValue' = curValue
       /\ curValue' = current
       /\ nextValue' = IF last THEN Moved ELSE GetCurrent(e)
       /\ loopVar' = [loopVar EXCEPT
                        !.previtem = IF itemIdx = 0 THEN @ ELSE curValue,
                        !.nextitem = IF last THEN None ELSE GetCurrent(e),
                        !.index = itemIdx + 1, !.first = (itemIdx = 0), !.last = last]

\* The values are shifted by one, and the list is read one item ahead.
Advance ==
    LET e == MoveNext(enumerator)
        last == AtEnd(enumerator)
        current == IF itemIdx = 0 THEN GetCurrent(enumerator) ELSE nextValue
    IN /\ enumerator' = e
       /\ isLast' = last
       /\ prevValue' = curValue
       /\ curValue' = current
       /\ nextValue' = IF ~last THEN GetCurrent(e) ELSE IF itemIdx = 0 THEN nextValue ELSE Moved
       /\ loopVar' = [loopVar EXCEPT
                        !.previtem = IF itemIdx = 0 THEN @ ELSE curValue,
                        !.nextitem = IF last THEN None ELSE GetCurrent(e),
                        !.index = itemIdx + 1, !.first = (itemIdx = 0), !.last = last]

\* The next item is not unpackable: the body is left out.
Skip ==
    /\ pc = "head" /\ ~isLast
    /\ Advance
    /\ Skippable(curValue')
    /\ loopRendered' = TRUE
    /\ itemIdx' = itemIdx + 1
    /\ UNCHANGED <<form, pc, scopes, bound, listSize, elseRendered, history>>

EnterBody ==
    /\ pc = "head" /\ ~isLast
    /\ Advance
    /\ Unpackable(curValue')
    /\ loopRendered' = TRUE
    /\ bound' = Bind(curValue')
    /\ scopes' = Append(scopes, "body")
    /\ rendered' = Append(rendered, [item |-> curValue', loop |-> loopVar', bound |-> bound'])
    /\ pc' = "body"
    /\ UNCHANGED <<form, listSize, itemIdx, elseRendered, late>>

\* Mutant of MakeIndexedList: the item being rendered is not counted.
MakeIndexedListShort ==
    LET items == Rest(enumerator)
        e == Start(items, TRUE)
    IN /\ listSize' = itemIdx + Len(items)
       /\ enumerator' = MoveNext(e)
       /\ isLast' = FALSE

\* The items left are taken out of the enumerator, counted and put in a list, and
\* the loop goes on with the list.
MakeIndexedList ==
    LET items == Rest(enumerator)
        e == Start(items, TRUE)
    IN /\ listSize' = itemIdx + Len(items) + 1
       /\ enumerator' = MoveNext(e)
       /\ isLast' = FALSE

\* The body asks for loop.length, and the size is not known yet.
AskLength ==
    /\ pc = "body" /\ listSize = NoSize
    /\ MakeIndexedList
    /\ loopVar' = [loopVar EXCEPT !.length = listSize']
    /\ rendered' = [rendered EXCEPT ![Len(rendered)].loop.length = listSize']
    /\ late' = isLast
    /\ UNCHANGED <<form, pc, scopes, bound, itemIdx, values, loopRendered, elseRendered>>

LeaveBody ==
    /\ pc = "body"
    /\ scopes' = Front(scopes)
    /\ itemIdx' = itemIdx + 1
    /\ pc' = "head"
    /\ UNCHANGED <<form, bound, loopVar, lists, values, loopRendered, elseRendered, history>>

EndLoop ==
    /\ pc = "head" /\ isLast
    /\ IF loopRendered THEN UNCHANGED elseRendered ELSE RenderElse
    /\ pc' = "leave"
    /\ UNCHANGED <<form, scopes, bound, loopVar, lists, itemIdx, values, loopRendered, history>>

Leave ==
    /\ pc = "leave"
    /\ scopes' = Front(scopes)
    /\ pc' = "done"
    /\ UNCHANGED <<form, bound, loopVar, lists, itemIdx, values, loopRendered, elseRendered,
                   history>>

Next ==
    \/ EnterNoList \/ Enter
    \/ Skip \/ EnterBody \/ AskLength \/ LeaveBody
    \/ EndLoop \/ Leave

Spec == Init /\ [][Next]_vars
-----------------------------------------------------------------------------
(* What RenderLoop promises. *)

Expected ==
    LET c == Chosen(form)
    IN Filtered(c, {i \in Places : Unpackable(i)})[Len(c)]

\* The body is rendered for each item that passes the if part, once and in the
\* order of the list.  Only when loop.length is first asked for in the last round
\* there is a round more, and it is the last one.
RendersChosen ==
    /\ \A k \in 1..Len(rendered) : k <= Len(Expected) => rendered[k].item = Expected[k]
    /\ Len(rendered) <= Len(Expected) + (IF late THEN 1 ELSE 0)
    /\ pc = "done" /\ form.isList => Len(rendered) >= Len(Expected)

\* What the body sees of the loop is where its item stands among the chosen ones:
\* index, first, last, the neighbours and, once it is known, the length, whether
\* the loop is still reading the source or, after loop.length, the list made from
\* it.  Only a length first asked for in the last round is left aside.
LoopVarIsPosition ==
    ~late =>
        \A k \in 1..Len(rendered) :
            LET l == rendered[k].loop
                c == Chosen(form)
            IN /\ l.index \in 1..Len(c) /\ c[l.index] = rendered[k].item
               /\ l.first = (l.index = 1)
               /\ l.last = (l.index = Len(c))
               /\ l.previtem = IF l.first THEN None ELSE c[l.index - 1]
               /\ l.nextitem = IF l.last THEN None ELSE c[l.index + 1]
               /\ l.length \in {None, Len(c)}

\* A variable of the statement is from the item rendered, or, where the item has
\* too few values, from the nearest item before it that had enough.
BoundFromNearest ==
    ~late =>
        \A k \in 1..Len(rendered), v \in 1..form.varCount :
            LET enough == {j \in 1..k : form.arity[Expected[j]] >= v}
            IN rendered[k].bound[v] =
                 IF enough = {} THEN None
                 ELSE Expected[CHOOSE j \in enough : \A m \in enough : m <= j]
=============================================================================

----------------------- MODULE StatementsParserTreeProofs -----------------------
(* What holds of the tree of renderers for templates of any length: it is in  *)
(* the order of the source, no renderer is lost without an error, and a       *)
(* statement that is not open any more is final.                              *)
(*                                                                            *)
(* As in StatementsParserProofs, whose lemma StepHasShape is used, the proofs *)
(* go over the eight effects a handler may have.                              *)
EXTENDS StatementsParserProofs

\* The three parts of DocumentOrder.
StackOrder == Increasing(stack)
BodyOrder ==
    \A p \in Ids :
        /\ Increasing(comp[p])
        /\ Increasing(branches[p])
        /\ \A x \in Range(comp[p]) \union Range(branches[p]) : p < x /\ x <= pos
NestingOrder ==
    \A i \in 1..(Len(stack) - 1) :
        \A x \in Range(comp[stack[i]]) :
            x < stack[i + 1] \/ (x = stack[i + 1] /\ kind[x] = "Extends")

\* What is on the stack has been handled.
StackHandled == \A i \in 1..Len(stack) : stack[i] <= pos

\* Inductive: a handler adds Here, which follows all that has been handled, or a
\* statement of the stack, which follows all that is in the body below it.
OrderInv == StackInv /\ StackOrder /\ BodyOrder /\ NestingOrder /\ StackHandled

\* A statement gets its branches when it is closed.
OpenUnbranched == \A i \in 1..Len(stack) : branches[stack[i]] = <<>>

\* A block has a name, and is bound under it.
BlocksNamed ==
    /\ \A x \in Ids : kind[x] = "Block" => name[x] \in BlockNames
    /\ \A p \in Ids, n \in BlockNames : blocks[p][n] # Root => name[blocks[p][n]] = n

\* A block is bound before the next one is opened.
BlocksInOrder ==
    /\ \A p \in Ids, n \in BlockNames : blocks[p][n] <= pos
    /\ \A i \in 1..(Len(stack) - 1) : \A n \in BlockNames : blocks[stack[i]][n] < stack[i + 1]

\* Inductive: nothing is lost when a statement is closed because its branches
\* replace none, and when a block is because the one it replaces is an earlier one
\* of the same name.
TreeInv == OrderInv /\ OpenUnbranched /\ BlocksNamed /\ BlocksInOrder /\ NothingLostSilently
-----------------------------------------------------------------------------
(* Order. *)

\* What TypeOK says of the variables, and arithmetic of places.
LEMMA TreeTypes ==
    ASSUME TypeOK
    PROVE  /\ pos \in Nat /\ Ids \subseteq Nat
           /\ stack \in Seq(Ids) /\ Len(stack) \in Nat
           /\ \A i \in 1..Len(stack) : stack[i] \in Ids /\ stack[i] \in Nat
           /\ stack # <<>> => Len(stack) \in 1..Len(stack) /\ Last(stack) = stack[Len(stack)]
           /\ kind \in [Ids -> Kinds]
           /\ comp \in [Ids -> Seq(Ids)] /\ branches \in [Ids -> Seq(Ids)]
           /\ blocks \in [Ids -> [BlockNames -> Ids]]
<1>1. stack \in Seq(Ids) /\ Len(stack) \in Nat /\ pos \in Ids
  BY LenProperties DEF TypeOK
<1>2. pos \in Nat /\ Ids \subseteq Nat
  BY <1>1, ParserAssumption DEF Ids
<1>3. \A i \in 1..Len(stack) : stack[i] \in Ids /\ stack[i] \in Nat
  BY <1>1, <1>2, ElementOfSeq
<1>4. stack # <<>> => Len(stack) \in 1..Len(stack) /\ Last(stack) = stack[Len(stack)]
  BY <1>1, EmptySeq DEF Last
<1> QED BY <1>1, <1>2, <1>3, <1>4 DEF TypeOK

\* A sequence that is increasing stays so when something greater is appended.
LEMMA AppendOrder ==
    ASSUME NEW s \in Seq(Ids), Increasing(s), NEW e \in Ids, \A x \in Range(s) : x < e
    PROVE  Increasing(Append(s, e))
<1>1. /\ Len(s) \in Nat /\ DOMAIN s = 1..Len(s)
      /\ Len(Append(s, e)) = Len(s) + 1
      /\ \A i \in 1..Len(s) : Append(s, e)[i] = s[i]
      /\ Append(s, e)[Len(s) + 1] = e
  BY AppendFacts, LenProperties
<1>2. \A i \in 1..Len(s) : s[i] < e
  BY <1>1 DEF Range
<1> QED BY <1>1, <1>2 DEF Increasing

\* The body of p gets a renderer more, which comes after all that is in it.
LEMMA AddToBody ==
    ASSUME TypeOK, BodyOrder, NEW p \in Ids, NEW e \in Ids,
           comp' = [comp EXCEPT ![p] = Append(@, e)],
           p < e, \A x \in Range(comp[p]) : x < e
    PROVE  \A q \in Ids :
              /\ Increasing(comp'[q])
              /\ Range(comp'[q]) = IF q = p THEN Range(comp[q]) \union {e} ELSE Range(comp[q])
              /\ \A x \in Range(comp'[q]) : q < x
<1>1. comp \in [Ids -> Seq(Ids)]
  BY TreeTypes
<1>2. Increasing(comp'[p]) /\ Range(comp'[p]) = Range(comp[p]) \union {e}
  <2>1. comp[p] \in Seq(Ids) /\ comp'[p] = Append(comp[p], e) /\ Increasing(comp[p])
    BY <1>1 DEF BodyOrder
  <2> QED BY <2>1, AppendOrder, AppendFacts
<1>3. \A q \in Ids \ {p} : comp'[q] = comp[q]
  BY <1>1
<1>4. ASSUME NEW q \in Ids
      PROVE  /\ Increasing(comp'[q])
             /\ Range(comp'[q]) = IF q = p THEN Range(comp[q]) \union {e} ELSE Range(comp[q])
             /\ \A x \in Range(comp'[q]) : q < x
  <2>1. Increasing(comp[q]) /\ \A x \in Range(comp[q]) : q < x
    BY DEF BodyOrder
  <2>2. CASE q = p
    BY <1>2, <2>1, <2>2
  <2>3. CASE q # p
    BY <1>3, <2>1, <2>3
  <2> QED BY <2>2, <2>3
<1> QED BY <1>4

\* The places of the stack are different statements.
LEMMA StackDistinct ==
    ASSUME TypeOK, StackOrder, NEW i \in 1..Len(stack), NEW j \in 1..Len(stack), i # j
    PROVE  stack[i] # stack[j]
<1>1. Len(stack) \in Nat /\ stack[i] \in Nat /\ stack[j] \in Nat
  BY TreeTypes
<1>2. CASE i < j
  BY <1>1, <1>2 DEF StackOrder, Increasing
<1>3. CASE j < i
  BY <1>1, <1>3 DEF StackOrder, Increasing
<1> QED BY <1>1, <1>2, <1>3

\* The stack is cut, or stays as it is, and at most the body of its new top changes.
LEMMA CutOrder ==
    ASSUME OrderInv, TypeOK', Consumed, KindsKept, NEW i \in 0..Len(stack),
           Len(stack') = i, \A j \in 1..i : stack'[j] = stack[j],
           \A j \in 1..(i - 1) : comp'[stack[j]] = comp[stack[j]]
    PROVE  StackOrder' /\ NestingOrder' /\ StackHandled'
<1>1. TypeOK /\ StackOrder /\ NestingOrder /\ StackHandled /\ Made
  BY DEF OrderInv, StackInv
<1>2. /\ Len(stack) \in Nat /\ pos \in Nat /\ Ids \subseteq Nat
      /\ \A j \in 1..Len(stack) : stack[j] \in Ids /\ stack[j] \in Nat
      /\ comp \in [Ids -> Seq(Ids)]
  BY <1>1, TreeTypes
<1>3. StackOrder'
  BY <1>1, <1>2 DEF StackOrder, Increasing
<1>4. StackHandled'
  <2>1. \A j \in 1..i : j \in 1..Len(stack) /\ stack[j] <= pos /\ stack[j] \in Nat
    BY <1>1, <1>2 DEF StackHandled
  <2> QED BY <1>2, <2>1 DEF StackHandled, Consumed
<1>5. ASSUME NEW j \in 1..(i - 1), NEW x \in Range(comp'[stack'[j]])
      PROVE  x < stack'[j + 1] \/ (x = stack'[j + 1] /\ kind'[x] = "Extends")
  <2>1. j \in 1..(Len(stack) - 1) /\ j \in 1..i /\ j + 1 \in 1..i /\ j + 1 \in 1..Len(stack)
    BY <1>2
  <2>2. stack'[j + 1] = stack[j + 1] /\ x \in Range(comp[stack[j]])
    BY <1>5, <2>1
  <2>3. x < stack[j + 1] \/ (x = stack[j + 1] /\ kind[x] = "Extends")
    BY <1>1, <2>1, <2>2 DEF NestingOrder
  <2>4. kind[x] = "Extends" /\ x = stack[j + 1] => kind'[x] = "Extends"
    BY <1>2, <2>1 DEF KindsKept
  <2> QED BY <2>2, <2>3, <2>4
<1>6. NestingOrder'
  BY <1>5 DEF NestingOrder
<1> QED BY <1>3, <1>4, <1>6

\* A statement is pushed, and at most the body below it gets it too.
LEMMA PushOrder ==
    ASSUME OrderInv, TypeOK', Consumed, KindsKept, stack' = Append(stack, Here),
           \A p \in Ids : \/ Range(comp'[p]) = Range(comp[p])
                          \/ /\ kind'[Here] = "Extends"
                             /\ stack # <<>> /\ p = Last(stack)
                             /\ Range(comp'[p]) = Range(comp[p]) \union {Here}
    PROVE  StackOrder' /\ NestingOrder' /\ StackHandled'
<1>1. TypeOK /\ StackOrder /\ BodyOrder /\ NestingOrder /\ StackHandled
  BY DEF OrderInv, StackInv
<1>2. /\ Len(stack) \in Nat /\ pos \in Nat /\ Ids \subseteq Nat /\ stack \in Seq(Ids)
      /\ \A j \in 1..Len(stack) : stack[j] \in Ids /\ stack[j] \in Nat
      /\ stack # <<>> => Last(stack) = stack[Len(stack)]
      /\ comp \in [Ids -> Seq(Ids)]
  BY <1>1, TreeTypes
<1>3. Here = pos + 1 /\ pos' = pos + 1 /\ Here \in Ids
  BY <1>2, ParserAssumption DEF Consumed, Here, Ids
<1>4. /\ Len(stack') = Len(stack) + 1
      /\ \A j \in 1..Len(stack) : stack'[j] = stack[j]
      /\ stack'[Len(stack) + 1] = Here
  BY <1>2, <1>3, AppendFacts
<1>5. ASSUME NEW j \in 1..Len(stack')
      PROVE  /\ stack'[j] <= pos'
             /\ \A k \in 1..Len(stack') : k < j => stack'[k] < stack'[j]
  <2>1. \A k \in 1..Len(stack) : stack'[k] = stack[k] /\ stack[k] \in Nat /\ stack[k] <= pos
    BY <1>1, <1>2, <1>4 DEF StackHandled
  <2>2. CASE j = Len(stack) + 1
    BY <1>2, <1>3, <1>4, <2>1, <2>2
  <2>3. CASE j \in 1..Len(stack)
    <3>1. \A k \in 1..Len(stack) : k < j => stack[k] < stack[j]
      BY <1>1, <2>3 DEF StackOrder, Increasing
    <3> QED BY <1>2, <1>3, <1>4, <2>1, <2>3, <3>1
  <2> QED BY <1>2, <1>4, <2>2, <2>3
<1>6. StackHandled' /\ StackOrder'
  BY <1>5 DEF StackHandled, StackOrder, Increasing
<1>7. ASSUME NEW j \in 1..Len(stack), NEW x \in Range(comp'[stack'[j]])
      PROVE  x < stack'[j + 1] \/ (x = stack'[j + 1] /\ kind'[x] = "Extends")
  <2>1. stack'[j] = stack[j] /\ stack[j] \in Ids
    BY <1>2, <1>4
  <2>2. CASE j = Len(stack)
    <3>1. stack'[j + 1] = Here
      BY <1>4, <2>2
    <3>2. \A y \in Range(comp[stack[j]]) : y <= pos
      BY <1>1, <2>1 DEF BodyOrder
    <3>3. \A y \in Range(comp[stack[j]]) : y \in Nat
      <4>1. comp[stack[j]] \in Seq(Ids)
        BY <1>2, <2>1
      <4> QED BY <1>2, <4>1, RangeOfSeq
    <3>4. x \in Range(comp[stack[j]]) \/ (x = Here /\ kind'[Here] = "Extends")
      BY <1>7, <2>1
    <3> QED BY <1>2, <1>3, <3>1, <3>2, <3>3, <3>4
  <2>3. CASE j # Len(stack)
    <3>1. j \in 1..(Len(stack) - 1) /\ j + 1 \in 1..Len(stack) /\ Len(stack) \in 1..Len(stack)
      BY <1>2, <2>3
    <3>2. stack # <<>> => stack[j] # Last(stack)
      BY <1>1, <1>2, <2>3, <3>1, StackDistinct
    <3>3. x \in Range(comp[stack[j]])
      BY <1>7, <2>1, <3>2
    <3>4. x < stack[j + 1] \/ (x = stack[j + 1] /\ kind[x] = "Extends")
      BY <1>1, <3>1, <3>3 DEF NestingOrder
    <3>5. x = stack[j + 1] /\ kind[x] = "Extends" => kind'[x] = "Extends"
      BY <1>2, <3>1 DEF KindsKept
    <3> QED BY <1>4, <3>1, <3>4, <3>5
  <2> QED BY <2>2, <2>3
<1>8. NestingOrder'
  BY <1>2, <1>4, <1>7 DEF NestingOrder
<1> QED BY <1>6, <1>8

\* What is in bodies and branches are ids.
LEMMA PlacesAreIds ==
    ASSUME TypeOK, NEW p \in Ids
    PROVE  /\ Range(comp[p]) \subseteq Ids /\ Range(branches[p]) \subseteq Ids
           /\ \A x \in Range(comp[p]) \union Range(branches[p]) : x \in Nat
<1>1. Ids \subseteq Nat /\ comp[p] \in Seq(Ids) /\ branches[p] \in Seq(Ids)
  BY TreeTypes
<1>2. Range(comp[p]) \subseteq Ids /\ Range(branches[p]) \subseteq Ids
  BY <1>1, RangeOfSeq
<1> QED BY <1>1, <1>2

\* Bodies and branches stay in order when what is added to them comes last and has
\* been handled.
LEMMA BodiesKept ==
    ASSUME TypeOK, BodyOrder, Consumed,
           \A q \in Ids : /\ Increasing(comp'[q])
                          /\ \A x \in Range(comp'[q]) : q < x
                          /\ \A x \in Range(comp'[q]) : x \in Range(comp[q]) \/ x <= pos + 1,
           \A q \in Ids : \/ branches'[q] = branches[q]
                          \/ /\ Increasing(branches'[q])
                             /\ \A x \in Range(branches'[q]) : q < x /\ x <= pos + 1
    PROVE  BodyOrder'
<1>1. pos \in Nat /\ pos' = pos + 1
  BY TreeTypes DEF Consumed
<1>2. ASSUME NEW q \in Ids
      PROVE  /\ Increasing(comp'[q]) /\ Increasing(branches'[q])
             /\ \A x \in Range(comp'[q]) \union Range(branches'[q]) : q < x /\ x <= pos'
  <2>1. /\ Increasing(branches[q])
        /\ \A x \in Range(comp[q]) \union Range(branches[q]) : q < x /\ x <= pos /\ x \in Nat
    BY PlacesAreIds DEF BodyOrder
  <2>2. \A x \in Range(comp[q]) \union Range(branches[q]) : q < x /\ x <= pos + 1
    BY <1>1, <2>1
  <2> QED BY <1>1, <2>1, <2>2
<1> QED BY <1>2 DEF BodyOrder

\* A statement that is closed becomes part of the body below it, which it follows.
LEMMA ClosedFollows ==
    ASSUME OrderInv, NEW i \in 2..Len(stack), kind[stack[i]] # "Extends"
    PROVE  /\ stack[i - 1] \in Ids /\ stack[i] \in Ids
           /\ stack[i - 1] < stack[i] /\ stack[i] <= pos
           /\ \A x \in Range(comp[stack[i - 1]]) : x < stack[i]
<1>1. TypeOK /\ StackOrder /\ NestingOrder /\ StackHandled
  BY DEF OrderInv, StackInv
<1>2. /\ Len(stack) \in Nat
      /\ \A j \in 1..Len(stack) : stack[j] \in Ids /\ stack[j] \in Nat
  BY <1>1, TreeTypes
<1>3. i - 1 \in 1..(Len(stack) - 1) /\ i - 1 \in 1..Len(stack) /\ i \in 1..Len(stack)
      /\ (i - 1) + 1 = i /\ i - 1 < i
  BY <1>2
<1>4. stack[i - 1] < stack[i] /\ stack[i] <= pos
  BY <1>1, <1>3 DEF StackOrder, Increasing, StackHandled
<1>5. \A x \in Range(comp[stack[i - 1]]) : x < stack[i]
  BY <1>1, <1>3 DEF NestingOrder
<1> QED BY <1>2, <1>3, <1>4, <1>5

\* The branches popped from above the statement they belong to follow it, in order.
LEMMA BranchesFollow ==
    ASSUME OrderInv, NEW i \in 1..Len(stack)
    PROVE  LET popped == SubSeq(stack, i + 1, Len(stack))
           IN  /\ popped \in Seq(Ids)
               /\ Increasing(popped)
               /\ \A x \in Range(popped) : stack[i] < x /\ x <= pos
               /\ \A j \in (i + 1)..Len(stack) : stack[j] \in Range(popped)
<1> DEFINE popped == SubSeq(stack, i + 1, Len(stack))
<1>1. TypeOK /\ StackOrder /\ StackHandled
  BY DEF OrderInv, StackInv
<1>2. /\ stack \in Seq(Ids) /\ Len(stack) \in Nat
      /\ \A j \in 1..Len(stack) : stack[j] \in Nat
  BY <1>1, TreeTypes
<1>3. /\ popped \in Seq(Ids)
      /\ Len(popped) = Len(stack) - i
      /\ \A k \in 1..(Len(stack) - i) : popped[k] = stack[i + k]
      /\ \A x \in Range(popped) : \E j \in (i + 1)..Len(stack) : x = stack[j]
  <2>1. i \in 0..Len(stack)
    BY <1>2
  <2> QED BY <1>2, <2>1, SuffixFacts
<1>4. Increasing(popped)
  <2>1. ASSUME NEW j \in 1..Len(popped), NEW k \in 1..Len(popped), j < k
        PROVE  popped[j] < popped[k]
    <3>1. i + j \in 1..Len(stack) /\ i + k \in 1..Len(stack) /\ i + j < i + k
      BY <1>2, <1>3, <2>1
    <3>2. popped[j] = stack[i + j] /\ popped[k] = stack[i + k]
      BY <1>3
    <3> HIDE DEF popped
    <3> QED BY <1>1, <3>1, <3>2 DEF StackOrder, Increasing
  <2> HIDE DEF popped
  <2> QED BY <2>1 DEF Increasing
<1>5. ASSUME NEW x \in Range(popped)
      PROVE  stack[i] < x /\ x <= pos
  <2>1. PICK j \in (i + 1)..Len(stack) : x = stack[j]
    BY <1>3
  <2>2. j \in 1..Len(stack) /\ i < j
    BY <1>2
  <2> QED BY <1>1, <2>1, <2>2 DEF StackOrder, Increasing, StackHandled
<1>6. ASSUME NEW j \in (i + 1)..Len(stack)
      PROVE  stack[j] \in Range(popped)
  <2>1. j - i \in 1..(Len(stack) - i) /\ i + (j - i) = j
    BY <1>2
  <2>2. popped[j - i] = stack[j] /\ DOMAIN popped = 1..(Len(stack) - i)
    BY <1>3, <2>1, LenProperties
  <2> HIDE DEF popped
  <2> QED BY <2>1, <2>2 DEF Range
<1> QED BY <1>3, <1>4, <1>5, <1>6

\* The kinds of what has been made are kept in every shape.
LEMMA ShapeKinds ==
    ASSUME StackInv, Shape
    PROVE  Consumed /\ KindsKept /\ TypeOK' /\ StackInv'
<1>1. /\ TypeOK /\ Fresh /\ Rooted
  BY DEF StackInv
<1>2. Consumed
  BY DEF Shape, IdleShape, UndefinedShape, DropShape, OpenShape, LeafShape, ExtendsShape,
         CloseShape, OverrideShape, Continues
<1>3. UNCHANGED kind => KindsKept
  BY <1>1, <1>2, SameKind
<1>4. ASSUME NEW k \in OpenKinds \union {"Block", "Extends"} \union LeafTypes,
             kind' = [kind EXCEPT ![Here] = k]
      PROVE  KindsKept
  <2>1. k \in Kinds \ {"None", "TemplateRoot"}
    BY DEF OpenKinds, Kinds, StatementTypes, LeafTypes
  <2> QED BY <1>1, <1>2, <1>4, <2>1, MakeKind
<1>5. KindsKept
  <2>1. \/ UNCHANGED kind
        \/ \E k \in OpenKinds \union {"Block", "Extends"} \union LeafTypes :
              kind' = [kind EXCEPT ![Here] = k]
    BY DEF Shape, IdleShape, UndefinedShape, DropShape, OpenShape, LeafShape, ExtendsShape,
           CloseShape, OverrideShape, tree
  <2> QED BY <1>3, <1>4, <2>1
<1>6. TypeOK'
  BY <1>1, ShapeType
<1>7. StackInv'
  BY ShapeStack
<1> QED BY <1>2, <1>5, <1>6, <1>7

\* No handler disturbs the order.
LEMMA ShapeOrder ==
    ASSUME OrderInv, Shape
    PROVE  OrderInv'
<1>1. /\ StackInv /\ TypeOK /\ StackOrder /\ BodyOrder /\ NestingOrder /\ StackHandled
      /\ Consumed /\ KindsKept /\ TypeOK' /\ StackInv'
  BY ShapeKinds DEF OrderInv, StackInv
<1>2. /\ Len(stack) \in Nat /\ pos \in Nat /\ Ids \subseteq Nat /\ stack \in Seq(Ids)
      /\ \A j \in 1..Len(stack) : stack[j] \in Ids /\ stack[j] \in Nat
      /\ stack # <<>> => Len(stack) \in 1..Len(stack) /\ Last(stack) = stack[Len(stack)]
      /\ comp \in [Ids -> Seq(Ids)] /\ branches \in [Ids -> Seq(Ids)]
  BY <1>1, TreeTypes
<1>3. Here = pos + 1 /\ Here \in Ids
  BY <1>1, <1>2, ParserAssumption DEF Consumed, Here, Ids
<1>4. UNCHANGED <<comp, branches>> => BodyOrder'
  <2>1. \A q \in Ids : Increasing(comp[q]) /\ \A x \in Range(comp[q]) : q < x
    BY <1>1 DEF BodyOrder
  <2> QED BY <1>1, <2>1, BodiesKept
<1>5. ASSUME UNCHANGED <<comp, branches>>, NEW i \in 0..Len(stack), stack' = SubSeq(stack, 1, i)
      PROVE  OrderInv'
  <2>1. Len(stack') = i /\ \A j \in 1..i : stack'[j] = stack[j]
    BY <1>2, <1>5, PrefixFacts
  <2>2. StackOrder' /\ NestingOrder' /\ StackHandled'
    BY <1>1, <1>5, <2>1, CutOrder
  <2> QED BY <1>1, <1>4, <1>5, <2>2 DEF OrderInv
<1>6. ASSUME stack # <<>>, comp' = [comp EXCEPT ![Last(stack)] = Append(@, Here)],
             UNCHANGED branches
      PROVE  /\ BodyOrder'
             /\ \A q \in Ids : Range(comp'[q]) = IF q = Last(stack) THEN Range(comp[q]) \union {Here}
                                                 ELSE Range(comp[q])
  <2> DEFINE top == stack[Len(stack)]
  <2>1. top \in Ids /\ top < Here /\ Last(stack) = top
    BY <1>1, <1>2, <1>3, <1>6 DEF StackHandled
  <2>2. \A x \in Range(comp[top]) : x < Here
    <3>1. \A x \in Range(comp[top]) : x <= pos /\ x \in Nat
      BY <1>1, <2>1, PlacesAreIds DEF BodyOrder
    <3> QED BY <1>2, <1>3, <3>1
  <2> HIDE DEF top
  <2>3. \A q \in Ids :
           /\ Increasing(comp'[q])
           /\ Range(comp'[q]) = IF q = top THEN Range(comp[q]) \union {Here} ELSE Range(comp[q])
           /\ \A x \in Range(comp'[q]) : q < x
    BY <1>1, <1>3, <1>6, <2>1, <2>2, AddToBody
  <2>4. \A q \in Ids : \A x \in Range(comp'[q]) : x \in Range(comp[q]) \/ x <= pos + 1
    <3>1. ASSUME NEW q \in Ids, NEW x \in Range(comp'[q])
          PROVE  x \in Range(comp[q]) \/ x = Here
      <4>1. CASE q = top
        BY <2>3, <3>1, <4>1
      <4>2. CASE q # top
        BY <2>3, <3>1, <4>2
      <4> QED BY <4>1, <4>2
    <3> QED BY <1>2, <1>3, <3>1
  <2>5. BodyOrder'
    BY <1>1, <1>6, <2>3, <2>4, BodiesKept
  <2> QED BY <2>1, <2>3, <2>5
<1>7. stack = SubSeq(stack, 1, Len(stack)) /\ Len(stack) \in 0..Len(stack)
  BY <1>2, SubSeqFull
<1>10. CASE IdleShape \/ UndefinedShape
  BY <1>5, <1>7, <1>10 DEF IdleShape, UndefinedShape, tree
<1>11. ASSUME NEW i \in 0..Len(stack), DropShape(i)
       PROVE  OrderInv'
  BY <1>5, <1>11 DEF DropShape, tree
<1>12. ASSUME NEW k \in OpenKinds \union {"Block"}, NEW n \in BlockNames \union {NoName},
              OpenShape(k, n)
       PROVE  OrderInv'
  <2>1. UNCHANGED <<comp, branches>> /\ stack' = Append(stack, Here)
    BY <1>12 DEF OpenShape
  <2>2. \A p \in Ids : Range(comp'[p]) = Range(comp[p])
    BY <2>1
  <2>3. StackOrder' /\ NestingOrder' /\ StackHandled'
    BY <1>1, <2>1, <2>2, PushOrder
  <2> QED BY <1>1, <1>4, <2>1, <2>3 DEF OrderInv
<1>13. ASSUME NEW k \in LeafTypes, LeafShape(k)
       PROVE  OrderInv'
  <2>1. /\ stack # <<>> /\ comp' = [comp EXCEPT ![Last(stack)] = Append(@, Here)]
        /\ UNCHANGED <<branches, stack>>
    BY <1>13 DEF LeafShape
  <2>2. \A j \in 1..(Len(stack) - 1) : comp'[stack[j]] = comp[stack[j]]
    <3>1. \A j \in 1..(Len(stack) - 1) :
             stack[j] \in Ids /\ stack[j] # Last(stack)
      BY <1>1, <1>2, <2>1, StackDistinct
    <3> QED BY <1>2, <2>1, <3>1
  <2>3. StackOrder' /\ NestingOrder' /\ StackHandled'
    BY <1>1, <1>7, <2>1, <2>2, CutOrder
  <2> QED BY <1>1, <1>6, <2>1, <2>3 DEF OrderInv
<1>14. CASE ExtendsShape
  <2>1. /\ stack # <<>> /\ comp' = [comp EXCEPT ![Last(stack)] = Append(@, Here)]
        /\ UNCHANGED branches /\ stack' = Append(stack, Here)
        /\ kind' = [kind EXCEPT ![Here] = "Extends"]
    BY <1>14 DEF ExtendsShape
  <2>2. kind'[Here] = "Extends"
    BY <1>1, <1>3, <2>1 DEF TypeOK
  <2>3. \A q \in Ids : Range(comp'[q]) = IF q = Last(stack) THEN Range(comp[q]) \union {Here}
                                         ELSE Range(comp[q])
    BY <1>6, <2>1
  <2>4. StackOrder' /\ NestingOrder' /\ StackHandled'
    BY <1>1, <2>1, <2>2, <2>3, PushOrder
  <2> QED BY <1>1, <1>6, <2>1, <2>4 DEF OrderInv
<1>15. ASSUME NEW i \in 2..Len(stack), CloseShape(i)
       PROVE  OrderInv'
  <2> DEFINE below == stack[i - 1]
             closed == stack[i]
             popped == SubSeq(stack, i + 1, Len(stack))
  <2>1. /\ kind[closed] \in ClosableKinds
        /\ stack' = SubSeq(stack, 1, i - 1)
        /\ comp' = [comp EXCEPT ![below] = Append(@, closed)]
        /\ branches' = IF i < Len(stack) THEN [branches EXCEPT ![closed] = popped] ELSE branches
    BY <1>15 DEF CloseShape
  <2>2. /\ below \in Ids /\ closed \in Ids
        /\ below < closed /\ closed <= pos
        /\ \A x \in Range(comp[below]) : x < closed
    BY <2>1, ClosedFollows DEF ClosableKinds
  <2>3. i - 1 \in 0..Len(stack) /\ i \in 1..Len(stack)
    BY <1>2
  <2>4. /\ popped \in Seq(Ids) /\ Increasing(popped)
        /\ \A x \in Range(popped) : closed < x /\ x <= pos
    BY <2>3, BranchesFollow
  <2>5. /\ Len(stack') = i - 1 /\ \A j \in 1..(i - 1) : stack'[j] = stack[j]
    BY <1>2, <2>1, <2>3, PrefixFacts
  <2>6. \A j \in 1..((i - 1) - 1) : comp'[stack[j]] = comp[stack[j]]
    <3>1. \A j \in 1..((i - 1) - 1) : stack[j] \in Ids /\ stack[j] # below
      <4>1. \A j \in 1..((i - 1) - 1) : j \in 1..Len(stack) /\ j # i - 1
        BY <1>2
      <4>2. i - 1 \in 1..Len(stack)
        BY <1>2
      <4> QED BY <1>1, <1>2, <4>1, <4>2, StackDistinct
    <3> HIDE DEF below, closed
    <3> QED BY <1>2, <2>1, <3>1
  <2>7. StackOrder' /\ NestingOrder' /\ StackHandled'
    BY <1>1, <2>3, <2>5, <2>6, CutOrder
  <2> HIDE DEF below, closed, popped
  <2>8. \A q \in Ids :
           /\ Increasing(comp'[q])
           /\ Range(comp'[q]) = IF q = below THEN Range(comp[q]) \union {closed} ELSE Range(comp[q])
           /\ \A x \in Range(comp'[q]) : q < x
    BY <1>1, <2>1, <2>2, AddToBody
  <2>9. \A q \in Ids : \A x \in Range(comp'[q]) : x \in Range(comp[q]) \/ x <= pos + 1
    <3>1. ASSUME NEW q \in Ids, NEW x \in Range(comp'[q])
          PROVE  x \in Range(comp[q]) \/ x = closed
      <4>1. CASE q = below
        BY <2>8, <3>1, <4>1
      <4>2. CASE q # below
        BY <2>8, <3>1, <4>2
      <4> QED BY <4>1, <4>2
    <3>2. closed <= pos + 1
      BY <1>2, <2>2
    <3> QED BY <3>1, <3>2
  <2>10. \A q \in Ids : \/ branches'[q] = branches[q]
                        \/ /\ Increasing(branches'[q])
                           /\ \A x \in Range(branches'[q]) : q < x /\ x <= pos + 1
    <3>1. \A x \in Range(popped) : closed < x /\ x <= pos + 1
      <4>1. \A x \in Range(popped) : x \in Nat
        BY <1>2, <2>4, RangeOfSeq
      <4> QED BY <1>2, <2>4, <4>1
    <3> QED BY <1>2, <2>1, <2>2, <2>4, <3>1
  <2>11. BodyOrder'
    BY <1>1, <2>8, <2>9, <2>10, BodiesKept
  <2> QED BY <1>1, <2>7, <2>11 DEF OrderInv
<1>16. CASE OverrideShape
  <2>1. Len(stack) - 1 \in 0..Len(stack)
    BY <1>2, <1>16 DEF OverrideShape
  <2> QED BY <1>5, <1>16, <2>1 DEF OverrideShape, Front
<1> QED
  BY <1>10, <1>11, <1>12, <1>13, <1>14, <1>15, <1>16 DEF Shape

\* The parser starts in order.
LEMMA InitOrder ==
    ASSUME Init
    PROVE  OrderInv
<1>1. StackInv /\ TypeOK
  BY InitStack, InitType
<1>2. Len(stack) = 1 /\ stack[1] = Root /\ pos = 0
  BY DEF Init
<1>3. \A p \in Ids : comp[p] = <<>> /\ branches[p] = <<>>
  BY DEF Init
<1>4. Increasing(<<>>) /\ Range(<<>>) = {}
  BY DEF Increasing, Range
<1>5. BodyOrder
  BY <1>3, <1>4 DEF BodyOrder
<1>6. StackOrder /\ NestingOrder /\ StackHandled
  BY <1>2 DEF StackOrder, NestingOrder, StackHandled, Increasing, Root
<1> QED BY <1>1, <1>5, <1>6 DEF OrderInv
-----------------------------------------------------------------------------
(* Nothing is lost. *)

\* Where a renderer is when it is not open.
HasPlace(x) ==
    \/ IsRendered(x) \/ IsBranch(x) \/ IsOverride(x)
    \/ kind[x] = "Block" /\ \E p \in Ids : x < blocks[p][name[x]]

\* A renderer that is open is in the stack, at some place.
LEMMA OpenPlace ==
    ASSUME TypeOK, NEW x
    PROVE  IsOpen(x) <=> \E i \in 1..Len(stack) : x = stack[i]
BY TreeTypes, LenProperties DEF IsOpen, Range

\* The statements on the stack keep their empty branches when it is cut.
LEMMA UnbranchedCut ==
    ASSUME TypeOK, OpenUnbranched, Len(stack') \in 0..Len(stack),
           \A j \in 1..Len(stack') : stack'[j] = stack[j] /\ branches'[stack[j]] = branches[stack[j]]
    PROVE  OpenUnbranched'
<1>1. Len(stack) \in Nat
  BY TreeTypes
<1> QED BY <1>1 DEF OpenUnbranched

\* A statement is pushed before it has branches.
LEMMA UnbranchedPush ==
    ASSUME OrderInv, Consumed, OpenUnbranched, UNCHANGED branches, stack' = Append(stack, Here)
    PROVE  OpenUnbranched'
<1>1. TypeOK /\ BodyOrder
  BY DEF OrderInv, StackInv
<1>2. /\ Len(stack) \in Nat /\ pos \in Nat /\ stack \in Seq(Ids)
      /\ branches \in [Ids -> Seq(Ids)]
  BY <1>1, TreeTypes
<1>3. Here = pos + 1 /\ Here \in Ids
  BY <1>2, ParserAssumption DEF Consumed, Here, Ids
<1>4. /\ Len(stack') = Len(stack) + 1
      /\ \A j \in 1..Len(stack) : stack'[j] = stack[j]
      /\ stack'[Len(stack) + 1] = Here
  BY <1>2, <1>3, AppendFacts
<1>5. branches[Here] = <<>>
  <2>1. branches[Here] \in Seq(Ids)
    BY <1>2, <1>3
  <2>2. \A x \in Range(branches[Here]) : x \in Nat /\ Here < x /\ x <= pos
    BY <1>1, <1>3, PlacesAreIds DEF BodyOrder
  <2>3. Range(branches[Here]) = {}
    BY <1>2, <1>3, <2>2
  <2>4. SUFFICES ASSUME branches[Here] # <<>>
                 PROVE  FALSE
    OBVIOUS
  <2>5. Len(branches[Here]) \in Nat \ {0} /\ DOMAIN branches[Here] = 1..Len(branches[Here])
    BY <2>1, <2>4, EmptySeq, LenProperties
  <2>6. branches[Here][1] \in Range(branches[Here])
    BY <2>5 DEF Range
  <2> QED BY <2>3, <2>6
<1> QED BY <1>2, <1>4, <1>5 DEF OpenUnbranched

\* Names are kept when no block is opened or bound.
LEMMA NamesKept ==
    ASSUME StackInv, BlocksNamed, KindsKept, Fresh', Consumed, UNCHANGED blocks,
           \A x \in Ids : kind[x] # "None" => name'[x] = name[x],
           kind'[Here] = "Block" => name'[Here] \in BlockNames,
           \A x \in Ids : x # Here => kind'[x] = kind[x]
    PROVE  BlocksNamed'
<1>1. TypeOK /\ BlocksBound
  BY DEF StackInv
<1>2. \A p \in Ids, n \in BlockNames : blocks[p][n] \in Ids
  BY <1>1 DEF TypeOK
<1>3. ASSUME NEW x \in Ids, kind'[x] = "Block"
      PROVE  name'[x] \in BlockNames
  <2>1. CASE x = Here
    BY <1>3, <2>1
  <2>2. CASE x # Here
    <3>1. kind[x] = "Block"
      BY <1>3, <2>2
    <3> QED BY <3>1 DEF BlocksNamed
  <2> QED BY <2>1, <2>2
<1>4. ASSUME NEW p \in Ids, NEW n \in BlockNames, blocks'[p][n] # Root
      PROVE  name'[blocks'[p][n]] = n
  <2>1. blocks[p][n] # Root /\ blocks'[p][n] = blocks[p][n]
    BY <1>4
  <2>2. kind[blocks[p][n]] = "Block" /\ blocks[p][n] \in Ids
    BY <1>1, <1>2, <2>1 DEF BlocksBound
  <2>3. name'[blocks[p][n]] = name[blocks[p][n]]
    BY <2>2
  <2> QED BY <2>1, <2>3 DEF BlocksNamed
<1> QED BY <1>3, <1>4 DEF BlocksNamed

\* What has a place keeps it when no block is bound and branches replace none.
LEMMA PlaceKept ==
    ASSUME KindsKept, NEW x \in Ids, kind[x] # "None", HasPlace(x),
           name'[x] = name[x], UNCHANGED blocks,
           \A q \in Ids : Range(comp[q]) \subseteq Range(comp'[q]),
           \A q \in Ids : branches'[q] = branches[q] \/ branches[q] = <<>>
    PROVE  HasPlace(x)'
<1>1. CASE IsRendered(x)
  BY <1>1 DEF IsRendered, HasPlace
<1>2. CASE IsBranch(x)
  <2>1. PICK q \in Ids : x \in Range(branches[q])
    BY <1>2 DEF IsBranch
  <2>2. branches[q] # <<>>
    <3>1. Range(<<>>) = {}
      BY DEF Range
    <3> QED BY <2>1, <3>1
  <2>3. x \in Range(branches'[q])
    BY <2>1, <2>2
  <2> QED BY <2>3 DEF IsBranch, HasPlace
<1>3. CASE IsOverride(x)
  BY <1>3 DEF IsOverride, HasPlace
<1>4. CASE kind[x] = "Block" /\ \E p \in Ids : x < blocks[p][name[x]]
  BY <1>4 DEF HasPlace, KindsKept
<1> QED BY <1>1, <1>2, <1>3, <1>4 DEF HasPlace

\* Nothing is lost in a step that keeps the places and puts what it makes or closes
\* into one.
LEMMA NothingLostStep ==
    ASSUME NothingLostSilently, errors' = <<>> => errors = <<>>,
           \A x \in Ids : kind[x] # "None" /\ x # Root /\ HasPlace(x) => HasPlace(x)' \/ IsOpen(x)',
           \A x \in Ids : kind[x] # "None" /\ x # Root /\ IsOpen(x) => HasPlace(x)' \/ IsOpen(x)',
           \A x \in Ids : kind[x] = "None" /\ kind'[x] # "None" => HasPlace(x)' \/ IsOpen(x)'
    PROVE  NothingLostSilently'
<1> SUFFICES ASSUME errors' = <<>>, NEW x \in Ids, kind'[x] # "None", x # Root
             PROVE  HasPlace(x)' \/ IsOpen(x)'
  BY DEF NothingLostSilently, HasPlace
<1>1. errors = <<>>
  OBVIOUS
<1>2. CASE kind[x] = "None"
  BY <1>2
<1>3. CASE kind[x] # "None"
  <2>1. HasPlace(x) \/ IsOpen(x)
    BY <1>1, <1>3 DEF NothingLostSilently, HasPlace
  <2> QED BY <1>3, <2>1
<1> QED BY <1>2, <1>3

\* The blocks stay before what is opened next when the stack is cut or pushed.
LEMMA BlocksCut ==
    ASSUME TypeOK, BlocksInOrder, Consumed, UNCHANGED blocks, Len(stack') \in 0..Len(stack),
           \A j \in 1..Len(stack') : stack'[j] = stack[j]
    PROVE  BlocksInOrder'
<1>1. /\ Len(stack) \in Nat /\ pos \in Nat /\ Ids \subseteq Nat
      /\ blocks \in [Ids -> [BlockNames -> Ids]]
  BY TreeTypes
<1>2. \A p \in Ids, n \in BlockNames : blocks'[p][n] <= pos'
  <2>1. \A p \in Ids, n \in BlockNames : blocks[p][n] <= pos /\ blocks[p][n] \in Nat
    BY <1>1 DEF BlocksInOrder
  <2> QED BY <1>1, <2>1 DEF Consumed
<1>3. ASSUME NEW i \in 1..(Len(stack') - 1), NEW n \in BlockNames
      PROVE  blocks'[stack'[i]][n] < stack'[i + 1]
  <2>1. i \in 1..(Len(stack) - 1) /\ stack'[i] = stack[i] /\ stack'[i + 1] = stack[i + 1]
    BY <1>1
  <2> QED BY <2>1 DEF BlocksInOrder
<1> QED BY <1>2, <1>3 DEF BlocksInOrder

\* A block that is bound is before the statement that is pushed.
LEMMA BlocksPush ==
    ASSUME TypeOK, BlocksInOrder, Consumed, UNCHANGED blocks, stack' = Append(stack, Here)
    PROVE  BlocksInOrder'
<1>1. /\ Len(stack) \in Nat /\ pos \in Nat /\ Ids \subseteq Nat /\ stack \in Seq(Ids)
      /\ \A j \in 1..Len(stack) : stack[j] \in Ids
      /\ blocks \in [Ids -> [BlockNames -> Ids]]
  BY TreeTypes
<1>2. Here = pos + 1 /\ Here \in Ids /\ pos' = pos + 1
  BY <1>1, ParserAssumption DEF Consumed, Here, Ids
<1>3. /\ Len(stack') = Len(stack) + 1
      /\ \A j \in 1..Len(stack) : stack'[j] = stack[j]
      /\ stack'[Len(stack) + 1] = Here
  BY <1>1, <1>2, AppendFacts
<1>4. \A p \in Ids, n \in BlockNames : blocks[p][n] <= pos /\ blocks[p][n] \in Nat
  BY <1>1 DEF BlocksInOrder
<1>5. \A p \in Ids, n \in BlockNames : blocks'[p][n] <= pos'
  BY <1>1, <1>2, <1>4
<1>6. ASSUME NEW i \in 1..Len(stack), NEW n \in BlockNames
      PROVE  blocks'[stack'[i]][n] < stack'[i + 1]
  <2>1. CASE i = Len(stack)
    <3>1. stack'[i + 1] = Here /\ stack'[i] = stack[i] /\ stack[i] \in Ids
      BY <1>1, <1>3, <2>1
    <3>2. blocks[stack[i]][n] <= pos /\ blocks[stack[i]][n] \in Nat
      BY <1>4, <3>1
    <3> QED BY <1>1, <1>2, <3>1, <3>2
  <2>2. CASE i # Len(stack)
    <3>1. i \in 1..(Len(stack) - 1) /\ stack'[i] = stack[i] /\ stack'[i + 1] = stack[i + 1]
      BY <1>1, <1>3, <2>2
    <3> QED BY <3>1 DEF BlocksInOrder
  <2> QED BY <2>1, <2>2
<1> QED BY <1>1, <1>3, <1>5, <1>6 DEF BlocksInOrder

\* An overriding block is closed: it replaces an earlier one of its name.
LEMMA OverrideTree ==
    ASSUME TreeInv, OverrideShape
    PROVE  OpenUnbranched' /\ BlocksNamed' /\ BlocksInOrder' /\ NothingLostSilently'
<1> DEFINE l == Len(stack)
           below == stack[l - 1]
           closed == stack[l]
           n0 == name[closed]
<1>1. /\ OrderInv /\ StackInv /\ TypeOK /\ StackOrder /\ StackHandled /\ OpenUnbranched
      /\ BlocksNamed /\ BlocksInOrder /\ NothingLostSilently /\ BlocksBound /\ RootOnce
  BY DEF TreeInv, OrderInv, StackInv
<1>2. /\ l \in Nat /\ pos \in Nat /\ Ids \subseteq Nat /\ stack \in Seq(Ids)
      /\ \A j \in 1..l : stack[j] \in Ids /\ stack[j] \in Nat
      /\ blocks \in [Ids -> [BlockNames -> Ids]]
  BY <1>1, TreeTypes
<1>3. /\ Continues /\ MayReport /\ UNCHANGED <<kind, name, comp, branches>>
      /\ stack' = SubSeq(stack, 1, l - 1)
      /\ l > 1 /\ kind[closed] = "Block"
      /\ blocks' = [blocks EXCEPT ![below][n0] = closed]
  BY DEF OverrideShape, Front, KindOfTop, Last
<1>4. l - 1 \in 0..l /\ l \in 1..l /\ l - 1 \in 1..l /\ l \in 2..l
  BY <1>2, <1>3
<1>5. /\ below \in Ids /\ closed \in Ids /\ below < closed /\ closed <= pos
      /\ closed # Root /\ n0 \in BlockNames
  <2>1. below < closed /\ closed <= pos
    BY <1>1, <1>2, <1>4 DEF StackOrder, Increasing, StackHandled
  <2> QED BY <1>1, <1>2, <1>3, <1>4, <2>1 DEF RootOnce, BlocksNamed
<1>6. Len(stack') = l - 1 /\ \A j \in 1..(l - 1) : stack'[j] = stack[j]
  BY <1>2, <1>3, <1>4, PrefixFacts
<1>7. ASSUME NEW j \in 1..(l - 1)
      PROVE  stack[j] \in Ids /\ (j # l - 1 => stack[j] # below)
  <2>1. j \in 1..l
    BY <1>2
  <2> QED BY <1>1, <1>2, <1>4, <2>1, StackDistinct
<1>8. OpenUnbranched'
  <2>1. Len(stack') \in 0..Len(stack)
    BY <1>2, <1>4, <1>6
  <2>2. \A j \in 1..Len(stack') : stack'[j] = stack[j] /\ branches'[stack[j]] = branches[stack[j]]
    BY <1>3, <1>6
  <2> QED BY <1>1, <2>1, <2>2, UnbranchedCut
<1>9. blocks[below][n0] < closed
  <2>1. l - 1 \in 1..(Len(stack) - 1) /\ (l - 1) + 1 = l
    BY <1>2, <1>4
  <2> QED BY <1>1, <1>5, <2>1 DEF BlocksInOrder
<1> HIDE DEF l, below, closed, n0
<1>10. /\ blocks'[below][n0] = closed
       /\ \A p \in Ids, n \in BlockNames :
             p # below \/ n # n0 => blocks'[p][n] = blocks[p][n]
  BY <1>2, <1>3, <1>5
<1>11. \A p \in Ids, n \in BlockNames :
          blocks[p][n] \in Nat /\ blocks[p][n] <= pos /\ blocks[p][n] <= blocks'[p][n]
  <2>1. \A p \in Ids, n \in BlockNames : blocks[p][n] \in Nat /\ blocks[p][n] <= pos
    BY <1>1, <1>2 DEF BlocksInOrder
  <2>2. blocks[below][n0] <= blocks'[below][n0]
    BY <1>2, <1>5, <1>9, <1>10, <2>1
  <2>3. ASSUME NEW p \in Ids, NEW n \in BlockNames
        PROVE  blocks[p][n] <= blocks'[p][n]
    BY <1>10, <2>1, <2>2
  <2> QED BY <2>1, <2>3
<1>12. BlocksNamed'
  <2>1. \A x \in Ids : kind'[x] = "Block" => name'[x] \in BlockNames
    BY <1>1, <1>3 DEF BlocksNamed
  <2>2. ASSUME NEW p \in Ids, NEW n \in BlockNames, blocks'[p][n] # Root
        PROVE  name'[blocks'[p][n]] = n
    <3>1. CASE p = below /\ n = n0
      BY <1>3, <1>10, <3>1 DEF n0
    <3>2. CASE ~(p = below /\ n = n0)
      <4>1. blocks'[p][n] = blocks[p][n]
        BY <1>10, <3>2
      <4> QED BY <1>1, <1>3, <2>2, <4>1 DEF BlocksNamed
    <3> QED BY <3>1, <3>2
  <2> QED BY <2>1, <2>2 DEF BlocksNamed
<1>13. BlocksInOrder'
  <2>1. ASSUME NEW p \in Ids, NEW n \in BlockNames
        PROVE  blocks'[p][n] <= pos'
    <3>1. pos' = pos + 1
      BY <1>3 DEF Continues, Consumed
    <3>2. CASE p = below /\ n = n0
      <4>1. closed \in Nat
        BY <1>2, <1>5
      <4> QED BY <1>2, <1>5, <1>10, <3>1, <3>2, <4>1
    <3>3. CASE ~(p = below /\ n = n0)
      <4>1. blocks'[p][n] = blocks[p][n]
        BY <1>10, <3>3
      <4> QED BY <1>2, <1>11, <3>1, <4>1
    <3> QED BY <3>2, <3>3
  <2>2. ASSUME NEW i \in 1..(Len(stack') - 1), NEW n \in BlockNames
        PROVE  blocks'[stack'[i]][n] < stack'[i + 1]
    <3>1. /\ i \in 1..(l - 1) /\ i # l - 1 /\ i \in 1..(Len(stack) - 1)
          /\ stack'[i] = stack[i] /\ stack'[i + 1] = stack[i + 1]
      BY <1>2, <1>6 DEF l
    <3>2. blocks'[stack[i]][n] = blocks[stack[i]][n]
      BY <1>7, <1>10, <3>1
    <3> QED BY <1>1, <3>1, <3>2 DEF BlocksInOrder
  <2> QED BY <2>1, <2>2 DEF BlocksInOrder
<1>14. NothingLostSilently'
  <2>1. errors' = <<>> => errors = <<>>
    BY <1>1, <1>3, ReportFacts
  <2>2. ASSUME NEW x \in Ids, x = closed
        PROVE  HasPlace(x)'
    <3>1. x # Root /\ blocks'[below][n0] = x /\ below \in Ids /\ n0 \in BlockNames
      BY <1>5, <1>10, <2>2
    <3>2. \E p \in Ids : \E n \in BlockNames : x # Root /\ blocks'[p][n] = x
      BY <3>1
    <3> QED BY <3>2 DEF HasPlace, IsOverride
  <2>3. ASSUME NEW x \in Ids, x # Root, HasPlace(x)
        PROVE  HasPlace(x)'
    <3>1. CASE IsRendered(x) \/ IsBranch(x)
      BY <1>3, <3>1 DEF HasPlace, IsRendered, IsBranch
    <3>2. CASE IsOverride(x)
      <4>1. PICK p \in Ids, n \in BlockNames : blocks[p][n] = x
        BY <3>2 DEF IsOverride
      <4>2. CASE p = below /\ n = n0
        <5>1. kind[x] = "Block" /\ name[x] = n0
          BY <1>1, <2>3, <4>1, <4>2 DEF BlocksBound, BlocksNamed
        <5>2. x < blocks'[below][name'[x]]
          BY <1>3, <1>9, <1>10, <4>1, <4>2, <5>1
        <5> QED BY <1>3, <1>5, <5>1, <5>2 DEF HasPlace
      <4>3. CASE ~(p = below /\ n = n0)
        <5>1. blocks'[p][n] = x
          BY <1>10, <4>1, <4>3
        <5> QED BY <2>3, <5>1 DEF HasPlace, IsOverride
      <4> QED BY <4>2, <4>3
    <3>3. CASE kind[x] = "Block" /\ \E p \in Ids : x < blocks[p][name[x]]
      <4>1. PICK p \in Ids : x < blocks[p][name[x]]
        BY <3>3
      <4>2. name[x] \in BlockNames /\ x \in Nat
        BY <1>1, <1>2, <3>3 DEF BlocksNamed
      <4>3. x < blocks'[p][name[x]]
        <5>1. /\ blocks[p][name[x]] \in Nat /\ blocks[p][name[x]] <= blocks'[p][name[x]]
          BY <1>11, <4>2
        <5>2. blocks'[p][name[x]] \in Nat
          <6>1. CASE p = below /\ name[x] = n0
            BY <1>2, <1>5, <1>10, <6>1
          <6>2. CASE ~(p = below /\ name[x] = n0)
            BY <1>10, <4>2, <5>1, <6>2
          <6> QED BY <6>1, <6>2
        <5> QED BY <4>1, <4>2, <5>1, <5>2
      <4> QED BY <1>3, <3>3, <4>3 DEF HasPlace
    <3> QED BY <2>3, <3>1, <3>2, <3>3 DEF HasPlace
  <2>4. ASSUME NEW x \in Ids, IsOpen(x), x # closed
        PROVE  IsOpen(x)'
    <3>1. PICK j \in 1..l : x = stack[j]
      BY <1>1, <2>4, OpenPlace DEF l
    <3>2. j \in 1..(l - 1)
      BY <1>2, <2>4, <3>1 DEF closed
    <3>3. stack' \in Seq(Ids)
      BY <1>2, <1>3, <1>4, PrefixFacts DEF l
    <3>4. stack'[j] = x /\ j \in DOMAIN stack'
      BY <1>6, <3>1, <3>2, <3>3, LenProperties
    <3> QED BY <3>4 DEF IsOpen, Range
  <2>5. ASSUME NEW x \in Ids, IsOpen(x)
        PROVE  HasPlace(x)' \/ IsOpen(x)'
    <3>1. CASE x = closed
      BY <2>2, <3>1
    <3>2. CASE x # closed
      BY <2>4, <2>5, <3>2
    <3> QED BY <3>1, <3>2
  <2>6. \A x \in Ids : kind[x] = "None" /\ kind'[x] # "None" => HasPlace(x)' \/ IsOpen(x)'
    BY <1>3
  <2> QED BY <1>1, <2>1, <2>3, <2>5, <2>6, NothingLostStep
<1> QED BY <1>8, <1>12, <1>13, <1>14

\* What is about the text block that is handled.
LEMMA HereFacts ==
    ASSUME StackInv, Consumed
    PROVE  pos \in Nat /\ Here = pos + 1 /\ Here \in Ids /\ Here # Root /\ kind[Here] = "None"
<1>1. pos \in Nat /\ Here = pos + 1 /\ Here \in Ids /\ Here # Root
  <2>1. pos \in Nat
    BY TreeTypes DEF StackInv
  <2> QED BY <2>1, ParserAssumption DEF Consumed, Here, Ids, Root
<1>2. kind[Here] = "None"
  BY <1>1 DEF StackInv, Fresh
<1> QED BY <1>1, <1>2

\* What is in the stack is still in it when it grows.
LEMMA OpenKept ==
    ASSUME TypeOK, TypeOK', Len(stack) <= Len(stack'),
           \A j \in 1..Len(stack) : stack'[j] = stack[j], NEW x, IsOpen(x)
    PROVE  IsOpen(x)'
<1>1. PICK j \in 1..Len(stack) : x = stack[j]
  BY OpenPlace
<1>2. stack' \in Seq(Ids) /\ Len(stack) \in Nat
  BY TreeTypes DEF TypeOK
<1>3. j \in DOMAIN stack' /\ stack'[j] = x
  BY <1>1, <1>2, LenProperties
<1> QED BY <1>3 DEF IsOpen, Range

\* A statement is opened.
LEMMA OpenTree ==
    ASSUME TreeInv, TypeOK', StackInv', KindsKept,
           NEW k \in OpenKinds \union {"Block"}, NEW n \in BlockNames \union {NoName},
           OpenShape(k, n)
    PROVE  OpenUnbranched' /\ BlocksNamed' /\ BlocksInOrder' /\ NothingLostSilently'
<1>1. /\ OrderInv /\ StackInv /\ TypeOK /\ OpenUnbranched
      /\ BlocksNamed /\ BlocksInOrder /\ NothingLostSilently
  BY DEF TreeInv, OrderInv, StackInv
<1>2. /\ Consumed /\ MayReport /\ UNCHANGED <<comp, branches, blocks>>
      /\ kind' = [kind EXCEPT ![Here] = k] /\ name' = [name EXCEPT ![Here] = n]
      /\ stack' = Append(stack, Here)
      /\ k = "Block" => n \in BlockNames
  BY DEF OpenShape, Continues
<1>3. Here \in Ids /\ kind[Here] = "None" /\ stack \in Seq(Ids) /\ Len(stack) \in Nat
  BY <1>1, <1>2, HereFacts, TreeTypes
<1>4. /\ kind'[Here] = k /\ name'[Here] = n
      /\ \A x \in Ids : x # Here => kind'[x] = kind[x] /\ name'[x] = name[x]
  BY <1>1, <1>2, <1>3 DEF TypeOK
<1>5. \A x \in Ids : kind[x] # "None" => name'[x] = name[x]
  BY <1>3, <1>4
<1>6. OpenUnbranched' /\ BlocksInOrder'
  BY <1>1, <1>2, UnbranchedPush, BlocksPush
<1>7. BlocksNamed'
  BY <1>1, <1>2, <1>4, <1>5, NamesKept DEF StackInv
<1>8. NothingLostSilently'
  <2>1. errors' = <<>> => errors = <<>>
    BY <1>1, <1>2, ReportFacts
  <2>2. ASSUME NEW x \in Ids, kind[x] # "None", HasPlace(x)
        PROVE  HasPlace(x)'
    BY <1>2, <1>5, <2>2, PlaceKept
  <2>3. /\ Len(stack') = Len(stack) + 1
        /\ \A j \in 1..Len(stack) : stack'[j] = stack[j]
        /\ stack'[Len(stack) + 1] = Here
    BY <1>2, <1>3, AppendFacts
  <2>4. ASSUME NEW x, IsOpen(x)
        PROVE  IsOpen(x)'
    BY <1>1, <1>3, <2>3, <2>4, OpenKept
  <2>5. ASSUME NEW x \in Ids, kind[x] = "None", kind'[x] # "None"
        PROVE  IsOpen(x)'
    <3>1. x = Here
      BY <1>4, <2>5
    <3>2. Len(stack) + 1 \in DOMAIN stack'
      BY <1>3, <2>3, LenProperties DEF TypeOK
    <3> QED BY <2>3, <3>1, <3>2 DEF IsOpen, Range
  <2> QED BY <1>1, <2>1, <2>2, <2>4, <2>5, NothingLostStep
<1> QED BY <1>6, <1>7, <1>8

\* Here becomes part of the body of the open statement.
LEMMA BodyGrows ==
    ASSUME TypeOK, NEW p \in Ids, NEW e \in Ids, comp' = [comp EXCEPT ![p] = Append(@, e)]
    PROVE  /\ \A q \in Ids : Range(comp[q]) \subseteq Range(comp'[q])
           /\ e \in Range(comp'[p])
<1>1. comp \in [Ids -> Seq(Ids)]
  BY TreeTypes
<1>2. comp'[p] = Append(comp[p], e) /\ \A q \in Ids : q # p => comp'[q] = comp[q]
  BY <1>1
<1>3. Range(comp'[p]) = Range(comp[p]) \union {e}
  <2>1. comp[p] \in Seq(Ids)
    BY <1>1
  <2> QED BY <1>2, <2>1, AppendFacts
<1> QED BY <1>2, <1>3

\* A renderer without a body is added.
LEMMA LeafTree ==
    ASSUME TreeInv, TypeOK', StackInv', KindsKept, NEW k \in LeafTypes, LeafShape(k)
    PROVE  OpenUnbranched' /\ BlocksNamed' /\ BlocksInOrder' /\ NothingLostSilently'
<1>1. /\ OrderInv /\ StackInv /\ TypeOK /\ OpenUnbranched
      /\ BlocksNamed /\ BlocksInOrder /\ NothingLostSilently
  BY DEF TreeInv, OrderInv, StackInv
<1>2. /\ Consumed /\ MayReport /\ UNCHANGED <<name, stack, branches, blocks>>
      /\ stack # <<>>
      /\ kind' = [kind EXCEPT ![Here] = k]
      /\ comp' = [comp EXCEPT ![Last(stack)] = Append(@, Here)]
  BY DEF LeafShape, Continues
<1>3. /\ Here \in Ids /\ kind[Here] = "None" /\ Len(stack) \in Nat
      /\ Last(stack) \in Ids
  BY <1>1, <1>2, HereFacts, TreeTypes
<1>4. /\ kind'[Here] = k
      /\ \A x \in Ids : x # Here => kind'[x] = kind[x]
  BY <1>1, <1>2, <1>3 DEF TypeOK
<1>5. OpenUnbranched' /\ BlocksInOrder'
  <2>1. Len(stack') \in 0..Len(stack)
    BY <1>2, <1>3
  <2>2. \A j \in 1..Len(stack') : stack'[j] = stack[j] /\ branches'[stack[j]] = branches[stack[j]]
    BY <1>2
  <2> QED BY <1>1, <1>2, <2>1, <2>2, UnbranchedCut, BlocksCut
<1>6. BlocksNamed'
  BY <1>1, <1>2, <1>4, NamesKept DEF StackInv, LeafTypes
<1>7. NothingLostSilently'
  <2>1. errors' = <<>> => errors = <<>>
    BY <1>1, <1>2, ReportFacts
  <2>2. /\ \A q \in Ids : Range(comp[q]) \subseteq Range(comp'[q])
        /\ Here \in Range(comp'[Last(stack)])
    BY <1>1, <1>2, <1>3, BodyGrows
  <2>3. ASSUME NEW x \in Ids, kind[x] # "None", HasPlace(x)
        PROVE  HasPlace(x)'
    BY <1>2, <2>2, <2>3, PlaceKept
  <2>4. \A x : IsOpen(x) => IsOpen(x)'
    BY <1>2 DEF IsOpen
  <2>5. ASSUME NEW x \in Ids, kind[x] = "None", kind'[x] # "None"
        PROVE  HasPlace(x)'
    <3>1. x = Here
      BY <1>4, <2>5
    <3> QED BY <1>3, <2>2, <3>1 DEF HasPlace, IsRendered
  <2> QED BY <1>1, <2>1, <2>3, <2>4, <2>5, NothingLostStep
<1> QED BY <1>5, <1>6, <1>7

\* {% extends %} is part of the body below it as soon as it is opened.
LEMMA ExtendsTree ==
    ASSUME TreeInv, TypeOK', StackInv', KindsKept, ExtendsShape
    PROVE  OpenUnbranched' /\ BlocksNamed' /\ BlocksInOrder' /\ NothingLostSilently'
<1>1. /\ OrderInv /\ StackInv /\ TypeOK /\ OpenUnbranched
      /\ BlocksNamed /\ BlocksInOrder /\ NothingLostSilently
  BY DEF TreeInv, OrderInv, StackInv
<1>2. /\ Consumed /\ MayReport /\ UNCHANGED <<name, branches, blocks>>
      /\ stack # <<>>
      /\ kind' = [kind EXCEPT ![Here] = "Extends"]
      /\ comp' = [comp EXCEPT ![Last(stack)] = Append(@, Here)]
      /\ stack' = Append(stack, Here)
  BY DEF ExtendsShape, Continues
<1>3. /\ Here \in Ids /\ kind[Here] = "None" /\ Len(stack) \in Nat /\ stack \in Seq(Ids)
      /\ Last(stack) \in Ids
  BY <1>1, <1>2, HereFacts, TreeTypes
<1>4. /\ kind'[Here] = "Extends"
      /\ \A x \in Ids : x # Here => kind'[x] = kind[x]
  BY <1>1, <1>2, <1>3 DEF TypeOK
<1>5. OpenUnbranched' /\ BlocksInOrder'
  BY <1>1, <1>2, UnbranchedPush, BlocksPush
<1>6. BlocksNamed'
  BY <1>1, <1>2, <1>4, NamesKept DEF StackInv
<1>7. NothingLostSilently'
  <2>1. errors' = <<>> => errors = <<>>
    BY <1>1, <1>2, ReportFacts
  <2>2. /\ \A q \in Ids : Range(comp[q]) \subseteq Range(comp'[q])
        /\ Here \in Range(comp'[Last(stack)])
    BY <1>1, <1>2, <1>3, BodyGrows
  <2>3. ASSUME NEW x \in Ids, kind[x] # "None", HasPlace(x)
        PROVE  HasPlace(x)'
    BY <1>2, <2>2, <2>3, PlaceKept
  <2>4. ASSUME NEW x, IsOpen(x)
        PROVE  IsOpen(x)'
    <3>1. Len(stack) <= Len(stack') /\ \A j \in 1..Len(stack) : stack'[j] = stack[j]
      BY <1>2, <1>3, AppendFacts
    <3> QED BY <1>1, <2>4, <3>1, OpenKept
  <2>5. ASSUME NEW x \in Ids, kind[x] = "None", kind'[x] # "None"
        PROVE  HasPlace(x)'
    <3>1. x = Here
      BY <1>4, <2>5
    <3> QED BY <1>3, <2>2, <3>1 DEF HasPlace, IsRendered
  <2> QED BY <1>1, <2>1, <2>3, <2>4, <2>5, NothingLostStep
<1> QED BY <1>5, <1>6, <1>7

\* A statement is closed: it is rendered by the one below, and what was popped from
\* above it are its branches, of which it had none.
LEMMA CloseTree ==
    ASSUME TreeInv, TypeOK', StackInv', KindsKept, NEW i \in 2..Len(stack), CloseShape(i)
    PROVE  OpenUnbranched' /\ BlocksNamed' /\ BlocksInOrder' /\ NothingLostSilently'
<1>1. /\ OrderInv /\ StackInv /\ TypeOK /\ StackOrder /\ OpenUnbranched
      /\ BlocksNamed /\ BlocksInOrder /\ NothingLostSilently
  BY DEF TreeInv, OrderInv, StackInv
<1>2. /\ Len(stack) \in Nat /\ stack \in Seq(Ids)
      /\ \A j \in 1..Len(stack) : stack[j] \in Ids
      /\ branches \in [Ids -> Seq(Ids)]
      /\ i - 1 \in 0..Len(stack) /\ i - 1 \in 1..Len(stack) /\ i \in 1..Len(stack)
  BY <1>1, TreeTypes
<1>3. PICK below \in Ids : below = stack[i - 1]
  BY <1>2
<1>4. PICK closed \in Ids : closed = stack[i]
  BY <1>2
<1>5. PICK popped \in Seq(Ids) : popped = SubSeq(stack, i + 1, Len(stack))
  BY <1>1, <1>2, BranchesFollow
<1>6. /\ Consumed /\ MayReport /\ UNCHANGED <<kind, name, blocks>>
      /\ stack' = SubSeq(stack, 1, i - 1)
      /\ comp' = [comp EXCEPT ![below] = Append(@, closed)]
      /\ branches' = IF i < Len(stack) THEN [branches EXCEPT ![closed] = popped] ELSE branches
  BY <1>3, <1>4, <1>5 DEF CloseShape, Continues
<1>7. Len(stack') = i - 1 /\ \A j \in 1..(i - 1) : stack'[j] = stack[j]
  BY <1>2, <1>6, PrefixFacts
<1>8. branches[closed] = <<>>
  BY <1>1, <1>2, <1>4 DEF OpenUnbranched
<1>9. /\ \A q \in Ids : q # closed => branches'[q] = branches[q]
      /\ i < Len(stack) => branches'[closed] = popped
  BY <1>2, <1>6
<1>10. OpenUnbranched'
  <2>1. ASSUME NEW j \in 1..Len(stack')
        PROVE  stack'[j] = stack[j] /\ branches'[stack[j]] = branches[stack[j]]
    <3>1. j \in 1..Len(stack) /\ j # i /\ stack'[j] = stack[j]
      BY <1>2, <1>7
    <3>2. stack[j] \in Ids /\ stack[j] # closed
      BY <1>1, <1>2, <1>4, <3>1, StackDistinct
    <3> QED BY <1>9, <3>1, <3>2
  <2>2. Len(stack') \in 0..Len(stack)
    BY <1>2, <1>7
  <2> QED BY <1>1, <2>1, <2>2, UnbranchedCut
<1>11. BlocksInOrder'
  <2>1. Len(stack') \in 0..Len(stack) /\ \A j \in 1..Len(stack') : stack'[j] = stack[j]
    BY <1>2, <1>7
  <2> QED BY <1>1, <1>6, <2>1, BlocksCut
<1>12. BlocksNamed'
  <2>1. kind'[Here] = "Block" => name'[Here] \in BlockNames
    <3>1. Here \in Ids /\ kind'[Here] = "None"
      BY <1>1, <1>6, HereFacts
    <3> QED BY <3>1
  <2> QED BY <1>1, <1>6, <2>1, NamesKept DEF StackInv
<1>13. NothingLostSilently'
  <2>1. errors' = <<>> => errors = <<>>
    BY <1>1, <1>6, ReportFacts
  <2>2. /\ \A q \in Ids : Range(comp[q]) \subseteq Range(comp'[q])
        /\ closed \in Range(comp'[below])
    BY <1>1, <1>6, BodyGrows
  <2>3. ASSUME NEW x \in Ids, kind[x] # "None", HasPlace(x)
        PROVE  HasPlace(x)'
    <3>1. \A q \in Ids : branches'[q] = branches[q] \/ branches[q] = <<>>
      BY <1>8, <1>9
    <3> QED BY <1>6, <2>2, <2>3, <3>1, PlaceKept
  <2>4. ASSUME NEW x \in Ids, IsOpen(x)
        PROVE  HasPlace(x)' \/ IsOpen(x)'
    <3>1. PICK j \in 1..Len(stack) : x = stack[j]
      BY <1>1, <2>4, OpenPlace
    <3>2. CASE j \in 1..(i - 1)
      <4>1. j \in DOMAIN stack' /\ stack'[j] = x
        BY <1>2, <1>6, <1>7, <3>1, <3>2, LenProperties DEF TypeOK
      <4> QED BY <4>1 DEF IsOpen, Range
    <3>3. CASE j = i
      <4>1. x \in Range(comp'[below])
        BY <1>4, <2>2, <3>1, <3>3
      <4> QED BY <4>1 DEF HasPlace, IsRendered
    <3>4. CASE j \in (i + 1)..Len(stack)
      <4>1. x \in Range(popped) /\ i < Len(stack)
        BY <1>1, <1>2, <1>5, <3>1, <3>4, BranchesFollow
      <4>2. x \in Range(branches'[closed])
        BY <1>9, <4>1
      <4> QED BY <4>2 DEF HasPlace, IsBranch
    <3> QED BY <1>2, <3>2, <3>3, <3>4
  <2>5. \A x \in Ids : kind[x] = "None" /\ kind'[x] # "None" => HasPlace(x)' \/ IsOpen(x)'
    BY <1>6
  <2> QED BY <1>1, <2>1, <2>3, <2>4, <2>5, NothingLostStep
<1> QED BY <1>10, <1>11, <1>12, <1>13

\* Nothing is built, and what is popped is reported.
LEMMA CutTree ==
    ASSUME TreeInv, TypeOK', KindsKept, Consumed, UNCHANGED tree,
           NEW i \in 0..Len(stack), stack' = SubSeq(stack, 1, i),
           errors' = <<>> => errors = <<>> /\ i = Len(stack)
    PROVE  OpenUnbranched' /\ BlocksNamed' /\ BlocksInOrder' /\ NothingLostSilently'
<1>1. /\ TypeOK /\ OpenUnbranched /\ BlocksNamed /\ BlocksInOrder /\ NothingLostSilently
      /\ UNCHANGED <<kind, name, comp, branches, blocks>>
  BY DEF TreeInv, OrderInv, StackInv, tree
<1>2. Len(stack) \in Nat /\ stack \in Seq(Ids)
  BY <1>1, TreeTypes
<1>3. Len(stack') \in 0..Len(stack) /\ \A j \in 1..Len(stack') : stack'[j] = stack[j]
  BY <1>2, PrefixFacts
<1>4. OpenUnbranched'
  BY <1>1, <1>3, UnbranchedCut
<1>5. BlocksInOrder'
  BY <1>1, <1>3, BlocksCut
<1>6. BlocksNamed'
  BY <1>1 DEF BlocksNamed
<1>7. NothingLostSilently'
  <2>1. i = Len(stack) => stack' = stack
    BY <1>2, SubSeqFull
  <2> QED BY <1>1, <2>1 DEF NothingLostSilently, IsOpen, IsRendered, IsBranch, IsOverride
<1> QED BY <1>4, <1>5, <1>6, <1>7

\* No handler loses anything silently.
LEMMA ShapeTree ==
    ASSUME TreeInv, Shape
    PROVE  TreeInv'
<1>1. OrderInv /\ StackInv /\ TypeOK /\ StackInv' /\ TypeOK' /\ Consumed /\ KindsKept /\ OrderInv'
  BY ShapeKinds, ShapeOrder DEF TreeInv, OrderInv, StackInv
<1>2. stack = SubSeq(stack, 1, Len(stack)) /\ Len(stack) \in 0..Len(stack)
  <2>1. stack \in Seq(Ids) /\ Len(stack) \in Nat
    BY <1>1, TreeTypes
  <2> QED BY <2>1, SubSeqFull
<1> SUFFICES OpenUnbranched' /\ BlocksNamed' /\ BlocksInOrder' /\ NothingLostSilently'
  BY <1>1 DEF TreeInv
<1>3. CASE IdleShape \/ UndefinedShape
  BY <1>1, <1>2, <1>3, CutTree DEF IdleShape, UndefinedShape
<1>4. ASSUME NEW i \in 0..Len(stack), DropShape(i)
      PROVE  OpenUnbranched' /\ BlocksNamed' /\ BlocksInOrder' /\ NothingLostSilently'
  <2>1. errors' # <<>>
    BY <1>1, <1>4, ReportFacts DEF DropShape
  <2> QED BY <1>1, <1>4, <2>1, CutTree DEF DropShape
<1>5. ASSUME NEW k \in OpenKinds \union {"Block"}, NEW n \in BlockNames \union {NoName},
             OpenShape(k, n)
      PROVE  OpenUnbranched' /\ BlocksNamed' /\ BlocksInOrder' /\ NothingLostSilently'
  BY <1>1, <1>5, OpenTree
<1>6. ASSUME NEW k \in LeafTypes, LeafShape(k)
      PROVE  OpenUnbranched' /\ BlocksNamed' /\ BlocksInOrder' /\ NothingLostSilently'
  BY <1>1, <1>6, LeafTree
<1>7. CASE ExtendsShape
  BY <1>1, <1>7, ExtendsTree
<1>8. ASSUME NEW i \in 2..Len(stack), CloseShape(i)
      PROVE  OpenUnbranched' /\ BlocksNamed' /\ BlocksInOrder' /\ NothingLostSilently'
  BY <1>1, <1>8, CloseTree
<1>9. CASE OverrideShape
  BY <1>9, OverrideTree
<1> QED BY <1>3, <1>4, <1>5, <1>6, <1>7, <1>8, <1>9 DEF Shape

\* The parser starts with nothing that could be lost.
LEMMA InitTree ==
    ASSUME Init
    PROVE  TreeInv
<1>1. OrderInv
  BY InitOrder
<1>2. /\ Len(stack) = 1 /\ stack[1] = Root /\ Root \in Ids
      /\ \A x \in Ids : branches[x] = <<>> /\ kind[x] # "Block"
      /\ \A x \in Ids : x # Root => kind[x] = "None"
      /\ \A p \in Ids, n \in BlockNames : blocks[p][n] = Root
      /\ pos = 0
  BY ParserAssumption DEF Init, Root, Ids
<1>3. OpenUnbranched /\ BlocksNamed /\ BlocksInOrder
  BY <1>2 DEF OpenUnbranched, BlocksNamed, BlocksInOrder, Root
<1>4. NothingLostSilently
  BY <1>2 DEF NothingLostSilently
<1> QED BY <1>1, <1>3, <1>4 DEF TreeInv

\* The result of DoFineParsing is chosen; the tree stays as it is.
LEMMA FinishTree ==
    ASSUME TreeInv, Finish
    PROVE  TreeInv'
<1>1. UNCHANGED <<pos, kind, name, comp, branches, blocks, stack, errors>>
  BY DEF Finish, tree
<1>2. StackInv'
  BY FinishStack DEF TreeInv, OrderInv
<1>3. OrderInv'
  BY <1>1, <1>2 DEF TreeInv, OrderInv, StackOrder, BodyOrder, NestingOrder, StackHandled
<1>4. OpenUnbranched' /\ BlocksNamed' /\ BlocksInOrder'
  BY <1>1 DEF TreeInv, OpenUnbranched, BlocksNamed, BlocksInOrder
<1>5. NothingLostSilently'
  BY <1>1 DEF TreeInv, NothingLostSilently, IsOpen, IsRendered, IsBranch, IsOverride
<1> QED BY <1>3, <1>4, <1>5 DEF TreeInv

\* The invariant of the tree is inductive.
THEOREM TreeInvariant == Spec => []TreeInv
<1>1. Init => TreeInv
  BY InitTree
<1>2. TreeInv /\ [Next]_vars => TreeInv'
  <2>1. ASSUME TreeInv, UNCHANGED vars
        PROVE  TreeInv'
    <3>1. UNCHANGED <<pos, kind, name, stack, comp, branches, blocks, errors, outcome>>
      BY <2>1 DEF vars
    <3>2. StackInv'
      BY <2>1, <3>1 DEF TreeInv, OrderInv, StackInv, TypeOK, Fresh, Made, Rooted, BlocksStand,
                        BlocksBound, RootBelow, RootOnce, OutcomeKnown
    <3>3. OrderInv'
      BY <2>1, <3>1, <3>2 DEF TreeInv, OrderInv, StackOrder, BodyOrder, NestingOrder,
                              StackHandled
    <3>4. OpenUnbranched' /\ BlocksNamed' /\ BlocksInOrder'
      BY <2>1, <3>1 DEF TreeInv, OpenUnbranched, BlocksNamed, BlocksInOrder
    <3>5. NothingLostSilently'
      BY <2>1, <3>1 DEF TreeInv, NothingLostSilently, IsOpen, IsRendered, IsBranch, IsOverride
    <3> QED BY <3>3, <3>4, <3>5 DEF TreeInv
  <2>2. ASSUME TreeInv, Next
        PROVE  TreeInv'
    BY <2>2, StepHasShape, ShapeTree, FinishTree DEF TreeInv, OrderInv, StackInv
  <2> QED BY <2>1, <2>2
<1> QED BY <1>1, <1>2, PTL DEF Spec

\* Bodies, branches and the stack are in the order of the text blocks, in every
\* template, refused ones too (what the handlers of StatementsParser append follows
\* all that is there).
THEOREM OrderKept == Spec => []DocumentOrder
<1>1. TreeInv => DocumentOrder
  BY DEF TreeInv, OrderInv, StackOrder, BodyOrder, NestingOrder, DocumentOrder
<1> QED BY <1>1, TreeInvariant, PTL

\* No renderer is lost without an error: whatever is popped by the handlers of
\* StatementsParser finds its place in a body, in branches or in m_blocks.
THEOREM NothingIsLost == Spec => []NothingLostSilently
<1>1. TreeInv => NothingLostSilently
  BY DEF TreeInv
<1> QED BY <1>1, TreeInvariant, PTL
-----------------------------------------------------------------------------
(* What is closed is final. *)

\* A handler changes what is on the stack, or makes what has not been made.
LEMMA FinalStep ==
    ASSUME StackInv, Shape, NEW x \in Ids, x <= pos, ~IsOpen(x)
    PROVE  comp'[x] = comp[x] /\ branches'[x] = branches[x] /\ blocks'[x] = blocks[x]
           /\ kind'[x] = kind[x]
<1>1. TypeOK /\ Consumed
  BY ShapeKinds DEF StackInv
<1>2. /\ Len(stack) \in Nat /\ pos \in Nat /\ x \in Nat
      /\ stack # <<>> => Len(stack) \in 1..Len(stack) /\ Last(stack) = stack[Len(stack)]
      /\ comp \in [Ids -> Seq(Ids)] /\ branches \in [Ids -> Seq(Ids)]
      /\ blocks \in [Ids -> [BlockNames -> Ids]] /\ kind \in [Ids -> Kinds]
  BY <1>1, TreeTypes
<1>3. x # Here
  BY <1>2 DEF Here
<1>4. \A j \in 1..Len(stack) : x # stack[j]
  BY <1>1, OpenPlace
<1>5. \A k : kind' = [kind EXCEPT ![Here] = k] => kind'[x] = kind[x]
  BY <1>2, <1>3
<1>6. \A j \in 1..Len(stack) : \A e :
        comp' = [comp EXCEPT ![stack[j]] = Append(@, e)] => comp'[x] = comp[x]
  BY <1>2, <1>4
<1>7. CASE IdleShape \/ UndefinedShape \/ \E i \in 0..Len(stack) : DropShape(i)
  BY <1>7 DEF IdleShape, UndefinedShape, DropShape, tree
<1>8. CASE \E k \in OpenKinds \union {"Block"}, n \in BlockNames \union {NoName} : OpenShape(k, n)
  BY <1>5, <1>8 DEF OpenShape
<1>9. CASE \E k \in LeafTypes : LeafShape(k)
  BY <1>2, <1>5, <1>6, <1>9 DEF LeafShape
<1>10. CASE ExtendsShape
  BY <1>2, <1>5, <1>6, <1>10 DEF ExtendsShape
<1>11. ASSUME NEW i \in 2..Len(stack), CloseShape(i)
       PROVE  comp'[x] = comp[x] /\ branches'[x] = branches[x] /\ blocks'[x] = blocks[x]
              /\ kind'[x] = kind[x]
  <2>1. i \in 1..Len(stack) /\ i - 1 \in 1..Len(stack)
    BY <1>2
  <2>2. comp'[x] = comp[x]
    BY <1>6, <1>11, <2>1 DEF CloseShape
  <2>3. branches'[x] = branches[x]
    BY <1>2, <1>4, <1>11, <2>1 DEF CloseShape
  <2> QED BY <1>11, <2>2, <2>3 DEF CloseShape
<1>12. CASE OverrideShape
  <2>1. /\ Len(stack) - 1 \in 1..Len(stack)
        /\ UNCHANGED <<kind, comp, branches>>
        /\ blocks' = [blocks EXCEPT ![stack[Len(stack) - 1]][name[Last(stack)]] = Last(stack)]
    BY <1>2, <1>12 DEF OverrideShape
  <2>2. blocks'[x] = blocks[x]
    BY <1>2, <1>4, <2>1
  <2> QED BY <2>1, <2>2
<1> QED BY <1>7, <1>8, <1>9, <1>10, <1>11, <1>12 DEF Shape

\* A statement that has been popped is never touched again: no composition of a
\* closed statement is kept and used for what follows it.
THEOREM ClosedStaysFinal == Spec => ClosedIsFinal
<1>1. StackInv /\ [Next]_vars =>
        [\A x \in Ids : x <= pos /\ ~IsOpen(x) =>
            /\ comp'[x] = comp[x]
            /\ branches'[x] = branches[x]
            /\ blocks'[x] = blocks[x]
            /\ kind'[x] = kind[x]]_vars
  <2> SUFFICES ASSUME StackInv, Next, NEW x \in Ids, x <= pos, ~IsOpen(x)
               PROVE  /\ comp'[x] = comp[x]
                      /\ branches'[x] = branches[x]
                      /\ blocks'[x] = blocks[x]
                      /\ kind'[x] = kind[x]
    OBVIOUS
  <2>1. CASE Finish
    BY <2>1 DEF Finish, tree
  <2>2. CASE Shape
    BY <2>2, FinalStep
  <2> QED BY <2>1, <2>2, StepHasShape DEF StackInv
<1> QED BY <1>1, StackInvariant, PTL DEF Spec, ClosedIsFinal
=============================================================================

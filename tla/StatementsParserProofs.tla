----------------------- MODULE StatementsParserProofs -----------------------
(* What holds of the parser's stack and tree for templates of any length,    *)
(* with any block names, with or without an environment.                     *)
(*                                                                           *)
(* Every handler has one of eight effects on the stack and the tree.  The    *)
(* lemma StepHasShape shows it; the invariants are then proved shape by      *)
(* shape, and no handler is looked at again.                                 *)
EXTENDS StatementsParser, SequenceTheorems, TLAPS

Errors == [class : ErrorClasses, block : Ids]

\* An error may be appended, or not; one is appended.
MayReport == errors' = errors \/ \E e \in Errors : errors' = Append(errors, e)
MustReport == \E e \in Errors : errors' = Append(errors, e)

OpenKinds == {"If", "ElseIf", "For", "Set", "ParentBlock", "Macro", "MacroCall",
              "With", "Filter"}
ClosableKinds == {"If", "For", "Set", "ParentBlock", "Macro", "MacroCall", "With",
                  "Filter"}

\* The next text block is consumed, and parsing goes on.
Consumed == pos < MaxBlocks /\ pos' = pos + 1
Continues == Consumed /\ outcome = "parsing" /\ outcome' = outcome

\* Nothing is built.
IdleShape == Continues /\ UNCHANGED <<tree, stack, errors>>

\* back() of an empty list, reached only when the root is not at the bottom.
UndefinedShape ==
    /\ Consumed
    /\ outcome' = "undefined"
    /\ UNCHANGED <<tree, stack, errors>>
    /\ stack = <<>> \/ kind[stack[1]] # "TemplateRoot"

\* An error is reported; records may have been popped.
DropShape(i) ==
    /\ Continues
    /\ stack' = SubSeq(stack, 1, i)
    /\ MustReport
    /\ UNCHANGED tree

\* A statement is opened.
OpenShape(k, n) ==
    /\ Continues
    /\ k = "Block" => stack # <<>> /\ KindOfTop = "Extends" /\ n \in BlockNames
    /\ kind' = [kind EXCEPT ![Here] = k]
    /\ name' = [name EXCEPT ![Here] = n]
    /\ stack' = Append(stack, Here)
    /\ MayReport
    /\ UNCHANGED <<comp, branches, blocks>>

\* A renderer without a body is added to the body of the open statement.
LeafShape(k) ==
    /\ Continues
    /\ stack # <<>>
    /\ kind' = [kind EXCEPT ![Here] = k]
    /\ comp' = [comp EXCEPT ![Last(stack)] = Append(@, Here)]
    /\ MayReport
    /\ UNCHANGED <<name, stack, branches, blocks>>

\* {% extends %} does both.
ExtendsShape ==
    /\ Continues
    /\ stack # <<>>
    /\ kind' = [kind EXCEPT ![Here] = "Extends"]
    /\ comp' = [comp EXCEPT ![Last(stack)] = Append(@, Here)]
    /\ stack' = Append(stack, Here)
    /\ MayReport
    /\ UNCHANGED <<name, branches, blocks>>

\* The statement at place i of the stack is closed with the branches above it.
CloseShape(i) ==
    /\ Continues
    /\ kind[stack[i]] \in ClosableKinds
    /\ \A j \in (i + 1)..Len(stack) : kind[stack[j]] = "ElseIf"
    /\ i < Len(stack) => kind[stack[i]] \in {"If", "For"}
    /\ kind[stack[i]] = "For" => Len(stack) <= i + 1
    /\ stack' = SubSeq(stack, 1, i - 1)
    /\ comp' = [comp EXCEPT ![stack[i - 1]] = Append(@, stack[i])]
    /\ branches' = IF i < Len(stack)
                   THEN [branches EXCEPT ![stack[i]] = SubSeq(stack, i + 1, Len(stack))]
                   ELSE branches
    /\ MayReport
    /\ UNCHANGED <<kind, name, blocks>>

\* An overriding block is closed.
OverrideShape ==
    /\ Continues
    /\ Len(stack) > 1
    /\ KindOfTop = "Block"
    /\ stack' = Front(stack)
    /\ blocks' = [blocks EXCEPT ![stack[Len(stack) - 1]][name[Last(stack)]] = Last(stack)]
    /\ MayReport
    /\ UNCHANGED <<kind, name, comp, branches>>

Shape ==
    \/ IdleShape
    \/ UndefinedShape
    \/ \E i \in 0..Len(stack) : DropShape(i)
    \/ \E k \in OpenKinds \union {"Block"}, n \in BlockNames \union {NoName} : OpenShape(k, n)
    \/ \E k \in LeafTypes : LeafShape(k)
    \/ ExtendsShape
    \/ \E i \in 2..Len(stack) : CloseShape(i)
    \/ OverrideShape
-----------------------------------------------------------------------------
(* Facts about sequences, in the form the provers need. *)

\* A sequence with an element more.
LEMMA AppendFacts ==
    ASSUME NEW S, NEW s \in Seq(S), NEW e \in S
    PROVE  /\ Append(s, e) \in Seq(S)
           /\ Len(Append(s, e)) = Len(s) + 1
           /\ \A i \in 1..Len(s) : Append(s, e)[i] = s[i]
           /\ Append(s, e)[Len(s) + 1] = e
           /\ Append(s, e) # <<>>
           /\ Range(Append(s, e)) = Range(s) \union {e}
<1>1. /\ Append(s, e) \in Seq(S)
      /\ Len(Append(s, e)) = Len(s) + 1
      /\ \A i \in 1..Len(s) : Append(s, e)[i] = s[i]
      /\ Append(s, e)[Len(s) + 1] = e
      /\ Append(s, e) # <<>>
  OBVIOUS
<1>2. /\ Len(s) \in Nat
      /\ DOMAIN s = 1..Len(s)
      /\ DOMAIN Append(s, e) = 1..(Len(s) + 1)
  BY <1>1, LenProperties
<1>3. Range(Append(s, e)) = Range(s) \union {e}
  BY <1>1, <1>2 DEF Range
<1> QED BY <1>1, <1>3

\* The first elements of a sequence: what is left of a stack that is popped.
LEMMA PrefixFacts ==
    ASSUME NEW S, NEW s \in Seq(S), NEW n \in 0..Len(s)
    PROVE  /\ SubSeq(s, 1, n) \in Seq(S)
           /\ Len(SubSeq(s, 1, n)) = n
           /\ \A i \in 1..n : SubSeq(s, 1, n)[i] = s[i]
           /\ Range(SubSeq(s, 1, n)) \subseteq Range(s)
<1>1. Len(s) \in Nat /\ DOMAIN s = 1..Len(s)
  BY LenProperties
<1>2. /\ SubSeq(s, 1, n) \in Seq(S)
      /\ Len(SubSeq(s, 1, n)) = n
      /\ \A i \in 1..n : SubSeq(s, 1, n)[i] = s[i]
  <2>1. \A i \in 1..n : s[i] \in S
    BY <1>1, ElementOfSeq
  <2> QED BY <1>1, <2>1, SubSeqProperties
<1>3. DOMAIN SubSeq(s, 1, n) = 1..n
  BY <1>2, LenProperties
<1>4. Range(SubSeq(s, 1, n)) \subseteq Range(s)
  BY <1>1, <1>2, <1>3 DEF Range
<1> QED BY <1>2, <1>4

\* The last elements of a sequence: what is popped.
LEMMA SuffixFacts ==
    ASSUME NEW S, NEW s \in Seq(S), NEW n \in 0..Len(s)
    PROVE  /\ SubSeq(s, n + 1, Len(s)) \in Seq(S)
           /\ Len(SubSeq(s, n + 1, Len(s))) = Len(s) - n
           /\ \A i \in 1..(Len(s) - n) : SubSeq(s, n + 1, Len(s))[i] = s[n + i]
           /\ \A x \in Range(SubSeq(s, n + 1, Len(s))) : \E j \in (n + 1)..Len(s) : x = s[j]
<1>1. Len(s) \in Nat /\ DOMAIN s = 1..Len(s)
  BY LenProperties
<1>2. /\ SubSeq(s, n + 1, Len(s)) \in Seq(S)
      /\ Len(SubSeq(s, n + 1, Len(s))) = Len(s) - n
      /\ \A i \in 1..(Len(s) - n) : SubSeq(s, n + 1, Len(s))[i] = s[n + i]
  <2>1. \A i \in (n + 1)..Len(s) : s[i] \in S
    BY <1>1, ElementOfSeq
  <2>2. /\ SubSeq(s, n + 1, Len(s)) \in Seq(S)
        /\ Len(SubSeq(s, n + 1, Len(s))) = IF n + 1 <= Len(s) THEN Len(s) - (n + 1) + 1 ELSE 0
        /\ \A i \in 1..(Len(s) - (n + 1) + 1) : SubSeq(s, n + 1, Len(s))[i] = s[n + 1 + i - 1]
    BY <1>1, <2>1, SubSeqProperties
  <2>3. Len(SubSeq(s, n + 1, Len(s))) = Len(s) - n
    <3> DEFINE l == Len(s)
               r == Len(SubSeq(s, n + 1, Len(s)))
    <3>1. l \in Nat /\ n \in Nat /\ n <= l
      BY <1>1
    <3>2. r = IF n + 1 <= l THEN l - (n + 1) + 1 ELSE 0
      BY <2>2
    <3> HIDE DEF l, r
    <3>3. r = l - n
      BY <3>1, <3>2
    <3> QED BY <3>3 DEF l, r
  <2>4. ASSUME NEW i \in 1..(Len(s) - n)
        PROVE  SubSeq(s, n + 1, Len(s))[i] = s[n + i]
    <3>1. n + 1 + i - 1 = n + i /\ i \in 1..(Len(s) - (n + 1) + 1)
      BY <1>1
    <3> QED BY <2>2, <3>1
  <2> QED BY <2>2, <2>3, <2>4
<1>3. DOMAIN SubSeq(s, n + 1, Len(s)) = 1..(Len(s) - n)
  BY <1>2, LenProperties
<1>4. ASSUME NEW x \in Range(SubSeq(s, n + 1, Len(s)))
      PROVE  \E j \in (n + 1)..Len(s) : x = s[j]
  <2>1. PICK i \in 1..(Len(s) - n) : x = SubSeq(s, n + 1, Len(s))[i]
    BY <1>3 DEF Range
  <2>2. n + i \in (n + 1)..Len(s)
    BY <1>1
  <2>3. x = s[n + i]
    BY <1>2, <2>1
  <2> QED BY <2>2, <2>3
<1> QED BY <1>2, <1>4
-----------------------------------------------------------------------------
(* Every step has one of the shapes. *)

\* Each handler of StatementsParser has one of the eight effects.
LEMMA StepHasShape ==
    ASSUME TypeOK, Next
    PROVE  Finish \/ Shape
<1> USE ParserAssumption
<1>1. CASE Finish
  BY <1>1
<1> SUFFICES ASSUME ~Finish
             PROVE  Shape
  BY <1>1
<1>2. stack \in Seq(Ids) /\ Len(stack) \in Nat /\ pos \in Ids
  BY LenProperties DEF TypeOK
<1>3. SubSeq(stack, 1, Len(stack)) = stack
  BY <1>2, SubSeqFull
<1>4. outcome = "parsing" /\ Consumed /\ Here \in Ids
  BY <1>2 DEF Next, Consume, Consumed, Here, Ids
<1>5. ASSUME NEW class \in ErrorClasses, NEW b \in Ids, Report(class, b)
      PROVE  MustReport /\ MayReport
  <2>1. [class |-> class, block |-> b] \in Errors
    BY DEF Errors
  <2> QED BY <1>5, <2>1 DEF MustReport, MayReport, Report
<1>6. ASSUME NEW header, Conclude(header)
      PROVE  MayReport
  BY <1>4, <1>5, <1>6 DEF Conclude, ErrorClasses, MayReport
<1>7. ASSUME NEW class \in ErrorClasses, Reject(class)
      PROVE  Shape
  <2>1. MustReport
    BY <1>4, <1>5, <1>7 DEF Reject
  <2>2. DropShape(Len(stack))
    BY <1>3, <1>4, <1>7, <2>1 DEF DropShape, Continues, Reject
  <2> QED BY <1>2, <2>2 DEF Shape
<1>8. ASSUME NEW k \in OpenKinds, NEW header, Open(k, NoName, header)
      PROVE  Shape
  <2>1. MayReport
    BY <1>6, <1>8 DEF Open
  <2>2. OpenShape(k, NoName)
    BY <1>4, <1>8, <2>1 DEF OpenShape, Continues, Open, OpenKinds
  <2> QED BY <2>2 DEF Shape
<1>9. ASSUME NEW k \in LeafTypes, NEW header, AddLeaf(k, header)
      PROVE  Shape
  <2>1. CASE stack = <<>>
    BY <1>4, <1>9, <2>1 DEF AddLeaf, Undefined, UndefinedShape, Shape
  <2>2. CASE stack # <<>>
    <3>1. MayReport
      BY <1>6, <1>9, <2>2 DEF AddLeaf
    <3>2. LeafShape(k)
      BY <1>4, <1>9, <2>2, <3>1 DEF LeafShape, Continues, AddLeaf
    <3> QED BY <3>2 DEF Shape
  <2> QED BY <2>1, <2>2
<1>10. ASSUME NEW i \in 1..Len(stack), NEW header,
              Attach(SubSeq(stack, 1, i), header),
              branches' = IF 1 < i /\ i < Len(stack)
                          THEN [branches EXCEPT ![stack[i]] = SubSeq(stack, i + 1, Len(stack))]
                          ELSE branches,
              kind[stack[i]] \in ClosableKinds,
              \A j \in (i + 1)..Len(stack) : kind[stack[j]] = "ElseIf",
              i < Len(stack) => kind[stack[i]] \in {"If", "For"},
              kind[stack[i]] = "For" => Len(stack) <= i + 1
       PROVE  Shape
  <2>1. /\ Len(SubSeq(stack, 1, i)) = i
        /\ \A j \in 1..i : SubSeq(stack, 1, i)[j] = stack[j]
    BY <1>2, PrefixFacts
  <2>2. CASE i = 1
    BY <1>2, <1>4, <1>10, <2>1, <2>2
    DEF Attach, Undefined, UndefinedShape, Shape, ClosableKinds
  <2>3. CASE i # 1
    <3>1. MayReport
      BY <1>6, <1>10, <2>1, <2>3 DEF Attach
    <3>2. Front(SubSeq(stack, 1, i)) = SubSeq(stack, 1, i - 1)
      <4>1. Front(SubSeq(stack, 1, i)) = SubSeq(SubSeq(stack, 1, i), 1, i - 1)
        BY <2>1 DEF Front
      <4>2. SubSeq(SubSeq(stack, 1, i), 1, i - 1) = SubSeq(stack, 1 + 1 - 1, 1 + (i - 1) - 1)
        <5>1. 1 \in 1..Len(stack) /\ 1 \in 1..(i - 1 + 1) /\ i - 1 \in 1..(i - 1 + 1)
          BY <1>2, <2>3
        <5> QED BY <1>2, <5>1, SubSeqOfSubSeq
      <4>3. 1 + 1 - 1 = 1 /\ 1 + (i - 1) - 1 = i - 1
        BY <1>2
      <4> QED BY <4>1, <4>2, <4>3
    <3>3. CloseShape(i)
      BY <1>2, <1>4, <1>10, <2>1, <2>3, <3>1, <3>2 DEF CloseShape, Continues, Attach, Last
    <3>4. i \in 2..Len(stack)
      BY <1>2, <2>3
    <3> QED BY <3>3, <3>4 DEF Shape
  <2> QED BY <2>2, <2>3
<1>11. ASSUME NEW k \in ClosableKinds \ {"If", "For"}, NEW header, Close(k, header)
       PROVE  Shape
  <2>1. CASE Len(stack) <= 1 \/ KindOfTop # k
    BY <1>7, <1>11, <2>1 DEF Close, ErrorClasses
  <2>2. CASE ~(Len(stack) <= 1 \/ KindOfTop # k)
    <3>1. Attach(SubSeq(stack, 1, Len(stack)), header) /\ branches' = branches
      BY <1>3, <1>11, <2>2 DEF Close
    <3>2. Len(stack) \in 1..Len(stack) /\ kind[stack[Len(stack)]] = k
      BY <1>2, <2>2 DEF KindOfTop, Last
    <3>3. \A j \in (Len(stack) + 1)..Len(stack) : kind[stack[j]] = "ElseIf"
      BY <1>2
    <3> HIDE <1>11
    <3> QED BY <1>2, <1>10, <3>1, <3>2, <3>3
  <2> QED BY <2>1, <2>2
\* The handlers, one by one.
<1>20. CASE Consume("text") /\ RawText
  BY <1>9, <1>20 DEF RawText, LeafTypes
<1>21. CASE Consume("empty") /\ EmptyBlock
  BY <1>4, <1>21 DEF EmptyBlock, IdleShape, Continues, Shape
<1>22. ASSUME NEW header \in Headers, ExpressionBlock(header)
       PROVE  Shape
  BY <1>7, <1>9, <1>22 DEF ExpressionBlock, LeafTypes, ErrorClasses
<1>23. ASSUME NEW header \in Headers, UnknownStatement(header)
       PROVE  Shape
  BY <1>7, <1>23 DEF UnknownStatement, ErrorClasses
<1>24. ASSUME NEW header \in Headers, ParseFor(header)
       PROVE  Shape
  BY <1>7, <1>8, <1>24 DEF ParseFor, OpenKinds, ErrorClasses
<1>25. ASSUME NEW header \in Headers, ParseEndFor(header)
       PROVE  Shape
  <2>1. CASE Len(stack) <= 1
    BY <1>7, <1>25, <2>1 DEF ParseEndFor, ErrorClasses
  <2>2. CASE Len(stack) > 1
    <3> DEFINE i == IF KindOfTop = "ElseIf" THEN Len(stack) - 1 ELSE Len(stack)
    <3>1. i \in 1..Len(stack) /\ i \in 0..Len(stack) /\ Len(stack) <= i + 1
      BY <1>2, <2>2
    <3>2. \A j \in (i + 1)..Len(stack) : kind[stack[j]] = "ElseIf"
      BY <1>2, <3>1 DEF KindOfTop, Last
    <3>3. IF kind[stack[i]] = "For" THEN CloseWithBranches(i, header)
          ELSE /\ stack' = SubSeq(stack, 1, i)
               /\ Report("statement", Here)
               /\ UNCHANGED <<tree, outcome>>
      <4> HIDE DEF KindOfTop
      <4> QED BY <1>2, <1>25, <2>2 DEF ParseEndFor
    <3> HIDE DEF i
    <3>4. CASE kind[stack[i]] # "For"
      <4>1. MustReport
        BY <1>4, <1>5, <3>3, <3>4 DEF ErrorClasses
      <4>2. DropShape(i)
        BY <1>4, <3>3, <3>4, <4>1 DEF DropShape, Continues
      <4> QED BY <3>1, <4>2 DEF Shape
    <3>5. CASE kind[stack[i]] = "For"
      <4>1. CloseWithBranches(i, header)
        BY <3>3, <3>5
      <4> QED BY <1>10, <3>1, <3>2, <3>5, <4>1 DEF CloseWithBranches, ClosableKinds
    <3> QED BY <3>4, <3>5
  <2> QED BY <1>2, <2>1, <2>2
<1>26. ASSUME NEW header \in Headers, ParseIf(header)
       PROVE  Shape
  BY <1>7, <1>8, <1>26 DEF ParseIf, OpenKinds, ErrorClasses
<1>27. ASSUME NEW header \in Headers, ParseElse(header)
       PROVE  Shape
  BY <1>7, <1>8, <1>27 DEF ParseElse, OpenKinds, ErrorClasses
<1>28. ASSUME NEW header \in Headers, ParseElIf(header)
       PROVE  Shape
  BY <1>7, <1>8, <1>28 DEF ParseElIf, OpenKinds, ErrorClasses
<1>29. ASSUME NEW header \in Headers, ParseEndIf(header)
       PROVE  Shape
  <2>1. CASE Len(stack) <= 1
    BY <1>7, <1>29, <2>1 DEF ParseEndIf, ErrorClasses
  <2>2. CASE Len(stack) > 1
    <3>1. PICK i \in 0..Len(stack) : IsOwner(i) /\ EndIfAt(i, header)
      BY <1>2, <1>29, <2>2 DEF ParseEndIf
    <3>2. CASE i = 0
      <4>1. kind[stack[1]] = "ElseIf"
        BY <1>2, <2>2, <3>1, <3>2 DEF IsOwner
      <4> QED BY <1>4, <3>1, <3>2, <4>1 DEF EndIfAt, Undefined, UndefinedShape, Shape
    <3>3. CASE i # 0 /\ kind[stack[i]] # "If"
      <4>1. (IF i = Len(stack) THEN Here ELSE stack[i + 1]) \in Ids
        BY <1>2, <1>4, <3>3
      <4>2. MustReport
        BY <1>5, <3>1, <3>3, <4>1 DEF EndIfAt, ErrorClasses
      <4>3. DropShape(i - 1)
        BY <1>4, <3>1, <3>3, <4>2 DEF EndIfAt, DropShape, Continues
      <4>4. i - 1 \in 0..Len(stack)
        BY <1>2, <3>3
      <4> QED BY <4>3, <4>4 DEF Shape
    <3>4. CASE i # 0 /\ kind[stack[i]] = "If"
      <4>1. i \in 1..Len(stack)
        BY <1>2, <3>4
      <4>2. \A j \in (i + 1)..Len(stack) : kind[stack[j]] = "ElseIf"
        BY <3>1 DEF IsOwner
      <4>3. CloseWithBranches(i, header)
        BY <3>1, <3>4 DEF EndIfAt
      <4> QED BY <1>10, <3>4, <4>1, <4>2, <4>3 DEF CloseWithBranches, ClosableKinds
    <3> QED BY <3>2, <3>3, <3>4
  <2> QED BY <1>2, <2>1, <2>2
<1>30. ASSUME NEW header \in Headers, ParseSet(header)
       PROVE  Shape
  BY <1>7, <1>8, <1>9, <1>30 DEF ParseSet, OpenKinds, LeafTypes, ErrorClasses
<1>31. ASSUME NEW header \in Headers, ParseEndSet(header)
       PROVE  Shape
  BY <1>11, <1>31 DEF ParseEndSet, ClosableKinds
<1>32. ASSUME NEW header \in Headers, ParseBlock(header)
       PROVE  Shape
  <2>1. CASE header # "bad" /\ stack # <<>> /\ KindOfTop = "Extends"
    <3>1. PICK n \in BlockNames : Open("Block", n, header)
      BY <1>32, <2>1 DEF ParseBlock
    <3>2. MayReport
      BY <1>6, <3>1 DEF Open
    <3>3. OpenShape("Block", n)
      BY <1>4, <2>1, <3>1, <3>2 DEF OpenShape, Continues, Open
    <3> QED BY <3>3 DEF Shape
  <2>2. CASE ~(header # "bad" /\ stack # <<>> /\ KindOfTop = "Extends")
    BY <1>7, <1>8, <1>32, <2>2 DEF ParseBlock, OpenKinds, ErrorClasses
  <2> QED BY <2>1, <2>2
<1>33. ASSUME NEW header \in Headers, ParseEndBlock(header)
       PROVE  Shape
  <2>1. CASE Len(stack) <= 1
    BY <1>7, <1>33, <2>1 DEF ParseEndBlock, ErrorClasses
  <2>2. CASE Len(stack) > 1
    <3>1. CASE header = "bad" /\ Reject("header")
      BY <1>7, <3>1 DEF ErrorClasses
    <3>2. CASE KindOfTop = "ParentBlock" /\ Attach(stack, header) /\ UNCHANGED branches
      <4>1. Attach(SubSeq(stack, 1, Len(stack)), header) /\ branches' = branches
        BY <1>3, <3>2
      <4>2. Len(stack) \in 1..Len(stack) /\ kind[stack[Len(stack)]] = "ParentBlock"
        BY <1>2, <2>2, <3>2 DEF KindOfTop, Last
      <4>3. \A j \in (Len(stack) + 1)..Len(stack) : kind[stack[j]] = "ElseIf"
        BY <1>2
      <4> QED BY <1>2, <1>10, <4>1, <4>2, <4>3 DEF ClosableKinds
    <3>3. CASE /\ KindOfTop = "Block"
               /\ stack' = Front(stack)
               /\ blocks' = [blocks EXCEPT ![stack[Len(stack) - 1]][name[Last(stack)]] = Last(stack)]
               /\ Conclude(header)
               /\ UNCHANGED <<kind, name, comp, branches, outcome>>
      <4>1. MayReport
        BY <1>6, <3>3
      <4> QED BY <1>4, <2>2, <3>3, <4>1 DEF OverrideShape, Continues, Shape
    <3>4. CASE /\ stack' = Front(stack)
               /\ Report("statement", Here)
               /\ UNCHANGED <<tree, outcome>>
      <4>1. MustReport
        BY <1>4, <1>5, <3>4 DEF ErrorClasses
      <4>2. DropShape(Len(stack) - 1)
        BY <1>4, <3>4, <4>1 DEF DropShape, Continues, Front
      <4>3. Len(stack) - 1 \in 0..Len(stack)
        BY <1>2, <2>2
      <4> QED BY <4>2, <4>3 DEF Shape
    <3> QED BY <1>2, <1>33, <2>2, <3>1, <3>2, <3>3, <3>4 DEF ParseEndBlock
  <2> QED BY <1>2, <2>1, <2>2
<1>34. ASSUME NEW header \in Headers, ParseExtends(header)
       PROVE  Shape
  <2>1. CASE stack = <<>> \/ ~HasEnv \/ (header = "bad" /\ Reject("header"))
    BY <1>7, <1>34, <2>1 DEF ParseExtends, ErrorClasses
  <2>2. CASE ~(stack = <<>> \/ ~HasEnv \/ (header = "bad" /\ Reject("header")))
    <3>1. /\ stack # <<>>
          /\ kind' = [kind EXCEPT ![Here] = "Extends"]
          /\ comp' = [comp EXCEPT ![Last(stack)] = Append(@, Here)]
          /\ stack' = Append(stack, Here)
          /\ Conclude(header)
          /\ UNCHANGED <<name, branches, blocks, outcome>>
      BY <1>34, <2>2 DEF ParseExtends
    <3>2. MayReport
      BY <1>6, <3>1
    <3> QED BY <1>4, <3>1, <3>2 DEF ExtendsShape, Continues, Shape
  <2> QED BY <2>1, <2>2
<1>35. ASSUME NEW header \in Headers, ParseMacro(header)
       PROVE  Shape
  BY <1>7, <1>8, <1>35 DEF ParseMacro, OpenKinds, ErrorClasses
<1>36. ASSUME NEW header \in Headers, ParseEndMacro(header)
       PROVE  Shape
  BY <1>11, <1>36 DEF ParseEndMacro, ClosableKinds
<1>37. ASSUME NEW header \in Headers, ParseCall(header)
       PROVE  Shape
  BY <1>7, <1>8, <1>37 DEF ParseCall, OpenKinds, ErrorClasses
<1>38. ASSUME NEW header \in Headers, ParseEndCall(header)
       PROVE  Shape
  BY <1>11, <1>38 DEF ParseEndCall, ClosableKinds
<1>39. ASSUME NEW header \in Headers, ParseInclude(header)
       PROVE  Shape
  BY <1>7, <1>9, <1>39 DEF ParseInclude, LeafTypes, ErrorClasses
<1>40. ASSUME NEW header \in Headers, ParseImport(header)
       PROVE  Shape
  BY <1>7, <1>9, <1>40 DEF ParseImport, LeafTypes, ErrorClasses
<1>41. ASSUME NEW header \in Headers, ParseFrom(header)
       PROVE  Shape
  BY <1>7, <1>9, <1>41 DEF ParseFrom, LeafTypes, ErrorClasses
<1>42. ASSUME NEW header \in Headers, ParseDo(header)
       PROVE  Shape
  BY <1>7, <1>9, <1>42 DEF ParseDo, LeafTypes, ErrorClasses
<1>43. ASSUME NEW header \in Headers, ParseWith(header)
       PROVE  Shape
  BY <1>7, <1>8, <1>43 DEF ParseWith, OpenKinds, ErrorClasses
<1>44. ASSUME NEW header \in Headers, ParseEndWith(header)
       PROVE  Shape
  BY <1>11, <1>44 DEF ParseEndWith, ClosableKinds
<1>45. ASSUME NEW header \in Headers, ParseFilter(header)
       PROVE  Shape
  BY <1>7, <1>8, <1>45 DEF ParseFilter, OpenKinds, ErrorClasses
<1>46. ASSUME NEW header \in Headers, ParseEndFilter(header)
       PROVE  Shape
  BY <1>11, <1>46 DEF ParseEndFilter, ClosableKinds
<1> QED
  BY <1>20, <1>21, <1>22, <1>23, <1>24, <1>25, <1>26, <1>27, <1>28, <1>29, <1>30,
     <1>31, <1>32, <1>33, <1>34, <1>35, <1>36, <1>37, <1>38, <1>39, <1>40, <1>41,
     <1>42, <1>43, <1>44, <1>45, <1>46
  DEF Next
-----------------------------------------------------------------------------
(* Type correctness. *)

\* The parser starts with a root and nothing else.
LEMMA InitType ==
    ASSUME Init
    PROVE  TypeOK
<1> USE ParserAssumption
<1>1. /\ Root \in Ids
      /\ <<>> \in Seq(Ids)
      /\ <<Root>> \in Seq(Ids)
      /\ <<>> \in Seq([class : ErrorClasses, block : Ids])
  BY DEF Root, Ids
<1>2. pos \in Ids /\ outcome \in {"parsing", "renderer", "errors", "undefined"}
  BY <1>1 DEF Init, Root
<1>3. kind \in [Ids -> Kinds]
  BY <1>1 DEF Init, Kinds, StatementTypes
<1>4. /\ name \in [Ids -> BlockNames \union {NoName}]
      /\ comp \in [Ids -> Seq(Ids)]
      /\ branches \in [Ids -> Seq(Ids)]
      /\ blocks \in [Ids -> [BlockNames -> Ids]]
  BY <1>1 DEF Init
<1>5. stack \in Seq(Ids) /\ errors \in Seq([class : ErrorClasses, block : Ids])
  BY <1>1 DEF Init
<1> QED BY <1>2, <1>3, <1>4, <1>5 DEF TypeOK

\* No handler leaves the types.
LEMMA ShapeType ==
    ASSUME TypeOK, Shape
    PROVE  TypeOK'
<1> USE ParserAssumption
<1>1. /\ stack \in Seq(Ids) /\ Len(stack) \in Nat /\ pos \in Ids
      /\ kind \in [Ids -> Kinds] /\ name \in [Ids -> BlockNames \union {NoName}]
      /\ comp \in [Ids -> Seq(Ids)] /\ branches \in [Ids -> Seq(Ids)]
      /\ blocks \in [Ids -> [BlockNames -> Ids]] /\ errors \in Seq(Errors)
  BY LenProperties DEF TypeOK, Errors
<1>2. Consumed
  BY DEF Shape, IdleShape, UndefinedShape, DropShape, OpenShape, LeafShape, ExtendsShape,
         CloseShape, OverrideShape, Continues
<1>3. pos' \in Ids /\ Here \in Ids
  BY <1>1, <1>2 DEF Ids, Consumed, Here
<1>4. MayReport => errors' \in Seq(Errors)
  <2>1. \A e \in Errors : Append(errors, e) \in Seq(Errors)
    BY <1>1, AppendFacts
  <2> QED BY <1>1, <2>1 DEF MayReport
<1>5. MustReport => errors' \in Seq(Errors)
  BY <1>1, AppendFacts DEF MustReport
<1>6. ASSUME NEW S, NEW f \in [Ids -> S], NEW x \in Ids, NEW v \in S
      PROVE  [f EXCEPT ![x] = v] \in [Ids -> S]
  BY <1>6
<1>7. stack # <<>> => Len(stack) \in 1..Len(stack) /\ Last(stack) \in Ids
  BY <1>1, EmptySeq, ElementOfSeq DEF Last
<1>8. ASSUME NEW p \in Ids, NEW x \in Ids
      PROVE  [comp EXCEPT ![p] = Append(@, x)] \in [Ids -> Seq(Ids)]
  BY <1>1, <1>8, AppendFacts
<1>9. Append(stack, Here) \in Seq(Ids)
  BY <1>1, <1>3, AppendFacts
<1>10. \A i \in 0..Len(stack) : SubSeq(stack, 1, i) \in Seq(Ids)
  BY <1>1, PrefixFacts
<1>11. CASE IdleShape
  BY <1>1, <1>3, <1>11 DEF IdleShape, Continues, TypeOK, tree
<1>12. CASE UndefinedShape
  BY <1>1, <1>3, <1>12 DEF UndefinedShape, TypeOK, tree
<1>13. ASSUME NEW i \in 0..Len(stack), DropShape(i)
       PROVE  TypeOK'
  BY <1>1, <1>3, <1>5, <1>10, <1>13 DEF DropShape, Continues, TypeOK, tree, Errors
<1>14. ASSUME NEW k \in OpenKinds \union {"Block"}, NEW n \in BlockNames \union {NoName},
              OpenShape(k, n)
       PROVE  TypeOK'
  <2>1. k \in Kinds
    BY DEF OpenKinds, Kinds, StatementTypes
  <2> QED BY <1>1, <1>3, <1>4, <1>9, <1>14, <2>1 DEF OpenShape, Continues, TypeOK, Errors
<1>15. ASSUME NEW k \in LeafTypes, LeafShape(k)
       PROVE  TypeOK'
  <2>1. k \in Kinds
    BY DEF Kinds
  <2>2. comp' \in [Ids -> Seq(Ids)]
    BY <1>3, <1>7, <1>8, <1>15 DEF LeafShape
  <2> QED BY <1>1, <1>3, <1>4, <1>15, <2>1, <2>2 DEF LeafShape, Continues, TypeOK, Errors
<1>16. CASE ExtendsShape
  <2>1. "Extends" \in Kinds
    BY DEF Kinds, StatementTypes
  <2>2. comp' \in [Ids -> Seq(Ids)]
    BY <1>3, <1>7, <1>8, <1>16 DEF ExtendsShape
  <2> QED BY <1>1, <1>3, <1>4, <1>9, <1>16, <2>1, <2>2 DEF ExtendsShape, Continues, TypeOK, Errors
<1>17. ASSUME NEW i \in 2..Len(stack), CloseShape(i)
       PROVE  TypeOK'
  <2>1. i - 1 \in 0..Len(stack) /\ i - 1 \in 1..Len(stack) /\ i \in 1..Len(stack)
        /\ i \in 0..Len(stack)
    BY <1>1
  <2>2. stack[i] \in Ids /\ stack[i - 1] \in Ids
    BY <1>1, <2>1, ElementOfSeq
  <2>3. comp' \in [Ids -> Seq(Ids)]
    BY <1>8, <1>17, <2>2 DEF CloseShape
  <2>4. SubSeq(stack, i + 1, Len(stack)) \in Seq(Ids)
    BY <1>1, <2>1, SuffixFacts
  <2>5. branches' \in [Ids -> Seq(Ids)]
    BY <1>1, <1>17, <2>2, <2>4 DEF CloseShape
  <2> QED BY <1>1, <1>3, <1>4, <1>10, <1>17, <2>1, <2>3, <2>5
          DEF CloseShape, Continues, TypeOK, Errors
<1>18. CASE OverrideShape
  <2>1. Len(stack) - 1 \in 1..Len(stack) /\ Len(stack) \in 1..Len(stack)
        /\ Len(stack) - 1 \in 0..Len(stack)
    BY <1>1, <1>18 DEF OverrideShape
  <2>2. stack[Len(stack) - 1] \in Ids /\ Last(stack) \in Ids
    BY <1>1, <2>1, ElementOfSeq DEF Last
  <2>3. blocks' \in [Ids -> [BlockNames -> Ids]]
    BY <1>1, <1>18, <2>2 DEF OverrideShape
  <2>4. stack' \in Seq(Ids)
    BY <1>10, <1>18, <2>1 DEF OverrideShape, Front
  <2> QED BY <1>1, <1>3, <1>4, <1>18, <2>3, <2>4 DEF OverrideShape, Continues, TypeOK, Errors
<1> QED
  BY <1>11, <1>12, <1>13, <1>14, <1>15, <1>16, <1>17, <1>18 DEF Shape

\* Nor does the end of DoFineParsing.
LEMMA FinishType ==
    ASSUME TypeOK, Finish
    PROVE  TypeOK'
BY DEF TypeOK, Finish, tree

\* The parser's variables keep their types, for templates of any length.
THEOREM TypeCorrect == Spec => []TypeOK
<1>1. Init => TypeOK
  BY InitType
<1>2. TypeOK /\ [Next]_vars => TypeOK'
  <2>1. CASE UNCHANGED vars
    BY <2>1 DEF vars, TypeOK
  <2>2. ASSUME TypeOK, Next
        PROVE  TypeOK'
    BY <2>2, StepHasShape, ShapeType, FinishType
  <2> QED BY <2>1, <2>2
<1> QED BY <1>1, <1>2, PTL DEF Spec
-----------------------------------------------------------------------------
(* The stack: the root stays at its bottom, overriding blocks stand on extends. *)

\* Nothing has been made from the text blocks that have not been handled.
Fresh == \A x \in Ids : x > pos => kind[x] = "None"

\* What is on the stack has been made.
Made == \A i \in 1..Len(stack) : kind[stack[i]] # "None"

\* The root alone is a TemplateRoot.
Rooted == \A x \in Ids : kind[x] = "TemplateRoot" <=> x = Root

\* The two parts of BlockOnExtends.
BlocksStand ==
    \A i \in 1..Len(stack) :
        kind[stack[i]] = "Block" => i > 1 /\ kind[stack[i - 1]] = "Extends"
BlocksBound ==
    \A p \in Ids, n \in BlockNames :
        blocks[p][n] # Root => kind[p] = "Extends" /\ kind[blocks[p][n]] = "Block"

\* The parts of CleanKeepsRoot.
RootBelow == errors = <<>> => stack # <<>> /\ stack[1] = Root
RootOnce == \A i \in 2..Len(stack) : stack[i] # Root
OutcomeKnown ==
    /\ errors = <<>> => outcome # "undefined"
    /\ outcome = "renderer" => errors = <<>>

\* Inductive: BlockOnExtends is so only with Fresh, for a handler writes kind[Here],
\* and CleanKeepsRoot only with Rooted, for what makes back() undefined is that the
\* record at the bottom is no TemplateRoot.
StackInv ==
    /\ TypeOK
    /\ Fresh /\ Made /\ Rooted
    /\ BlocksStand /\ BlocksBound
    /\ RootBelow /\ RootOnce /\ OutcomeKnown

\* What has been made keeps its kind.
KindsKept == \A x \in Ids : kind[x] # "None" => kind'[x] = kind[x]

\* The parser starts with the root on the stack.
LEMMA InitStack ==
    ASSUME Init
    PROVE  StackInv
<1> USE ParserAssumption
<1>1. Len(stack) = 1 /\ stack[1] = Root /\ stack # <<>>
  BY DEF Init
<1>2. TypeOK
  BY InitType
<1>3. Fresh /\ Made /\ Rooted
  BY <1>1 DEF Init, Fresh, Made, Rooted, Root, Ids
<1>4. BlocksStand /\ BlocksBound
  BY <1>1 DEF Init, BlocksStand, BlocksBound, Root, Ids
<1>5. RootBelow /\ RootOnce /\ OutcomeKnown
  BY <1>1 DEF Init, RootBelow, RootOnce, OutcomeKnown
<1> QED BY <1>2, <1>3, <1>4, <1>5 DEF StackInv

\* A renderer is made from the block that is being handled.
LEMMA MakeKind ==
    ASSUME TypeOK, Fresh, Rooted, Consumed,
           NEW k \in Kinds \ {"None", "TemplateRoot"},
           kind' = [kind EXCEPT ![Here] = k]
    PROVE  Fresh' /\ Rooted' /\ KindsKept /\ kind'[Here] = k
<1> USE ParserAssumption
<1>1. pos \in Nat /\ Here \in Ids /\ Here = pos + 1 /\ pos' = pos + 1 /\ Here # Root
  BY DEF TypeOK, Ids, Consumed, Here, Root
<1>2. kind \in [Ids -> Kinds]
  BY DEF TypeOK
<1>3. kind[Here] = "None"
  BY <1>1 DEF Fresh
<1>4. kind'[Here] = k /\ \A x \in Ids \ {Here} : kind'[x] = kind[x]
  BY <1>1, <1>2
<1>5. Fresh'
  BY <1>1, <1>4 DEF Fresh, Ids
<1>6. Rooted'
  BY <1>1, <1>4 DEF Rooted
<1>7. KindsKept
  BY <1>3, <1>4 DEF KindsKept
<1> QED BY <1>4, <1>5, <1>6, <1>7

\* No renderer is made: the block is a comment, an end tag or an error.
LEMMA SameKind ==
    ASSUME TypeOK, Fresh, Rooted, Consumed, UNCHANGED kind
    PROVE  Fresh' /\ Rooted' /\ KindsKept
<1>1. pos \in Nat /\ pos' = pos + 1
  BY ParserAssumption DEF TypeOK, Ids, Consumed
<1> QED BY <1>1, ParserAssumption DEF Fresh, Rooted, KindsKept, Ids

\* The stack is cut, or stays as it is.
LEMMA CutStack ==
    ASSUME TypeOK, Made, BlocksStand, RootOnce, KindsKept,
           NEW i \in 0..Len(stack), Len(stack') = i,
           \A j \in 1..i : stack'[j] = stack[j]
    PROVE  Made' /\ BlocksStand' /\ RootOnce'
<1>1. stack \in Seq(Ids) /\ Len(stack) \in Nat
  BY LenProperties DEF TypeOK
<1>2. \A j \in 1..i : j \in 1..Len(stack) /\ stack[j] \in Ids
  BY <1>1, ElementOfSeq
<1>3. \A j \in 1..i : kind'[stack'[j]] = kind[stack[j]]
  BY <1>2 DEF Made, KindsKept
<1>4. Made'
  BY <1>2, <1>3 DEF Made
<1>5. ASSUME NEW j \in 1..i, kind'[stack'[j]] = "Block"
      PROVE  j > 1 /\ kind'[stack'[j - 1]] = "Extends"
  <2>1. j > 1 /\ kind[stack[j - 1]] = "Extends"
    BY <1>2, <1>3, <1>5 DEF BlocksStand
  <2>2. j - 1 \in 1..i
    BY <2>1
  <2> QED BY <1>3, <2>1, <2>2
<1>6. BlocksStand'
  BY <1>5 DEF BlocksStand
<1>7. RootOnce'
  BY <1>1 DEF RootOnce
<1> QED BY <1>4, <1>6, <1>7

\* A statement is pushed.
LEMMA PushStack ==
    ASSUME TypeOK, Made, BlocksStand, RootOnce, KindsKept, Consumed,
           stack' = Append(stack, Here),
           kind'[Here] # "None",
           kind'[Here] = "Block" => stack # <<>> /\ KindOfTop = "Extends"
    PROVE  /\ Made' /\ BlocksStand' /\ RootOnce'
           /\ stack' # <<>>
           /\ stack # <<>> => stack'[1] = stack[1]
<1>1. stack \in Seq(Ids) /\ Len(stack) \in Nat
  BY LenProperties DEF TypeOK
<1>2. Here \in Ids /\ Here # Root
  BY ParserAssumption DEF TypeOK, Ids, Consumed, Here, Root
<1>3. /\ Len(stack') = Len(stack) + 1
      /\ \A j \in 1..Len(stack) : stack'[j] = stack[j]
      /\ stack'[Len(stack) + 1] = Here
      /\ stack' # <<>>
  BY <1>1, <1>2, AppendFacts
<1>4. \A j \in 1..Len(stack) : stack[j] \in Ids
  BY <1>1, ElementOfSeq
<1>5. \A j \in 1..Len(stack) : kind'[stack'[j]] = kind[stack[j]]
  BY <1>3, <1>4 DEF Made, KindsKept
<1>6. Made'
  BY <1>1, <1>3, <1>5 DEF Made
<1>7. ASSUME NEW j \in 1..Len(stack'), kind'[stack'[j]] = "Block"
      PROVE  j > 1 /\ kind'[stack'[j - 1]] = "Extends"
  <2>1. CASE j = Len(stack) + 1
    <3>1. stack # <<>> /\ kind[stack[Len(stack)]] = "Extends"
      BY <1>3, <1>7, <2>1 DEF KindOfTop, Last
    <3>2. Len(stack) \in 1..Len(stack)
      BY <1>1, <3>1, EmptySeq
    <3> QED BY <1>1, <1>5, <2>1, <3>1, <3>2
  <2>2. CASE j \in 1..Len(stack)
    <3>1. j > 1 /\ kind[stack[j - 1]] = "Extends"
      BY <1>5, <1>7, <2>2 DEF BlocksStand
    <3>2. j - 1 \in 1..Len(stack)
      BY <1>1, <2>2, <3>1
    <3> QED BY <1>5, <3>1, <3>2
  <2> QED BY <1>1, <1>3, <2>1, <2>2
<1>8. BlocksStand'
  BY <1>7 DEF BlocksStand
<1>9. RootOnce'
  BY <1>1, <1>2, <1>3 DEF RootOnce
<1>10. stack # <<>> => stack'[1] = stack[1]
  BY <1>1, <1>3, EmptySeq
<1> QED BY <1>3, <1>6, <1>8, <1>9, <1>10

\* No block is bound.
LEMMA SameBlocks ==
    ASSUME TypeOK, BlocksBound, KindsKept, UNCHANGED blocks
    PROVE  BlocksBound'
<1>1. \A p \in Ids, n \in BlockNames : blocks[p][n] \in Ids
  BY DEF TypeOK
<1> QED BY <1>1 DEF BlocksBound, KindsKept

\* Where an error is reported there are errors.
LEMMA ReportFacts ==
    ASSUME TypeOK
    PROVE  /\ MustReport => errors' # <<>>
           /\ MayReport => (errors' = <<>> => errors = <<>>)
<1>1. errors \in Seq(Errors)
  BY DEF TypeOK, Errors
<1>2. \A e \in Errors : Append(errors, e) # <<>>
  BY <1>1, AppendFacts
<1> QED BY <1>2 DEF MayReport, MustReport

\* Parsing goes on, and the root stays where it is unless an error is reported.
LEMMA RootKept ==
    ASSUME OutcomeKnown, RootBelow, Continues,
           errors' = <<>> => /\ errors = <<>>
                             /\ stack # <<>> => stack' # <<>> /\ stack'[1] = stack[1]
    PROVE  RootBelow' /\ OutcomeKnown'
BY DEF OutcomeKnown, RootBelow, Continues

\* No handler breaks the invariant of the stack.
LEMMA ShapeStack ==
    ASSUME StackInv, Shape
    PROVE  StackInv'
<1> USE ParserAssumption
<1>1. /\ TypeOK /\ Fresh /\ Made /\ Rooted
      /\ BlocksStand /\ BlocksBound
      /\ RootBelow /\ RootOnce /\ OutcomeKnown
  BY DEF StackInv
<1>2. Consumed
  BY DEF Shape, IdleShape, UndefinedShape, DropShape, OpenShape, LeafShape, ExtendsShape,
         CloseShape, OverrideShape, Continues
<1>3. TypeOK'
  BY <1>1, ShapeType
<1>4. /\ stack \in Seq(Ids) /\ Len(stack) \in Nat
      /\ stack # <<>> => Len(stack) > 0
  BY <1>1, LenProperties, EmptySeq DEF TypeOK
<1>5. /\ MustReport => errors' # <<>>
      /\ MayReport => (errors' = <<>> => errors = <<>>)
  BY <1>1, ReportFacts
<1>6. UNCHANGED kind => Fresh' /\ Rooted' /\ KindsKept
  BY <1>1, <1>2, SameKind
<1>7. KindsKept /\ UNCHANGED stack => Made' /\ BlocksStand' /\ RootOnce'
  <2>1. Len(stack) \in 0..Len(stack)
    BY <1>4
  <2> QED BY <1>1, <2>1, CutStack
<1>8. ASSUME NEW i \in 0..Len(stack), stack' = SubSeq(stack, 1, i), KindsKept
      PROVE  /\ Made' /\ BlocksStand' /\ RootOnce'
             /\ i > 0 => stack' # <<>> /\ stack'[1] = stack[1]
  <2>1. Len(stack') = i /\ \A j \in 1..i : stack'[j] = stack[j]
    BY <1>4, <1>8, PrefixFacts
  <2>2. i > 0 => stack' # <<>> /\ stack'[1] = stack[1]
    BY <2>1
  <2> QED BY <1>1, <1>8, <2>1, <2>2, CutStack
<1>9. KindsKept /\ UNCHANGED blocks => BlocksBound'
  BY <1>1, SameBlocks
<1>10. CASE IdleShape
  <2>1. UNCHANGED <<kind, stack, blocks, errors>> /\ Continues
    BY <1>10 DEF IdleShape, tree
  <2>2. RootBelow' /\ OutcomeKnown'
    BY <1>1, <2>1, RootKept
  <2> QED BY <1>3, <1>6, <1>7, <1>9, <2>1, <2>2 DEF StackInv
<1>11. CASE UndefinedShape
  <2>1. UNCHANGED <<kind, stack, blocks, errors>> /\ outcome' = "undefined"
    BY <1>11 DEF UndefinedShape, tree
  <2>2. errors # <<>>
    BY <1>1, <1>11 DEF UndefinedShape, RootBelow, Rooted, Ids, Root
  <2>3. RootBelow' /\ OutcomeKnown'
    BY <2>1, <2>2 DEF RootBelow, OutcomeKnown
  <2> QED BY <1>3, <1>6, <1>7, <1>9, <2>1, <2>3 DEF StackInv
<1>12. ASSUME NEW i \in 0..Len(stack), DropShape(i)
       PROVE  StackInv'
  <2>1. UNCHANGED <<kind, blocks>> /\ Continues /\ MustReport /\ stack' = SubSeq(stack, 1, i)
    BY <1>12 DEF DropShape, tree
  <2>2. RootBelow' /\ OutcomeKnown'
    BY <1>1, <1>5, <2>1, RootKept
  <2> QED BY <1>3, <1>6, <1>8, <1>9, <2>1, <2>2 DEF StackInv
<1>13. ASSUME NEW k \in OpenKinds \union {"Block"}, NEW n \in BlockNames \union {NoName},
              OpenShape(k, n)
       PROVE  StackInv'
  <2>1. /\ Continues /\ MayReport /\ UNCHANGED blocks
        /\ kind' = [kind EXCEPT ![Here] = k] /\ stack' = Append(stack, Here)
        /\ k = "Block" => stack # <<>> /\ KindOfTop = "Extends"
    BY <1>13 DEF OpenShape
  <2>2. k \in Kinds \ {"None", "TemplateRoot"}
    BY DEF OpenKinds, Kinds, StatementTypes
  <2>3. Fresh' /\ Rooted' /\ KindsKept /\ kind'[Here] = k
    BY <1>1, <1>2, <2>1, <2>2, MakeKind
  <2>4. /\ Made' /\ BlocksStand' /\ RootOnce'
        /\ stack' # <<>>
        /\ stack # <<>> => stack'[1] = stack[1]
    BY <1>1, <1>2, <2>1, <2>2, <2>3, PushStack
  <2>5. RootBelow' /\ OutcomeKnown'
    BY <1>1, <1>5, <2>1, <2>4, RootKept
  <2> QED BY <1>3, <1>9, <2>1, <2>3, <2>4, <2>5 DEF StackInv
<1>14. ASSUME NEW k \in LeafTypes, LeafShape(k)
       PROVE  StackInv'
  <2>1. /\ Continues /\ MayReport /\ UNCHANGED <<stack, blocks>>
        /\ kind' = [kind EXCEPT ![Here] = k]
    BY <1>14 DEF LeafShape
  <2>2. k \in Kinds \ {"None", "TemplateRoot"}
    BY DEF LeafTypes, Kinds
  <2>3. Fresh' /\ Rooted' /\ KindsKept
    BY <1>1, <1>2, <2>1, <2>2, MakeKind
  <2>4. RootBelow' /\ OutcomeKnown'
    BY <1>1, <1>5, <2>1, RootKept
  <2> QED BY <1>3, <1>7, <1>9, <2>1, <2>3, <2>4 DEF StackInv
<1>15. CASE ExtendsShape
  <2>1. /\ Continues /\ MayReport /\ UNCHANGED blocks
        /\ kind' = [kind EXCEPT ![Here] = "Extends"] /\ stack' = Append(stack, Here)
    BY <1>15 DEF ExtendsShape
  <2>2. "Extends" \in Kinds \ {"None", "TemplateRoot"}
    BY DEF Kinds, StatementTypes
  <2>3. Fresh' /\ Rooted' /\ KindsKept /\ kind'[Here] = "Extends"
    BY <1>1, <1>2, <2>1, <2>2, MakeKind
  <2>4. /\ Made' /\ BlocksStand' /\ RootOnce'
        /\ stack' # <<>>
        /\ stack # <<>> => stack'[1] = stack[1]
    BY <1>1, <1>2, <2>1, <2>3, PushStack
  <2>5. RootBelow' /\ OutcomeKnown'
    BY <1>1, <1>5, <2>1, <2>4, RootKept
  <2> QED BY <1>3, <1>9, <2>1, <2>3, <2>4, <2>5 DEF StackInv
<1>16. ASSUME NEW i \in 2..Len(stack), CloseShape(i)
       PROVE  StackInv'
  <2>1. /\ Continues /\ MayReport /\ UNCHANGED <<kind, blocks>>
        /\ stack' = SubSeq(stack, 1, i - 1)
    BY <1>16 DEF CloseShape
  <2>2. i - 1 \in 0..Len(stack) /\ i - 1 > 0
    BY <1>4
  <2>3. /\ Made' /\ BlocksStand' /\ RootOnce'
        /\ stack' # <<>> /\ stack'[1] = stack[1]
    BY <1>6, <1>8, <2>1, <2>2
  <2>4. RootBelow' /\ OutcomeKnown'
    BY <1>1, <1>5, <2>1, <2>3, RootKept
  <2> QED BY <1>3, <1>6, <1>9, <2>1, <2>3, <2>4 DEF StackInv
<1>17. CASE OverrideShape
  <2> DEFINE l == Len(stack)
  <2>1. /\ Continues /\ MayReport /\ UNCHANGED kind
        /\ stack' = SubSeq(stack, 1, l - 1)
        /\ l > 1 /\ kind[stack[l]] = "Block"
        /\ blocks' = [blocks EXCEPT ![stack[l - 1]][name[stack[l]]] = stack[l]]
    BY <1>17 DEF OverrideShape, Front, KindOfTop, Last
  <2>2. l - 1 \in 0..l /\ l - 1 > 0 /\ l \in 1..l /\ l - 1 \in 1..l
    BY <1>4, <2>1
  <2>3. /\ Made' /\ BlocksStand' /\ RootOnce'
        /\ stack' # <<>> /\ stack'[1] = stack[1]
    BY <1>6, <1>8, <2>1, <2>2
  <2>4. RootBelow' /\ OutcomeKnown'
    BY <1>1, <1>5, <2>1, <2>3, RootKept
  <2>5. kind[stack[l - 1]] = "Extends" /\ stack[l] \in Ids /\ stack[l - 1] \in Ids
    BY <1>1, <1>4, <2>1, <2>2, ElementOfSeq DEF BlocksStand
  <2>6. ASSUME NEW p \in Ids, NEW n \in BlockNames, blocks'[p][n] # Root
        PROVE  kind'[p] = "Extends" /\ kind'[blocks'[p][n]] = "Block"
    <3>1. blocks \in [Ids -> [BlockNames -> Ids]]
      BY <1>1 DEF TypeOK
    <3>2. CASE p = stack[l - 1] /\ n = name[stack[l]]
      BY <2>1, <2>5, <3>1, <3>2
    <3>3. CASE ~(p = stack[l - 1] /\ n = name[stack[l]])
      <4>1. blocks'[p][n] = blocks[p][n]
        BY <2>1, <2>5, <3>1, <3>3
      <4> QED BY <1>1, <2>1, <2>6, <4>1 DEF BlocksBound
    <3> QED BY <3>2, <3>3
  <2>7. BlocksBound'
    BY <2>6 DEF BlocksBound
  <2> QED BY <1>3, <1>6, <2>1, <2>3, <2>4, <2>7 DEF StackInv
<1> QED
  BY <1>10, <1>11, <1>12, <1>13, <1>14, <1>15, <1>16, <1>17 DEF Shape

\* Nor does the end of DoFineParsing, whatever is on the stack.
LEMMA FinishStack ==
    ASSUME StackInv, Finish
    PROVE  StackInv'
<1>1. TypeOK'
  BY FinishType DEF StackInv
<1>2. UNCHANGED <<pos, kind, stack, blocks, errors>>
  BY DEF Finish, tree
<1>3. OutcomeKnown'
  BY DEF Finish, OutcomeKnown
<1> QED
  BY <1>1, <1>2, <1>3 DEF StackInv, Fresh, Made, Rooted, BlocksStand, BlocksBound,
                          RootBelow, RootOnce

\* The invariant of statementsStack, for templates of any length.
THEOREM StackInvariant == Spec => []StackInv
<1>1. Init => StackInv
  BY InitStack
<1>2. StackInv /\ [Next]_vars => StackInv'
  <2>1. ASSUME StackInv, UNCHANGED vars
        PROVE  StackInv'
    BY <2>1 DEF vars, tree, StackInv, TypeOK, Fresh, Made, Rooted, BlocksStand, BlocksBound,
                RootBelow, RootOnce, OutcomeKnown
  <2>2. ASSUME StackInv, Next
        PROVE  StackInv'
    BY <2>2, StepHasShape, ShapeStack, FinishStack DEF StackInv
  <2> QED BY <2>1, <2>2
<1> QED BY <1>1, <1>2, PTL DEF Spec

\* The unchecked casts of ParseEndBlock are right in every template, refused ones too.
THEOREM CastsAreRight == Spec => []BlockOnExtends
<1>1. StackInv => BlockOnExtends
  BY DEF StackInv, BlocksStand, BlocksBound, BlockOnExtends
<1> QED BY <1>1, StackInvariant, PTL

\* As long as no error is reported back() and pop_back() never meet an empty list,
\* and what Finish returns is the root's composition.
THEOREM RootStays == Spec => []CleanKeepsRoot
<1>1. StackInv => CleanKeepsRoot
  BY DEF StackInv, RootBelow, RootOnce, OutcomeKnown, CleanKeepsRoot
<1> QED BY <1>1, StackInvariant, PTL
=============================================================================

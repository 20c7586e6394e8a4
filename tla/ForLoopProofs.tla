----------------------------- MODULE ForLoopProofs -----------------------------
(* What holds of RenderLoop for lists of any length, with items of any kind and  *)
(* any number of variables.                                                      *)
(*                                                                               *)
(* The argument is where the enumerator stands: one item ahead of the item being *)
(* rendered, in the list the loop began with or in the one made for loop.length. *)
EXTENDS ForLoop, SequenceTheorems, WellFoundedInduction, TLAPS

Source == Chosen(form)
Count == Len(Source)
\* The items that can be unpacked, and those of them that the first n hold.
Unpacked == {i \in Places : Unpackable(i)}
Due(n) == Filtered(Source, Unpacked)[n]
\* How many items the loop has begun.
Begun == IF pc = "body" THEN itemIdx + 1 ELSE itemIdx

Items == Places \union {None, Moved}
LoopVars == [length : {None} \union Nat, index : Nat, first : BOOLEAN, last : BOOLEAN,
             previtem : Items, nextitem : Items]
Bounds == [1..form.varCount -> Items]
Rounds == [item : Items, loop : LoopVars, bound : Bounds]

ForTypeOK ==
    /\ form \in Forms /\ IsCanonical(form)
    /\ pc \in {"enter", "head", "body", "leave", "done"}
    /\ bound \in Bounds /\ loopVar \in LoopVars
    /\ enumerator \in [items : Seq(Places), at : Nat, indexed : BOOLEAN]
    /\ listSize \in Nat \union {NoSize} /\ itemIdx \in Nat /\ isLast \in BOOLEAN
    /\ curValue \in Items /\ nextValue \in Items
    /\ rendered \in Seq(Rounds) /\ late \in BOOLEAN

\* What the items left, in the enumerator from the current one on, are.
Ahead ==
    Begun < Count =>
        /\ enumerator.at \in 1..Len(enumerator.items)
        /\ Len(enumerator.items) - enumerator.at = Count - (Begun + 1)
        /\ \A j \in 0..(Count - (Begun + 1)) :
              enumerator.items[enumerator.at + j] = Source[Begun + 1 + j]

\* The loop as it should be.
InPlace ==
    /\ Begun <= Count /\ (isLast <=> Begun = Count)
    /\ Ahead
    /\ Begun = Count /\ Count > 0 /\ ~enumerator.indexed =>
          enumerator.at = Len(enumerator.items) /\ enumerator.at > 0
    /\ Begun > 0 => curValue = Source[Begun]
    /\ Begun > 0 /\ Begun < Count => nextValue = Source[Begun + 1]
    /\ Begun = 0 => loopVar.previtem = None
    /\ loopVar.length \in {None, Count}
    /\ listSize \in {NoSize, Count}
    /\ listSize = NoSize => ~enumerator.indexed

\* The loop after loop.length has been asked for in the last round: a round is left, or
\* has been begun.
InLatePlace ==
    /\ listSize # NoSize /\ Count > 0
    /\ \/ /\ Begun = Count /\ ~isLast
          /\ enumerator.at = 1 /\ Len(enumerator.items) = 1
       \/ Begun > Count /\ isLast

\* Where the loop is.
Placed ==
    /\ pc = "enter" => itemIdx = 0 /\ loopVar = NoLoop /\ rendered = <<>> /\ ~late
    /\ ~form.isList => rendered = <<>> /\ ~late /\ pc \in {"enter", "leave", "done"}
    /\ form.isList /\ pc # "enter" => IF late THEN InLatePlace ELSE InPlace
    /\ form.isList /\ pc \in {"leave", "done"} => isLast

\* What has been rendered are the items that were due, and in a late round what was left.
RenderedDue ==
    form.isList /\ pc # "enter" =>
        LET due == Due(IF Begun <= Count THEN Begun ELSE Count)
        IN /\ Len(due) <= Len(rendered)
           /\ \A k \in 1..Len(due) : rendered[k].item = due[k]
           /\ Len(rendered) > Len(due) =>
                 late /\ Begun > Count /\ Len(rendered) = Len(due) + 1

\* What a round of the body sees of the loop.
LoopIsRight(round) ==
    LET l == round.loop
    IN /\ l.index \in 1..Count /\ Source[l.index] = round.item
       /\ l.first = (l.index = 1)
       /\ l.last = (l.index = Count)
       /\ l.previtem = IF l.first THEN None ELSE Source[l.index - 1]
       /\ l.nextitem = IF l.last THEN None ELSE Source[l.index + 1]
       /\ l.length \in {None, Count}
LoopsAreRight == ~late => \A k \in 1..Len(rendered) : LoopIsRight(rendered[k])

\* The value of variable v after k rounds.
Enough(k, v) == {j \in 1..k : form.arity[Expected[j]] >= v}
LastOf(S) == CHOOSE j \in S : \A m \in S : m <= j
Nearest(k, v) == IF Enough(k, v) = {} THEN None ELSE Expected[LastOf(Enough(k, v))]
BoundsAreRight ==
    ~late => /\ \A v \in 1..form.varCount : bound[v] = Nearest(Len(rendered), v)
             /\ \A k \in 1..Len(rendered), v \in 1..form.varCount :
                   rendered[k].bound[v] = Nearest(k, v)

\* Inductive.
LoopInv == ForTypeOK /\ Placed /\ RenderedDue /\ LoopsAreRight /\ BoundsAreRight
-----------------------------------------------------------------------------
(* Induction, and what Filtered makes. *)

\* A set of numbers with 0 and, with each, the next one has them all.
LEMMA NatSets ==
    ASSUME NEW T, 0 \in T, \A n \in Nat : n \in T => n + 1 \in T
    PROVE  \A n \in Nat : n \in T
<1> SUFFICES ASSUME Nat \ T # {}
             PROVE  FALSE
  OBVIOUS
<1>1. IsWellFoundedOn({ss \in Nat \X Nat : ss[1] < ss[2]}, Nat)
  BY NatLessThanWellFounded DEF OpToRel
<1>2. PICK m \in Nat \ T : \A y \in Nat \ T : ~(<<y, m>> \in {ss \in Nat \X Nat : ss[1] < ss[2]})
  BY <1>1, WFMin
<1>3. \A y \in Nat \ T : ~(y < m)
  BY <1>2
<1>4. m - 1 \in Nat \ T
  <2>1. m # 0 /\ m - 1 \in Nat /\ (m - 1) + 1 = m
    OBVIOUS
  <2> QED BY <2>1
<1> QED BY <1>3, <1>4

\* left does for the first n elements what Filtered says.
Leaves(left, s, S, n) ==
    left = [m \in 0..n |-> IF m = 0 THEN <<>>
                           ELSE IF s[m] \in S THEN Append(left[m - 1], s[m]) ELSE left[m - 1]]

\* There is a function that does what Filtered says.
LEMMA FilteredExists ==
    ASSUME NEW s, NEW S, NEW n \in Nat
    PROVE  \E left : Leaves(left, s, S, n)
<1> DEFINE T == {k \in Nat : \E left : Leaves(left, s, S, k)}
<1>1. 0 \in T
  <2> DEFINE left == [m \in 0..0 |-> <<>>]
  <2>1. Leaves(left, s, S, 0)
    BY DEF Leaves
  <2> QED BY <2>1
<1>2. ASSUME NEW k \in Nat, k \in T
      PROVE  k + 1 \in T
  <2>1. PICK left : Leaves(left, s, S, k)
    BY <1>2
  <2> DEFINE next == IF s[k + 1] \in S THEN Append(left[k], s[k + 1]) ELSE left[k]
             more == [m \in 0..(k + 1) |-> IF m = k + 1 THEN next ELSE left[m]]
  <2>2. ASSUME NEW m \in 0..(k + 1)
        PROVE  more[m] = IF m = 0 THEN <<>>
                         ELSE IF s[m] \in S THEN Append(more[m - 1], s[m]) ELSE more[m - 1]
    <3>1. CASE m = k + 1
      <4>1. more[m - 1] = left[k] /\ more[m] = next /\ m # 0
        BY <3>1
      <4> QED BY <3>1, <4>1
    <3>2. CASE m # k + 1
      <4>1. m \in 0..k /\ more[m] = left[m]
        BY <3>2
      <4>2. m # 0 => m - 1 \in 0..k /\ more[m - 1] = left[m - 1]
        BY <4>1
      <4> HIDE DEF more
      <4>3. left[m] = IF m = 0 THEN <<>>
                      ELSE IF s[m] \in S THEN Append(left[m - 1], s[m]) ELSE left[m - 1]
        BY <2>1, <4>1 DEF Leaves
      <4> QED BY <4>1, <4>2, <4>3
    <3> QED BY <3>1, <3>2
  <2>3. Leaves(more, s, S, k + 1)
    BY <2>2 DEF Leaves
  <2> HIDE DEF more, next
  <2> QED BY <2>3
<1>3. \A k \in Nat : k \in T
  <2> HIDE DEF T
  <2> QED BY <1>1, <1>2, NatSets
<1> QED BY <1>3

\* Filtered goes through s element by element.
LEMMA FilteredSteps ==
    ASSUME NEW T, NEW s \in Seq(T), NEW S
    PROVE  /\ Filtered(s, S)[0] = <<>>
           /\ \A n \in 1..Len(s) :
                 Filtered(s, S)[n] = IF s[n] \in S THEN Append(Filtered(s, S)[n - 1], s[n])
                                     ELSE Filtered(s, S)[n - 1]
<1> DEFINE F == CHOOSE left : Leaves(left, s, S, Len(s))
<1>1. Len(s) \in Nat
  BY LenProperties
<1>2. Leaves(F, s, S, Len(s))
  BY <1>1, FilteredExists
<1>3. Filtered(s, S) = F
  BY DEF Filtered, Leaves
<1> HIDE DEF F
<1>4. F[0] = <<>>
  BY <1>1, <1>2 DEF Leaves
<1>5. ASSUME NEW n \in 1..Len(s)
      PROVE  F[n] = IF s[n] \in S THEN Append(F[n - 1], s[n]) ELSE F[n - 1]
  <2>1. n \in 0..Len(s) /\ n # 0
    BY <1>1
  <2> QED BY <1>2, <2>1 DEF Leaves
<1> QED BY <1>3, <1>4, <1>5

\* What is left is from s and in S, and not more than there was.
LEMMA FilteredType ==
    ASSUME NEW T, NEW s \in Seq(T), NEW S
    PROVE  \A n \in 0..Len(s) :
              Filtered(s, S)[n] \in Seq(T \intersect S) /\ Len(Filtered(s, S)[n]) <= n
<1> DEFINE F == Filtered(s, S)
           G == {n \in Nat : n <= Len(s) => F[n] \in Seq(T \intersect S) /\ Len(F[n]) <= n}
<1>1. Len(s) \in Nat /\ \A n \in 1..Len(s) : s[n] \in T
  BY LenProperties, ElementOfSeq
<1>2. /\ F[0] = <<>>
      /\ \A n \in 1..Len(s) : F[n] = IF s[n] \in S THEN Append(F[n - 1], s[n]) ELSE F[n - 1]
  BY FilteredSteps
<1> HIDE DEF F
<1>3. 0 \in G
  <2>1. F[0] \in Seq(T \intersect S) /\ Len(F[0]) = 0
    BY <1>2
  <2> QED BY <2>1
<1>4. ASSUME NEW n \in Nat, n \in G
      PROVE  n + 1 \in G
  <2> SUFFICES ASSUME n + 1 <= Len(s)
               PROVE  F[n + 1] \in Seq(T \intersect S) /\ Len(F[n + 1]) <= n + 1
    OBVIOUS
  <2>1. F[n] \in Seq(T \intersect S) /\ Len(F[n]) <= n /\ Len(F[n]) \in Nat
    BY <1>1, <1>4, LenProperties
  <2>2. n + 1 \in 1..Len(s) /\ (n + 1) - 1 = n
    BY <1>1
  <2>3. CASE s[n + 1] \in S
    <3>1. F[n + 1] = Append(F[n], s[n + 1]) /\ s[n + 1] \in T \intersect S
      BY <1>1, <1>2, <2>2, <2>3
    <3>2. F[n + 1] \in Seq(T \intersect S) /\ Len(F[n + 1]) = Len(F[n]) + 1
      BY <2>1, <3>1, AppendProperties
    <3> QED BY <2>1, <3>2
  <2>4. CASE s[n + 1] \notin S
    <3>1. F[n + 1] = F[n]
      BY <1>2, <2>2, <2>4
    <3> QED BY <2>1, <3>1
  <2> QED BY <2>3, <2>4
<1>5. \A n \in Nat : n \in G
  <2> HIDE DEF G
  <2> QED BY <1>3, <1>4, NatSets
<1> QED BY <1>1, <1>5 DEF F

\* What is left of a part is at the beginning of what is left of all.
LEMMA FilteredPrefix ==
    ASSUME NEW T, NEW s \in Seq(T), NEW S
    PROVE  \A m, n \in 0..Len(s) :
              m <= n => /\ Len(Filtered(s, S)[m]) <= Len(Filtered(s, S)[n])
                        /\ \A k \in 1..Len(Filtered(s, S)[m]) :
                              Filtered(s, S)[n][k] = Filtered(s, S)[m][k]
<1> SUFFICES ASSUME NEW m \in 0..Len(s), NEW n \in 0..Len(s), m <= n
             PROVE  /\ Len(Filtered(s, S)[m]) <= Len(Filtered(s, S)[n])
                    /\ \A k \in 1..Len(Filtered(s, S)[m]) :
                          Filtered(s, S)[n][k] = Filtered(s, S)[m][k]
  OBVIOUS
<1> DEFINE F == Filtered(s, S)
           G == {d \in Nat : m + d <= Len(s) =>
                               /\ Len(F[m]) <= Len(F[m + d])
                               /\ \A k \in 1..Len(F[m]) : F[m + d][k] = F[m][k]}
<1>1. Len(s) \in Nat /\ \A i \in 1..Len(s) : s[i] \in T
  BY LenProperties, ElementOfSeq
<1>2. \A i \in 1..Len(s) : F[i] = IF s[i] \in S THEN Append(F[i - 1], s[i]) ELSE F[i - 1]
  BY FilteredSteps
<1>3. \A i \in 0..Len(s) : F[i] \in Seq(T \intersect S)
  BY FilteredType
<1> HIDE DEF F
<1>4. 0 \in G
  <2>1. Len(F[m]) \in Nat /\ m + 0 = m
    BY <1>1, <1>3, LenProperties
  <2> QED BY <2>1
<1>5. ASSUME NEW d \in Nat, d \in G
      PROVE  d + 1 \in G
  <2> SUFFICES ASSUME m + (d + 1) <= Len(s)
               PROVE  /\ Len(F[m]) <= Len(F[m + (d + 1)])
                      /\ \A k \in 1..Len(F[m]) : F[m + (d + 1)][k] = F[m][k]
    OBVIOUS
  <2> DEFINE i == m + (d + 1)
  <2>1. i \in 1..Len(s) /\ i - 1 = m + d /\ i - 1 \in 0..Len(s)
    BY <1>1
  <2>2. Len(F[m]) <= Len(F[i - 1]) /\ \A k \in 1..Len(F[m]) : F[i - 1][k] = F[m][k]
    BY <1>1, <1>5, <2>1
  <2> HIDE DEF i
  <2>3. F[i - 1] \in Seq(T \intersect S) /\ Len(F[i - 1]) \in Nat /\ Len(F[m]) \in Nat
    BY <1>3, <2>1, LenProperties
  <2>4. CASE s[i] \in S
    <3>1. F[i] = Append(F[i - 1], s[i]) /\ s[i] \in T \intersect S
      BY <1>1, <1>2, <2>1, <2>4
    <3>2. /\ Len(F[i]) = Len(F[i - 1]) + 1
          /\ \A k \in 1..Len(F[i - 1]) : F[i][k] = F[i - 1][k]
      BY <2>3, <3>1, AppendProperties
    <3> QED BY <2>2, <2>3, <3>2 DEF i
  <2>5. CASE s[i] \notin S
    <3>1. F[i] = F[i - 1]
      BY <1>2, <2>1, <2>5
    <3> QED BY <2>2, <3>1 DEF i
  <2> QED BY <2>4, <2>5
<1>6. n - m \in G
  <2>1. \A d \in Nat : d \in G
    <3> HIDE DEF G
    <3> QED BY <1>4, <1>5, NatSets
  <2>2. n - m \in Nat
    OBVIOUS
  <2> QED BY <2>1, <2>2
<1>7. m + (n - m) = n
  OBVIOUS
<1> QED BY <1>1, <1>6, <1>7 DEF F

\* Where every element is in S, all are left.
LEMMA FilteredAll ==
    ASSUME NEW T, NEW s \in Seq(T), NEW S, \A n \in 1..Len(s) : s[n] \in S
    PROVE  Len(Filtered(s, S)[Len(s)]) = Len(s)
<1> DEFINE F == Filtered(s, S)
           G == {n \in Nat : n <= Len(s) => Len(F[n]) = n}
<1>1. Len(s) \in Nat /\ \A i \in 1..Len(s) : s[i] \in T
  BY LenProperties, ElementOfSeq
<1>2. /\ F[0] = <<>>
      /\ \A i \in 1..Len(s) : F[i] = IF s[i] \in S THEN Append(F[i - 1], s[i]) ELSE F[i - 1]
  BY FilteredSteps
<1>3. \A i \in 0..Len(s) : F[i] \in Seq(T \intersect S)
  BY FilteredType
<1> HIDE DEF F
<1>4. 0 \in G
  BY <1>2
<1>5. ASSUME NEW n \in Nat, n \in G
      PROVE  n + 1 \in G
  <2> SUFFICES ASSUME n + 1 <= Len(s)
               PROVE  Len(F[n + 1]) = n + 1
    OBVIOUS
  <2>1. n + 1 \in 1..Len(s) /\ (n + 1) - 1 = n /\ n \in 0..Len(s) /\ Len(F[n]) = n
    BY <1>1, <1>5
  <2>2. F[n + 1] = Append(F[n], s[n + 1]) /\ F[n] \in Seq(T \intersect S) /\ s[n + 1] \in T \intersect S
    BY <1>1, <1>2, <1>3, <2>1
  <2> QED BY <2>1, <2>2, AppendProperties
<1>6. \A n \in Nat : n \in G
  <2> HIDE DEF G
  <2> QED BY <1>4, <1>5, NatSets
<1> QED BY <1>1, <1>6 DEF F
-----------------------------------------------------------------------------
(* The list the loop goes through, and what is due of it. *)

\* The items that pass the if part are places of the list, all of them when its size
\* is known.
LEMMA SourceFacts ==
    ASSUME form \in Forms
    PROVE  /\ Source \in Seq(Places) /\ Count \in Nat
           /\ \A n \in 1..Count : Source[n] \in Places
           /\ Places \subseteq Nat /\ None \notin Places /\ Moved \notin Places
           /\ form.count \in Nat /\ form.varCount \in Nat /\ form.varCount > 0
           /\ IsCanonical(form) /\ form.sized => Count = form.count
<1> DEFINE all == [i \in 1..form.count |-> i]
           passing == {i \in Places : form.passes[i]}
<1>1. /\ form.count \in 0..MaxItems /\ form.varCount \in Nat \ {0} /\ Places \subseteq Nat
      /\ None \notin Places /\ Moved \notin Places
  <2>1. form.count \in 0..MaxItems /\ form.varCount \in VarCounts
    BY DEF Forms
  <2>2. Places \subseteq Nat
    BY ForLoopAssumption DEF Places
  <2>3. form.varCount \in Nat \ {0} /\ None \notin Places /\ Moved \notin Places
    BY <2>1, <2>2, ForLoopAssumption
  <2> QED BY <2>1, <2>2, <2>3
<1>2. form.count \in Nat /\ \A i \in 1..form.count : i \in Places
  BY <1>1, ForLoopAssumption DEF Places
<1>3. all \in Seq(Places) /\ Len(all) = form.count /\ \A i \in 1..form.count : all[i] = i
  BY <1>2
<1>4. Source = Filtered(all, passing)[form.count]
  BY DEF Source, Chosen
<1> HIDE DEF all
<1>5. form.count \in 0..Len(all)
  BY <1>2, <1>3
<1>6. Source \in Seq(Places \intersect passing)
  BY <1>3, <1>4, <1>5, FilteredType
<1>7. Source \in Seq(Places) /\ Count \in Nat /\ \A n \in 1..Count : Source[n] \in Places
  BY <1>6, LenProperties, ElementOfSeq DEF Count
<1>8. ASSUME IsCanonical(form), form.sized
      PROVE  Count = form.count
  <2>1. \A n \in 1..Len(all) : all[n] \in passing
    BY <1>2, <1>3, <1>8 DEF IsCanonical
  <2>2. Len(Filtered(all, passing)[Len(all)]) = Len(all)
    BY <1>3, <2>1, FilteredAll
  <2> QED BY <1>3, <1>4, <2>2 DEF Count
<1> QED BY <1>1, <1>2, <1>7, <1>8

\* Another item that can be unpacked makes one more due.
LEMMA DueFacts ==
    ASSUME form \in Forms
    PROVE  /\ Due(0) = <<>> /\ Due(Count) = Expected
           /\ \A n \in 0..Count : Due(n) \in Seq(Places) /\ Len(Due(n)) \in Nat
           /\ \A n \in 1..Count :
                 IF Unpackable(Source[n])
                 THEN /\ Len(Due(n)) = Len(Due(n - 1)) + 1
                      /\ \A k \in 1..Len(Due(n - 1)) : Due(n)[k] = Due(n - 1)[k]
                      /\ Due(n)[Len(Due(n))] = Source[n]
                 ELSE Due(n) = Due(n - 1)
           /\ \A n \in 0..Count :
                 /\ Len(Due(n)) <= Len(Expected)
                 /\ \A k \in 1..Len(Due(n)) : Expected[k] = Due(n)[k]
<1>1. Source \in Seq(Places) /\ Count \in Nat /\ \A n \in 1..Count : Source[n] \in Places
  BY SourceFacts
<1>2. Due(0) = <<>> /\ Due(Count) = Expected
  BY <1>1, FilteredSteps DEF Due, Expected, Source, Count, Unpacked
<1>3. ASSUME NEW n \in 0..Count
      PROVE  Due(n) \in Seq(Places) /\ Len(Due(n)) \in Nat
  <2>1. Due(n) \in Seq(Places \intersect Unpacked)
    BY <1>1, FilteredType DEF Due, Count
  <2>2. Places \intersect Unpacked \subseteq Places
    OBVIOUS
  <2> HIDE DEF Due
  <2>3. Len(Due(n)) \in Nat /\ \A k \in 1..Len(Due(n)) : Due(n)[k] \in Places
    BY <2>1, <2>2, LenProperties, ElementOfSeq
  <2> QED BY <2>1, <2>3
<1>4. ASSUME NEW n \in 1..Count
      PROVE  IF Unpackable(Source[n])
             THEN /\ Len(Due(n)) = Len(Due(n - 1)) + 1
                  /\ \A k \in 1..Len(Due(n - 1)) : Due(n)[k] = Due(n - 1)[k]
                  /\ Due(n)[Len(Due(n))] = Source[n]
             ELSE Due(n) = Due(n - 1)
  <2>1. Source[n] \in Unpacked <=> Unpackable(Source[n])
    BY <1>1 DEF Unpacked
  <2>2. Due(n) = IF Source[n] \in Unpacked THEN Append(Due(n - 1), Source[n]) ELSE Due(n - 1)
    BY <1>1, FilteredSteps DEF Due, Count
  <2>3. Due(n - 1) \in Seq(Places) /\ Source[n] \in Places
    BY <1>1, <1>3
  <2>4. /\ Len(Append(Due(n - 1), Source[n])) = Len(Due(n - 1)) + 1
        /\ \A k \in 1..Len(Due(n - 1)) : Append(Due(n - 1), Source[n])[k] = Due(n - 1)[k]
        /\ Append(Due(n - 1), Source[n])[Len(Due(n - 1)) + 1] = Source[n]
    BY <2>3, AppendProperties
  <2> QED BY <2>1, <2>2, <2>4
<1>5. ASSUME NEW n \in 0..Count
      PROVE  /\ Len(Due(n)) <= Len(Expected)
             /\ \A k \in 1..Len(Due(n)) : Expected[k] = Due(n)[k]
  <2>1. n \in 0..Len(Source) /\ Len(Source) \in 0..Len(Source) /\ n <= Len(Source)
    BY <1>1 DEF Count
  <2>2. /\ Len(Due(n)) <= Len(Due(Len(Source)))
        /\ \A k \in 1..Len(Due(n)) : Due(Len(Source))[k] = Due(n)[k]
    <3>1. /\ Len(Filtered(Source, Unpacked)[n]) <= Len(Filtered(Source, Unpacked)[Len(Source)])
          /\ \A k \in 1..Len(Filtered(Source, Unpacked)[n]) :
                Filtered(Source, Unpacked)[Len(Source)][k] = Filtered(Source, Unpacked)[n][k]
      <4>1. PICK s \in Seq(Places) : s = Source
        BY <1>1
      <4>2. n \in 0..Len(s) /\ Len(s) \in 0..Len(s) /\ n <= Len(s)
        BY <2>1, <4>1
      <4>3. \A S : \A i, j \in 0..Len(s) :
               i <= j => /\ Len(Filtered(s, S)[i]) <= Len(Filtered(s, S)[j])
                         /\ \A k \in 1..Len(Filtered(s, S)[i]) :
                               Filtered(s, S)[j][k] = Filtered(s, S)[i][k]
        BY <4>1, FilteredPrefix
      <4> HIDE DEF Unpacked
      <4> QED BY <4>1, <4>2, <4>3
    <3> QED BY <3>1 DEF Due
  <2> QED BY <1>2, <2>2 DEF Count
<1> QED BY <1>2, <1>3, <1>4, <1>5

\* They are the same list, and the same items due, as long as the loop runs.
LEMMA FormStays ==
    ASSUME form' = form
    PROVE  /\ Source' = Source /\ Count' = Count /\ Expected' = Expected
           /\ \A n : Due(n)' = Due(n)
           /\ \A k, v : Nearest(k, v)' = Nearest(k, v)
           /\ \A item : Unpackable(item)' = Unpackable(item)
<1>1. Source' = Source /\ Count' = Count
  BY DEF Source, Count, Chosen
<1>2. \A item : Unpackable(item)' = Unpackable(item)
  BY DEF Unpackable
<1>3. Unpacked' = Unpacked
  BY DEF Unpacked, Unpackable
<1>4. \A n : Due(n)' = Due(n)
  BY <1>1, <1>3 DEF Due
<1>5. Expected' = Expected
  <2>1. Expected = Filtered(Source, Unpacked)[Count] /\ Expected' = Filtered(Source', Unpacked')[Count']
    BY DEF Expected, Source, Count, Unpacked
  <2> QED BY <1>1, <1>3, <2>1
<1>6. \A k, v : Nearest(k, v)' = Nearest(k, v)
  BY <1>5 DEF Nearest, Enough
<1> QED BY <1>1, <1>2, <1>4, <1>5, <1>6

\* One more item: the nearest that has enough values is this one, or the one before.
LEMMA NearestSteps ==
    ASSUME NEW k \in Nat, NEW v
    PROVE  Nearest(k + 1, v) = IF form.arity[Expected[k + 1]] >= v THEN Expected[k + 1]
                               ELSE Nearest(k, v)
<1>1. CASE form.arity[Expected[k + 1]] >= v
  <2>1. k + 1 \in Enough(k + 1, v) /\ \A m \in Enough(k + 1, v) : m <= k + 1
    BY <1>1 DEF Enough
  <2>2. \A j \in Enough(k + 1, v) : (\A m \in Enough(k + 1, v) : m <= j) => j = k + 1
    BY <2>1 DEF Enough
  <2>3. LastOf(Enough(k + 1, v)) = k + 1
    BY <2>1, <2>2 DEF LastOf
  <2> QED BY <1>1, <2>1, <2>3 DEF Nearest
<1>2. CASE ~(form.arity[Expected[k + 1]] >= v)
  <2>1. \A j : j \in 1..(k + 1) /\ j # k + 1 <=> j \in 1..k
    OBVIOUS
  <2>2. Enough(k + 1, v) = Enough(k, v)
    BY <1>2, <2>1 DEF Enough
  <2> QED BY <1>2, <2>2 DEF Nearest
<1> QED BY <1>1, <1>2

\* Between two rounds the enumerator stands on the next item.
LEMMA HeadFacts ==
    ASSUME LoopInv, pc = "head", ~isLast
    PROVE  /\ form.isList /\ itemIdx \in Nat /\ Count \in Nat
           /\ enumerator.items \in Seq(Places) /\ Len(enumerator.items) \in Nat
           /\ enumerator.at \in 1..Len(enumerator.items)
           /\ ~late => /\ InPlace /\ itemIdx < Count
                       /\ AtEnd(enumerator) <=> itemIdx + 1 = Count
                       /\ enumerator.items[enumerator.at] = Source[itemIdx + 1]
                       /\ Len(enumerator.items) - enumerator.at = Count - (itemIdx + 1)
                       /\ \A j \in 0..(Count - (itemIdx + 1)) :
                             enumerator.items[enumerator.at + j] = Source[itemIdx + 1 + j]
           /\ late => itemIdx = Count /\ Count > 0 /\ AtEnd(enumerator) /\ listSize # NoSize
<1>1. form.isList /\ IF late THEN InLatePlace ELSE InPlace
  BY DEF LoopInv, Placed
<1>2. /\ itemIdx \in Nat /\ enumerator.items \in Seq(Places) /\ enumerator.at \in Nat
      /\ form \in Forms /\ Begun = itemIdx
  BY DEF LoopInv, ForTypeOK, Begun
<1>3. Count \in Nat /\ Len(enumerator.items) \in Nat
  BY <1>2, SourceFacts, LenProperties
<1>4. CASE late
  <2>1. itemIdx = Count /\ Count > 0 /\ enumerator.at = 1 /\ Len(enumerator.items) = 1
        /\ listSize # NoSize
    BY <1>1, <1>2, <1>4 DEF InLatePlace
  <2> QED BY <1>1, <1>2, <1>3, <1>4, <2>1 DEF AtEnd
<1>5. CASE ~late
  <2>1. InPlace /\ itemIdx < Count
    BY <1>1, <1>2, <1>3, <1>5 DEF InPlace
  <2>2. /\ enumerator.at \in 1..Len(enumerator.items)
        /\ Len(enumerator.items) - enumerator.at = Count - (itemIdx + 1)
        /\ \A j \in 0..(Count - (itemIdx + 1)) :
              enumerator.items[enumerator.at + j] = Source[itemIdx + 1 + j]
    BY <1>2, <2>1 DEF InPlace, Ahead
  <2>3. enumerator.items[enumerator.at] = Source[itemIdx + 1]
    <3>1. 0 \in 0..(Count - (itemIdx + 1)) /\ enumerator.at + 0 = enumerator.at
          /\ itemIdx + 1 + 0 = itemIdx + 1
      BY <1>2, <1>3, <2>1, <2>2
    <3> QED BY <2>2, <3>1
  <2>4. AtEnd(enumerator) <=> itemIdx + 1 = Count
    BY <1>2, <1>3, <2>1, <2>2 DEF AtEnd
  <2> QED BY <1>1, <1>2, <1>3, <1>5, <2>1, <2>2, <2>3, <2>4
<1> QED BY <1>4, <1>5

\* What reading ahead makes of the values, the loop variable and the list.
LEMMA Advances ==
    ASSUME LoopInv, pc = "head", ~isLast, Advance
    PROVE  /\ enumerator' \in [items : Seq(Places), at : Nat, indexed : BOOLEAN]
           /\ enumerator'.items = enumerator.items /\ enumerator'.indexed = enumerator.indexed
           /\ isLast' = AtEnd(enumerator)
           /\ ~AtEnd(enumerator) => enumerator'.at = enumerator.at + 1
           /\ AtEnd(enumerator) /\ ~enumerator.indexed => enumerator'.at = enumerator.at
           /\ curValue' \in Items /\ nextValue' \in Items /\ loopVar' \in LoopVars
           /\ loopVar'.length = loopVar.length /\ loopVar'.index = itemIdx + 1
           /\ loopVar'.first = (itemIdx = 0) /\ loopVar'.last = AtEnd(enumerator)
           /\ loopVar'.previtem = IF itemIdx = 0 THEN loopVar.previtem ELSE curValue
           /\ loopVar'.nextitem = IF AtEnd(enumerator) THEN None
                                  ELSE enumerator.items[enumerator.at + 1]
           /\ ~late => curValue' = Source[itemIdx + 1]
           /\ ~late /\ itemIdx + 1 < Count => nextValue' = Source[itemIdx + 2]
<1> DEFINE en == enumerator
<1>1. /\ itemIdx \in Nat /\ Count \in Nat /\ en.items \in Seq(Places)
      /\ Len(en.items) \in Nat /\ en.at \in 1..Len(en.items)
      /\ en \in [items : Seq(Places), at : Nat, indexed : BOOLEAN]
      /\ loopVar \in LoopVars /\ curValue \in Items /\ nextValue \in Items
  BY HeadFacts DEF LoopInv, ForTypeOK
<1>2. /\ AtEnd(en) <=> en.at = Len(en.items)
      /\ AtEnd(en) \in BOOLEAN
  BY <1>1 DEF AtEnd
<1>3. /\ GetCurrent(en) = en.items[en.at] /\ GetCurrent(en) \in Items
      /\ en.items[en.at] \in Items
  BY <1>1, ElementOfSeq DEF GetCurrent, Items
<1>4. /\ MoveNext(en) \in [items : Seq(Places), at : Nat, indexed : BOOLEAN]
      /\ MoveNext(en).items = en.items /\ MoveNext(en).indexed = en.indexed
      /\ ~AtEnd(en) => MoveNext(en).at = en.at + 1
      /\ AtEnd(en) /\ ~en.indexed => MoveNext(en).at = en.at
  BY <1>1 DEF MoveNext
<1>5. ASSUME ~AtEnd(en)
      PROVE  /\ GetCurrent(MoveNext(en)) = en.items[en.at + 1]
             /\ en.items[en.at + 1] \in Items
  <2>1. en.at + 1 \in 1..Len(en.items) /\ en.at + 1 # 0
    BY <1>1, <1>2, <1>5
  <2>2. en.items[en.at + 1] \in Places
    BY <1>1, <2>1, ElementOfSeq
  <2> QED BY <1>4, <1>5, <2>1, <2>2 DEF GetCurrent, Items
<1>6. /\ enumerator' = MoveNext(en) /\ isLast' = AtEnd(en)
      /\ curValue' = IF itemIdx = 0 THEN GetCurrent(en) ELSE nextValue
      /\ nextValue' = IF ~AtEnd(en) THEN GetCurrent(MoveNext(en))
                      ELSE IF itemIdx = 0 THEN nextValue ELSE Moved
      /\ loopVar' = [loopVar EXCEPT
                       !.previtem = IF itemIdx = 0 THEN loopVar.previtem ELSE curValue,
                       !.nextitem = IF AtEnd(en) THEN None ELSE GetCurrent(MoveNext(en)),
                       !.index = itemIdx + 1, !.first = (itemIdx = 0), !.last = AtEnd(en)]
  BY DEF Advance
<1>7. curValue' \in Items /\ nextValue' \in Items
  BY <1>1, <1>3, <1>5, <1>6 DEF Items
<1>8. /\ loopVar' \in LoopVars
      /\ loopVar'.length = loopVar.length /\ loopVar'.index = itemIdx + 1
      /\ loopVar'.first = (itemIdx = 0) /\ loopVar'.last = AtEnd(en)
      /\ loopVar'.previtem = IF itemIdx = 0 THEN loopVar.previtem ELSE curValue
      /\ loopVar'.nextitem = IF AtEnd(en) THEN None ELSE en.items[en.at + 1]
  <2>1. /\ (IF itemIdx = 0 THEN loopVar.previtem ELSE curValue) \in Items
        /\ (IF AtEnd(en) THEN None ELSE GetCurrent(MoveNext(en))) \in Items
        /\ itemIdx + 1 \in Nat /\ (itemIdx = 0) \in BOOLEAN
        /\ (AtEnd(en) \/ GetCurrent(MoveNext(en)) = en.items[en.at + 1])
    BY <1>1, <1>5 DEF Items, LoopVars
  <2> HIDE DEF en
  <2> QED BY <1>1, <1>2, <1>6, <2>1 DEF LoopVars
<1>9. ASSUME ~late
      PROVE  /\ curValue' = Source[itemIdx + 1]
             /\ itemIdx + 1 < Count => nextValue' = Source[itemIdx + 2]
  <2>1. /\ InPlace /\ itemIdx < Count
        /\ AtEnd(en) <=> itemIdx + 1 = Count
        /\ en.items[en.at] = Source[itemIdx + 1]
        /\ \A j \in 0..(Count - (itemIdx + 1)) : en.items[en.at + j] = Source[itemIdx + 1 + j]
    BY <1>9, HeadFacts
  <2>2. itemIdx > 0 => nextValue = Source[itemIdx + 1]
    BY <1>1, <2>1 DEF InPlace, Begun
  <2>3. itemIdx + 1 < Count => en.items[en.at + 1] = Source[itemIdx + 2]
    <3>1. itemIdx + 1 < Count => 1 \in 0..(Count - (itemIdx + 1)) /\ itemIdx + 1 + 1 = itemIdx + 2
      BY <1>1
    <3> QED BY <2>1, <3>1
  <2> QED BY <1>1, <1>3, <1>5, <1>6, <2>1, <2>2, <2>3
<1> QED BY <1>4, <1>6, <1>7, <1>8, <1>9

\* After reading ahead the loop is where it should be, one item further.
LEMMA AdvancesInPlace ==
    ASSUME LoopInv, pc = "head", ~isLast, Advance, form' = form, listSize' = listSize,
           Begun' = itemIdx + 1
    PROVE  IF late THEN InLatePlace' ELSE InPlace'
<1>1. Source' = Source /\ Count' = Count
  BY FormStays
<1>2. itemIdx \in Nat /\ Count \in Nat /\ Len(enumerator.items) \in Nat
      /\ enumerator.at \in 1..Len(enumerator.items)
  BY HeadFacts
<1>3. CASE late
  <2>1. itemIdx = Count /\ Count > 0 /\ AtEnd(enumerator) /\ listSize # NoSize
    BY <1>3, HeadFacts
  <2>2. isLast' = TRUE
    BY <2>1, Advances
  <2>3. InLatePlace'
    BY <1>1, <1>2, <2>1, <2>2 DEF InLatePlace, NoSize
  <2> QED BY <1>3, <2>3
<1>4. CASE ~late
  <2>1. /\ InPlace /\ itemIdx < Count
        /\ AtEnd(enumerator) <=> itemIdx + 1 = Count
        /\ Len(enumerator.items) - enumerator.at = Count - (itemIdx + 1)
        /\ \A j \in 0..(Count - (itemIdx + 1)) :
              enumerator.items[enumerator.at + j] = Source[itemIdx + 1 + j]
    BY <1>4, HeadFacts
  <2>2. /\ enumerator'.items = enumerator.items /\ enumerator'.indexed = enumerator.indexed
        /\ isLast' = AtEnd(enumerator)
        /\ ~AtEnd(enumerator) => enumerator'.at = enumerator.at + 1
        /\ AtEnd(enumerator) /\ ~enumerator.indexed => enumerator'.at = enumerator.at
        /\ curValue' = Source[itemIdx + 1]
        /\ itemIdx + 1 < Count => nextValue' = Source[itemIdx + 2]
        /\ loopVar'.length = loopVar.length
    BY <1>4, Advances
  <2>3. Begun' <= Count' /\ (isLast' <=> Begun' = Count')
    BY <1>1, <1>2, <2>1, <2>2
  <2>4. Ahead'
    <3> SUFFICES ASSUME Begun' < Count
                 PROVE  /\ enumerator'.at \in 1..Len(enumerator'.items)
                        /\ Len(enumerator'.items) - enumerator'.at = Count - (Begun' + 1)
                        /\ \A j \in 0..(Count - (Begun' + 1)) :
                              enumerator'.items[enumerator'.at + j] = Source[Begun' + 1 + j]
      BY <1>1 DEF Ahead
    <3>1. ~AtEnd(enumerator) /\ enumerator'.at = enumerator.at + 1
      BY <1>2, <2>1, <2>2
    <3>2. /\ enumerator'.at \in 1..Len(enumerator'.items)
          /\ Len(enumerator'.items) - enumerator'.at = Count - (Begun' + 1)
      <4>1. itemIdx + 1 < Count /\ enumerator'.items = enumerator.items
            /\ Len(enumerator.items) - enumerator.at = Count - (itemIdx + 1)
        BY <2>1, <2>2
      <4>2. enumerator.at < Len(enumerator.items)
        BY <1>2, <4>1
      <4> QED BY <1>2, <3>1, <4>1, <4>2
    <3>3. ASSUME NEW j \in 0..(Count - (Begun' + 1))
          PROVE  enumerator'.items[enumerator'.at + j] = Source[Begun' + 1 + j]
      <4>1. /\ j + 1 \in 0..(Count - (itemIdx + 1))
            /\ enumerator'.at + j = enumerator.at + (j + 1)
            /\ Begun' + 1 + j = itemIdx + 1 + (j + 1)
        BY <1>2, <3>1
      <4>2. enumerator.items[enumerator.at + (j + 1)] = Source[itemIdx + 1 + (j + 1)]
        BY <2>1, <4>1
      <4> QED BY <2>2, <4>1, <4>2
    <3> QED BY <3>2, <3>3
  <2>5. Begun' = Count /\ ~enumerator'.indexed => enumerator'.at = Len(enumerator'.items) /\ enumerator'.at > 0
    BY <1>2, <2>1, <2>2
  <2>6. /\ loopVar'.length \in {None, Count} /\ listSize' \in {NoSize, Count}
        /\ listSize' = NoSize => ~enumerator'.indexed
    BY <2>1, <2>2 DEF InPlace
  <2>7. /\ Begun' > 0 /\ Begun' # 0 /\ curValue' = Source[Begun']
        /\ Begun' < Count => nextValue' = Source[Begun' + 1]
    <3>1. Begun' + 1 = itemIdx + 2
      BY <1>2
    <3> QED BY <1>2, <2>2, <3>1
  <2>8. InPlace'
    BY <1>1, <2>3, <2>4, <2>5, <2>6, <2>7 DEF InPlace
  <2> QED BY <1>4, <2>8
<1> QED BY <1>3, <1>4

\* Between two rounds, just what is due has been rendered.
LEMMA HeadRendered ==
    ASSUME LoopInv, pc = "head", ~isLast
    PROVE  /\ itemIdx \in 0..Count
           /\ late => itemIdx = Count
           /\ Due(itemIdx) \in Seq(Places) /\ Len(rendered) \in Nat
           /\ Len(rendered) = Len(Due(itemIdx))
           /\ \A k \in 1..Len(rendered) : rendered[k].item = Due(itemIdx)[k]
<1>1. /\ form.isList /\ itemIdx \in Nat /\ Count \in Nat
      /\ ~late => itemIdx < Count
      /\ late => itemIdx = Count
  BY HeadFacts
<1>2. Begun = itemIdx /\ itemIdx \in 0..Count /\ form \in Forms /\ rendered \in Seq(Rounds)
  BY <1>1 DEF Begun, LoopInv, ForTypeOK
<1>3. Due(itemIdx) \in Seq(Places) /\ Len(rendered) \in Nat /\ Len(Due(itemIdx)) \in Nat
  BY <1>2, DueFacts, LenProperties
<1>4. /\ Len(Due(itemIdx)) <= Len(rendered)
      /\ \A k \in 1..Len(Due(itemIdx)) : rendered[k].item = Due(itemIdx)[k]
      /\ ~(Len(rendered) > Len(Due(itemIdx)))
  BY <1>1, <1>2 DEF LoopInv, RenderedDue
<1> QED BY <1>1, <1>2, <1>3, <1>4

\* An item that cannot be unpacked leaves everything rendered as it is.
LEMMA Skips ==
    ASSUME LoopInv, Skip
    PROVE  LoopInv'
<1>1. /\ pc = "head" /\ ~isLast /\ Advance /\ Skippable(curValue')
      /\ form' = form /\ pc' = pc /\ bound' = bound /\ listSize' = listSize
      /\ rendered' = rendered /\ late' = late /\ itemIdx' = itemIdx + 1
  BY DEF Skip, history
<1>2. Begun' = itemIdx + 1
  BY <1>1 DEF Begun
<1>3. form.isList /\ itemIdx \in Nat /\ Count \in Nat
  BY <1>1, HeadFacts
<1>4. ForTypeOK'
  <2>1. /\ enumerator' \in [items : Seq(Places), at : Nat, indexed : BOOLEAN]
        /\ isLast' \in BOOLEAN /\ curValue' \in Items /\ nextValue' \in Items
        /\ loopVar' \in LoopVars
    BY <1>1, Advances DEF AtEnd
  <2>2. Bounds' = Bounds /\ Rounds' = Rounds
    BY <1>1 DEF Bounds, Rounds
  <2> QED BY <1>1, <1>3, <2>1, <2>2 DEF LoopInv, ForTypeOK
<1>5. Placed'
  BY <1>1, <1>2, <1>3, AdvancesInPlace DEF Placed
<1>6. RenderedDue'
  <2>1. /\ itemIdx \in 0..Count
        /\ late => itemIdx = Count
        /\ Due(itemIdx) \in Seq(Places) /\ Len(rendered) \in Nat
        /\ Len(rendered) = Len(Due(itemIdx))
        /\ \A k \in 1..Len(rendered) : rendered[k].item = Due(itemIdx)[k]
    BY <1>1, HeadRendered
  <2>2. CASE late
    <3>1. ~(Begun' <= Count) /\ itemIdx = Count
      BY <1>2, <1>3, <2>1, <2>2
    <3> QED BY <1>1, <2>1, <3>1, FormStays DEF RenderedDue
  <2>3. CASE ~late
    <3>1. itemIdx < Count /\ curValue' = Source[itemIdx + 1]
      BY <1>1, <2>3, HeadFacts, Advances
    <3>2. itemIdx + 1 \in 1..Count /\ itemIdx + 1 - 1 = itemIdx /\ form \in Forms
      BY <1>3, <3>1 DEF LoopInv, ForTypeOK
    <3>3. Source[itemIdx + 1] \in Places /\ Moved \notin Places
      BY <3>2, SourceFacts
    <3>4. ~Unpackable(Source[itemIdx + 1])
      BY <1>1, <3>1, <3>3 DEF Skippable, Unpackable
    <3>5. Due(itemIdx + 1) = Due(itemIdx)
      <4>1. \A n \in 1..Count : ~Unpackable(Source[n]) => Due(n) = Due(n - 1)
        BY <3>2, DueFacts
      <4>2. PICK n \in 1..Count : n = itemIdx + 1
        BY <3>2
      <4>3. n - 1 = itemIdx
        BY <1>3, <4>2
      <4>4. Due(n) = Due(n - 1)
        BY <3>4, <4>1, <4>2
      <4> QED BY <4>2, <4>3, <4>4
    <3>6. Begun' <= Count /\ Begun' = itemIdx + 1
      BY <1>2, <3>2
    <3> QED BY <1>1, <2>1, <3>5, <3>6, FormStays DEF RenderedDue
  <2> QED BY <2>2, <2>3
<1>7. LoopsAreRight'
  BY <1>1, FormStays DEF LoopInv, LoopsAreRight, LoopIsRight
<1>8. BoundsAreRight'
  BY <1>1, FormStays DEF LoopInv, BoundsAreRight
<1> QED BY <1>4, <1>5, <1>6, <1>7, <1>8 DEF LoopInv

\* An item that can be unpacked is rendered when it is due, and sees its place.
LEMMA EntersBody ==
    ASSUME LoopInv, EnterBody
    PROVE  LoopInv'
<1> DEFINE round == [item |-> curValue', loop |-> loopVar', bound |-> bound']
           last == Len(rendered) + 1
<1>1. /\ pc = "head" /\ ~isLast /\ Advance /\ Unpackable(curValue')
      /\ form' = form /\ pc' = "body" /\ bound' = Bind(curValue') /\ listSize' = listSize
      /\ rendered' = Append(rendered, round) /\ late' = late /\ itemIdx' = itemIdx
  BY DEF EnterBody
<1>2. Begun' = itemIdx + 1
  BY <1>1 DEF Begun
<1>3. form.isList /\ itemIdx \in Nat /\ Count \in Nat /\ form \in Forms /\ IsCanonical(form)
  BY <1>1, HeadFacts DEF LoopInv, ForTypeOK
<1>4. /\ enumerator' \in [items : Seq(Places), at : Nat, indexed : BOOLEAN]
      /\ isLast' \in BOOLEAN /\ curValue' \in Items /\ nextValue' \in Items
      /\ loopVar' \in LoopVars
  BY <1>1, Advances DEF AtEnd
<1>5. Bounds' = Bounds /\ Rounds' = Rounds
  BY <1>1 DEF Bounds, Rounds
<1>6. bound \in Bounds /\ rendered \in Seq(Rounds) /\ Len(rendered) \in Nat
  BY LenProperties DEF LoopInv, ForTypeOK
<1>7. bound' \in Bounds
  BY <1>1, <1>4, <1>6 DEF Bind, Bounds
<1>8. round \in Rounds
  BY <1>4, <1>7 DEF Rounds
<1>9. /\ rendered' \in Seq(Rounds) /\ Len(rendered') = last
      /\ \A k \in 1..Len(rendered) : rendered'[k] = rendered[k]
      /\ rendered'[last] = round
  <2> HIDE DEF round
  <2> QED BY <1>1, <1>6, <1>8, AppendProperties
<1>10. ForTypeOK'
  BY <1>1, <1>3, <1>4, <1>5, <1>7, <1>9 DEF LoopInv, ForTypeOK
<1>11. Placed'
  BY <1>1, <1>2, <1>3, AdvancesInPlace DEF Placed
<1>12. /\ itemIdx \in 0..Count
       /\ late => itemIdx = Count
       /\ Due(itemIdx) \in Seq(Places)
       /\ Len(rendered) = Len(Due(itemIdx))
       /\ \A k \in 1..Len(rendered) : rendered[k].item = Due(itemIdx)[k]
  BY <1>1, HeadRendered
<1>13. ASSUME late
       PROVE  RenderedDue' /\ LoopsAreRight' /\ BoundsAreRight'
  <2>1. ~(Begun' <= Count) /\ Begun' > Count /\ itemIdx = Count
    BY <1>2, <1>3, <1>12, <1>13
  <2>2. RenderedDue'
    <3>1. \A k \in 1..Len(Due(Count)) : rendered'[k].item = Due(Count)[k]
      BY <1>9, <1>12, <2>1
    <3>2. Len(Due(Count)) <= Len(rendered') /\ Len(rendered') = Len(Due(Count)) + 1
      BY <1>6, <1>9, <1>12, <2>1
    <3> QED BY <1>1, <1>13, <2>1, <3>1, <3>2, FormStays DEF RenderedDue
  <2> QED BY <1>1, <1>13, <2>2 DEF LoopsAreRight, BoundsAreRight
<1>14. ASSUME ~late
       PROVE  RenderedDue' /\ LoopsAreRight' /\ BoundsAreRight'
  <2>1. InPlace /\ itemIdx < Count /\ curValue' = Source[itemIdx + 1]
        /\ (AtEnd(enumerator) <=> itemIdx + 1 = Count)
    BY <1>1, <1>14, HeadFacts, Advances
  <2>2. PICK n \in 1..Count : n = itemIdx + 1
    BY <1>3, <2>1
  <2>3. n - 1 = itemIdx /\ Begun' = n /\ curValue' = Source[n]
    BY <1>2, <1>3, <2>1, <2>2
  <2>4. Source[n] \in Places /\ Unpackable(Source[n])
    BY <1>1, <1>3, <2>3, SourceFacts
  <2>5. /\ Len(Due(n)) = Len(Due(n - 1)) + 1
        /\ \A k \in 1..Len(Due(n - 1)) : Due(n)[k] = Due(n - 1)[k]
        /\ Due(n)[Len(Due(n))] = Source[n]
    BY <1>3, <2>4, DueFacts
  <2>6. Len(Due(n)) = last /\ Due(n)[last] = Source[n]
        /\ \A k \in 1..Len(rendered) : Due(n)[k] = Due(itemIdx)[k]
    BY <1>12, <2>3, <2>5
  <2>7. RenderedDue'
    <3>1. \A k \in 1..last : rendered'[k].item = Due(n)[k]
      BY <1>6, <1>9, <1>12, <2>3, <2>6
    <3>2. Begun' <= Count /\ Begun' = n
      BY <1>3, <2>2, <2>3
    <3>3. Due(n)' = Due(n) /\ Count' = Count /\ Len(rendered') = Len(Due(n)) /\ Len(Due(n)) \in Nat
      BY <1>1, <1>6, <1>9, <2>6, FormStays
    <3> QED BY <2>6, <3>1, <3>2, <3>3, <1>1, FormStays DEF RenderedDue
  <2>8. LoopIsRight(round)
    <3>1. n = 1 => loopVar.previtem = None
      BY <1>1, <1>3, <2>1, <2>3 DEF InPlace, Begun
    <3>2. n # 1 => curValue = Source[n - 1]
      BY <1>1, <1>3, <2>1, <2>3 DEF InPlace, Begun
    <3>3. n # Count => enumerator.items[enumerator.at + 1] = Source[n + 1]
      <4>1. \A j \in 0..(Count - (itemIdx + 1)) :
               enumerator.items[enumerator.at + j] = Source[itemIdx + 1 + j]
        BY <1>1, <1>14, HeadFacts
      <4>2. n # Count => 1 \in 0..(Count - (itemIdx + 1))
        BY <1>3, <2>2
      <4> QED BY <2>2, <4>1, <4>2
    <3>4. /\ loopVar'.length = loopVar.length /\ loopVar'.index = n
          /\ loopVar'.first = (n = 1) /\ loopVar'.last = (n = Count)
          /\ loopVar'.previtem = IF n = 1 THEN loopVar.previtem ELSE curValue
          /\ loopVar'.nextitem = IF n = Count THEN None
                                 ELSE enumerator.items[enumerator.at + 1]
      <4>1. (itemIdx = 0) = (n = 1) /\ AtEnd(enumerator) = (n = Count)
        BY <1>3, <2>1, <2>2 DEF AtEnd
      <4> QED BY <1>1, <2>2, <4>1, Advances
    <3>5. loopVar.length \in {None, Count}
      BY <2>1 DEF InPlace
    <3>6. round.loop = loopVar' /\ round.item = Source[n]
      BY <2>3
    <3> HIDE DEF round
    <3> QED BY <2>2, <3>1, <3>2, <3>3, <3>4, <3>5, <3>6 DEF LoopIsRight
  <2>9. LoopsAreRight'
    <3>1. \A k \in 1..last : LoopIsRight(rendered'[k])
      BY <1>6, <1>9, <1>14, <2>8 DEF LoopInv, LoopsAreRight
    <3> HIDE DEF round
    <3> QED BY <1>1, <1>9, <3>1, FormStays DEF LoopsAreRight, LoopIsRight
  <2>10. Expected[last] = curValue'
    <3>1. n \in 0..Count /\ last \in 1..Len(Due(n))
      BY <1>3, <1>6, <2>2, <2>6
    <3>2. Expected[last] = Due(n)[last]
      BY <1>3, <3>1, DueFacts
    <3> QED BY <2>3, <2>6, <3>2
  <2>11. ASSUME NEW v \in 1..form.varCount
         PROVE  bound'[v] = Nearest(last, v)
    <3>1. bound'[v] = IF form.varCount = 1 \/ (curValue' \in Places /\ v <= form.arity[curValue'])
                      THEN curValue' ELSE bound[v]
      BY <1>1 DEF Bind
    <3>2. bound[v] = Nearest(Len(rendered), v)
      BY <1>14 DEF LoopInv, BoundsAreRight
    <3>3. Nearest(last, v) = IF form.arity[curValue'] >= v THEN curValue' ELSE Nearest(Len(rendered), v)
      BY <1>6, <2>10, NearestSteps
    <3>4. curValue' \in Places /\ (form.varCount = 1 => form.arity[curValue'] = 1 /\ v = 1)
      BY <1>3, <2>3, <2>4 DEF IsCanonical
    <3>5. form.arity[curValue'] >= v <=> v <= form.arity[curValue']
      OBVIOUS
    <3> QED BY <3>1, <3>2, <3>3, <3>4, <3>5
  <2>12. BoundsAreRight'
    <3>1. \A k \in 1..last : \A v \in 1..form.varCount : rendered'[k].bound[v] = Nearest(k, v)
      <4>1. \A k \in 1..Len(rendered) : \A v \in 1..form.varCount :
               rendered[k].bound[v] = Nearest(k, v)
        BY <1>14 DEF LoopInv, BoundsAreRight
      <4>2. rendered'[last].bound = bound'
        BY <1>9
      <4> HIDE DEF round
      <4> QED BY <1>6, <1>9, <2>11, <4>1, <4>2
    <3> HIDE DEF round
    <3> QED BY <1>1, <1>9, <2>11, <3>1, FormStays DEF BoundsAreRight
  <2> QED BY <2>7, <2>9, <2>12
<1> QED BY <1>10, <1>11, <1>13, <1>14 DEF LoopInv

\* A list is begun on its first item, if it has one.
LEMMA Starts ==
    ASSUME NEW s \in Seq(Places), NEW indexed \in BOOLEAN
    PROVE  LET e == Start(s, indexed)
           IN /\ MoveNext(e) \in [items : Seq(Places), at : Nat, indexed : BOOLEAN]
              /\ MoveNext(e).items = s /\ MoveNext(e).indexed = indexed
              /\ AtEnd(e) <=> s = <<>>
              /\ s # <<>> \/ indexed => MoveNext(e).at = 1
<1> DEFINE e == Start(s, indexed)
<1>1. e \in [items : Seq(Places), at : Nat, indexed : BOOLEAN]
  BY DEF Start
<1>2. e.items = s
  BY DEF Start
<1>3. e.at = 0
  BY DEF Start
<1>4. e.indexed = indexed
  BY DEF Start
<1> HIDE DEF e
<1>5. AtEnd(e) <=> s = <<>>
  BY <1>2, <1>3, LenProperties, EmptySeq DEF AtEnd
<1>6. /\ MoveNext(e) \in [items : Seq(Places), at : Nat, indexed : BOOLEAN]
      /\ MoveNext(e).items = s /\ MoveNext(e).indexed = indexed
  BY <1>1, <1>2, <1>3, <1>4 DEF MoveNext
<1>7. s # <<>> \/ indexed => MoveNext(e).at = 1
  BY <1>1, <1>3, <1>4, <1>5 DEF MoveNext
<1> QED BY <1>5, <1>6, <1>7 DEF e

\* With the list made for loop.length the loop goes on where it was, or, in the last
\* round, a round more.
LEMMA AsksLength ==
    ASSUME LoopInv, AskLength
    PROVE  LoopInv'
<1> DEFINE en == enumerator
           rest == SubSeq(en.items, en.at, Len(en.items))
<1>1. /\ pc = "body" /\ listSize = NoSize
      /\ form' = form /\ pc' = pc /\ bound' = bound /\ late' = isLast
      /\ itemIdx' = itemIdx /\ curValue' = curValue /\ nextValue' = nextValue
      /\ listSize' = itemIdx + Len(rest) + 1 /\ isLast' = FALSE
      /\ enumerator' = MoveNext(Start(rest, TRUE))
      /\ loopVar' = [loopVar EXCEPT !.length = listSize']
      /\ rendered' = [rendered EXCEPT ![Len(rendered)].loop.length = listSize']
  BY DEF AskLength, MakeIndexedList, Rest, values
<1>2. /\ form \in Forms /\ IsCanonical(form) /\ itemIdx \in Nat /\ isLast \in BOOLEAN
      /\ en.items \in Seq(Places) /\ en.at \in Nat
      /\ loopVar \in LoopVars /\ rendered \in Seq(Rounds)
  BY DEF LoopInv, ForTypeOK
<1>3. Count \in Nat /\ Len(en.items) \in Nat /\ Len(rendered) \in Nat
  BY <1>2, SourceFacts, LenProperties
<1>4. form.isList /\ ~late /\ InPlace
  BY <1>1 DEF LoopInv, Placed, InLatePlace
<1>5. Begun = itemIdx + 1 /\ Begun' = itemIdx + 1 /\ Begun <= Count /\ ~en.indexed /\ Count > 0
  BY <1>1, <1>2, <1>3, <1>4 DEF Begun, InPlace
<1>6. Source' = Source /\ Count' = Count
  BY <1>1, FormStays
<1>7. /\ en.at \in 1..Len(en.items)
      /\ isLast <=> itemIdx + 1 = Count
      /\ ~isLast => /\ Len(en.items) - en.at = Count - (itemIdx + 2)
                    /\ \A j \in 0..(Count - (itemIdx + 2)) :
                          en.items[en.at + j] = Source[itemIdx + 2 + j]
      /\ isLast => Len(en.items) = en.at
  <2>1. isLast <=> itemIdx + 1 = Count
    BY <1>4, <1>5 DEF InPlace
  <2>2. CASE isLast
    BY <1>2, <1>3, <1>4, <1>5, <2>1, <2>2 DEF InPlace
  <2>3. CASE ~isLast
    <3>1. Begun < Count /\ Begun + 1 = itemIdx + 2
      BY <1>2, <1>3, <1>5, <2>1, <2>3
    <3> QED BY <1>4, <2>1, <2>3, <3>1 DEF InPlace, Ahead
  <2> QED BY <2>2, <2>3
<1>8. /\ rest \in Seq(Places) /\ Len(rest) = Len(en.items) - en.at + 1
      /\ \A j \in 0..(Len(en.items) - en.at) : rest[1 + j] = en.items[en.at + j]
  <2>1. \A i \in en.at..Len(en.items) : en.items[i] \in Places
    BY <1>2, <1>3, <1>7, ElementOfSeq
  <2>2. /\ rest \in Seq(Places) /\ Len(rest) = Len(en.items) - en.at + 1
        /\ \A i \in 1..(Len(en.items) - en.at + 1) : rest[i] = en.items[en.at + i - 1]
    <3>1. PICK n : n = Len(en.items)
      OBVIOUS
    <3>2. n \in Int /\ en.at \in Int /\ en.at <= n
      BY <1>2, <1>3, <1>7, <3>1
    <3>3. rest = SubSeq(en.items, en.at, n) /\ \A i \in en.at..n : en.items[i] \in Places
      BY <2>1, <3>1
    <3> HIDE DEF rest, en
    <3>4. /\ rest \in Seq(Places) /\ Len(rest) = n - en.at + 1
          /\ \A i \in 1..(n - en.at + 1) : rest[i] = en.items[en.at + i - 1]
      BY <3>2, <3>3, SubSeqProperties
    <3> QED BY <3>1, <3>4
  <2> HIDE DEF rest, en
  <2>3. ASSUME NEW j \in 0..(Len(en.items) - en.at)
        PROVE  rest[1 + j] = en.items[en.at + j]
    <3>1. PICK i \in 1..(Len(en.items) - en.at + 1) : i = 1 + j
      BY <1>2, <1>3, <1>7
    <3>2. en.at + i - 1 = en.at + j
      BY <1>2, <3>1
    <3> QED BY <2>2, <3>1, <3>2
  <2> QED BY <2>2, <2>3
<1> HIDE DEF rest
<1>9. /\ enumerator' \in [items : Seq(Places), at : Nat, indexed : BOOLEAN]
      /\ enumerator'.items = rest /\ enumerator'.at = 1 /\ enumerator'.indexed
  <2> QED BY <1>1, <1>8, Starts
<1>10. /\ Len(rest) \in Nat /\ listSize' \in Nat /\ listSize' # NoSize
       /\ isLast => Len(rest) = 1
       /\ ~isLast => listSize' = Count /\ Len(rest) = Count - (itemIdx + 1)
  <2>1. Len(rest) \in Nat
    BY <1>8, LenProperties
  <2>2. /\ isLast => Len(rest) = 1
        /\ ~isLast => Len(rest) = Count - (itemIdx + 1)
    BY <1>2, <1>3, <1>7, <1>8
  <2>3. listSize' = itemIdx + Len(rest) + 1
    BY <1>1
  <2>4. listSize' \in Nat /\ listSize' # NoSize
    BY <1>2, <2>1, <2>3 DEF NoSize
  <2>5. ~isLast => listSize' = Count
    BY <1>2, <1>3, <2>1, <2>2, <2>3
  <2> QED BY <2>1, <2>2, <2>4, <2>5
<1>11. /\ loopVar' \in LoopVars /\ loopVar'.length = listSize'
       /\ loopVar'.previtem = loopVar.previtem
  BY <1>1, <1>2, <1>10 DEF LoopVars
<1>12. /\ rendered' \in Seq(Rounds) /\ Len(rendered') = Len(rendered)
       /\ \A k \in 1..Len(rendered) : rendered'[k].item = rendered[k].item
       /\ \A k \in 1..Len(rendered) : rendered'[k].bound = rendered[k].bound
       /\ \A k \in 1..Len(rendered) :
             rendered'[k].loop = [rendered[k].loop EXCEPT
                                    !.length = IF k = Len(rendered) THEN listSize' ELSE @]
  <2>1. \A k \in 1..Len(rendered) : rendered[k] \in Rounds
    BY <1>2, ElementOfSeq
  <2>2. /\ rendered' = [k \in 1..Len(rendered) |->
                          IF k = Len(rendered) THEN [rendered[k] EXCEPT !.loop.length = listSize']
                          ELSE rendered[k]]
    BY <1>1, <1>2, LenProperties
  <2>3. ASSUME NEW k \in 1..Len(rendered)
        PROVE  /\ rendered'[k] \in Rounds
               /\ rendered'[k].item = rendered[k].item /\ rendered'[k].bound = rendered[k].bound
               /\ rendered'[k].loop = [rendered[k].loop EXCEPT
                                         !.length = IF k = Len(rendered) THEN listSize' ELSE @]
    <3>1. rendered[k] \in Rounds
      BY <2>1
    <3>2. CASE k = Len(rendered)
      <4>1. rendered'[k] = [rendered[k] EXCEPT !.loop.length = listSize']
        BY <2>2, <3>2
      <4>2. [rendered[k].loop EXCEPT !.length = listSize'] \in LoopVars
        BY <1>10, <3>1 DEF Rounds, LoopVars
      <4> QED BY <3>1, <3>2, <4>1, <4>2 DEF Rounds
    <3>3. CASE k # Len(rendered)
      <4>1. rendered'[k] = rendered[k]
        BY <2>2, <3>3
      <4>2. rendered[k].loop = [rendered[k].loop EXCEPT !.length = rendered[k].loop.length]
        BY <3>1 DEF Rounds, LoopVars
      <4> QED BY <3>1, <3>3, <4>1, <4>2
    <3> QED BY <3>2, <3>3
  <2>4. rendered' \in Seq(Rounds) /\ Len(rendered') = Len(rendered)
    <3>1. rendered' \in [1..Len(rendered) -> Rounds]
      BY <2>2, <2>3
    <3> QED BY <1>3, <3>1
  <2> QED BY <2>3, <2>4
<1>13. ForTypeOK'
  <2>1. Bounds' = Bounds /\ Rounds' = Rounds
    BY <1>1 DEF Bounds, Rounds
  <2>2. rendered' \in Seq(Rounds)
    BY <1>12
  <2> QED BY <1>1, <1>2, <1>9, <1>10, <1>11, <2>1, <2>2 DEF LoopInv, ForTypeOK
<1>14. RenderedDue'
  <2>1. /\ Len(Due(Begun)) <= Len(rendered)
        /\ \A k \in 1..Len(Due(Begun)) : rendered[k].item = Due(Begun)[k]
        /\ ~(Len(rendered) > Len(Due(Begun)))
    BY <1>1, <1>4, <1>5 DEF LoopInv, RenderedDue
  <2>2. Len(Due(Begun)) \in Nat
    BY <1>2, <1>3, <1>5, DueFacts
  <2>3. Begun' = Begun /\ Begun' <= Count'
    BY <1>5, <1>6
  <2>4. \A k \in 1..Len(Due(Begun)) : rendered'[k].item = Due(Begun)[k]
    <3>1. \A k \in 1..Len(Due(Begun)) : k \in 1..Len(rendered)
      BY <1>3, <2>1, <2>2
    <3> QED BY <1>12, <2>1, <3>1
  <2> QED BY <1>1, <1>12, <2>1, <2>3, <2>4, FormStays DEF RenderedDue
<1>15. CASE isLast
  <2>1. InLatePlace'
    <3>1. enumerator'.at = 1 /\ Len(enumerator'.items) = 1 /\ Begun' = Count
      BY <1>5, <1>7, <1>9, <1>10, <1>15
    <3> QED BY <1>1, <1>5, <1>6, <1>10, <3>1 DEF InLatePlace, NoSize
  <2>2. Placed'
    BY <1>1, <1>4, <1>15, <2>1 DEF Placed
  <2> QED BY <1>1, <1>13, <1>14, <1>15, <2>2 DEF LoopInv, LoopsAreRight, BoundsAreRight
<1>16. CASE ~isLast
  <2>1. Ahead'
    <3> SUFFICES /\ 1 \in 1..Len(rest)
                 /\ Len(rest) - 1 = Count - (itemIdx + 2)
                 /\ \A j \in 0..(Count - (itemIdx + 2)) : rest[1 + j] = Source[itemIdx + 2 + j]
      <4>1. Begun' + 1 = itemIdx + 2
        BY <1>2, <1>5
      <4> QED BY <1>6, <1>9, <4>1 DEF Ahead
    <3>1. /\ 1 \in 1..Len(rest) /\ Len(rest) - 1 = Count - (itemIdx + 2)
          /\ Len(en.items) - en.at = Count - (itemIdx + 2)
      BY <1>2, <1>3, <1>5, <1>7, <1>10, <1>16
    <3> QED BY <1>7, <1>8, <1>16, <3>1
  <2>2. InPlace'
    <3>1. /\ Begun' <= Count /\ Begun' < Count /\ Begun' > 0 /\ Begun' # 0 /\ Begun = Begun'
          /\ Begun' # Count
      BY <1>2, <1>3, <1>5, <1>7, <1>16
    <3>2. curValue' = Source[Begun'] /\ nextValue' = Source[Begun' + 1]
      BY <1>1, <1>4, <3>1 DEF InPlace
    <3> QED BY <1>1, <1>3, <1>6, <1>9, <1>10, <1>11, <1>16, <2>1, <3>1, <3>2 DEF InPlace
  <2>3. Placed'
    BY <1>1, <1>4, <1>16, <2>2 DEF Placed
  <2>4. LoopsAreRight'
    <3>1. ASSUME NEW k \in 1..Len(rendered)
          PROVE  LoopIsRight(rendered'[k])
      <4>1. LoopIsRight(rendered[k]) /\ rendered[k].loop \in LoopVars
        <5>1. LoopIsRight(rendered[k])
          BY <1>4 DEF LoopInv, LoopsAreRight
        <5>2. rendered[k] \in Rounds
          BY <1>2, ElementOfSeq
        <5> QED BY <5>1, <5>2 DEF Rounds
      <4>2. PICK l \in LoopVars : l = rendered[k].loop
        BY <4>1
      <4>3. /\ rendered'[k].item = rendered[k].item
            /\ rendered'[k].loop = [l EXCEPT !.length = IF k = Len(rendered) THEN Count ELSE l.length]
        BY <1>10, <1>12, <1>16, <4>2
      <4> QED BY <4>1, <4>2, <4>3 DEF LoopIsRight, LoopVars
    <3> QED BY <1>1, <1>12, <3>1, FormStays DEF LoopsAreRight, LoopIsRight
  <2>5. BoundsAreRight'
    BY <1>1, <1>4, <1>12, FormStays DEF LoopInv, BoundsAreRight
  <2> QED BY <1>13, <1>14, <2>3, <2>4, <2>5 DEF LoopInv
<1> QED BY <1>2, <1>15, <1>16

\* Before the list is entered nothing has been rendered.
LEMMA InitLoop == Init => LoopInv
<1> SUFFICES ASSUME Init
             PROVE  LoopInv
  OBVIOUS
<1>1. /\ form \in Forms /\ IsCanonical(form) /\ pc = "enter" /\ loopVar = NoLoop
      /\ bound = [v \in 1..form.varCount |-> None]
      /\ enumerator = [items |-> <<>>, at |-> 0, indexed |-> FALSE]
      /\ listSize = NoSize /\ itemIdx = 0 /\ isLast = FALSE /\ curValue = None /\ nextValue = None
      /\ rendered = <<>> /\ late = FALSE
  BY DEF Init
<1>2. loopVar \in LoopVars /\ bound \in Bounds
  BY <1>1 DEF NoLoop, LoopVars, Bounds, Items
<1>3. ForTypeOK
  <2>1. enumerator \in [items : Seq(Places), at : Nat, indexed : BOOLEAN]
    BY <1>1
  <2>2. curValue \in Items /\ nextValue \in Items /\ rendered \in Seq(Rounds)
    BY <1>1 DEF Items
  <2> QED BY <1>1, <1>2, <2>1, <2>2 DEF ForTypeOK
<1>4. Placed /\ RenderedDue
  BY <1>1 DEF Placed, RenderedDue
<1>5. Len(rendered) = 0
  BY <1>1
<1>6. LoopsAreRight
  BY <1>5 DEF LoopsAreRight
<1>7. BoundsAreRight
  <2>1. \A v \in 1..form.varCount : Nearest(0, v) = None
    BY DEF Nearest, Enough
  <2> QED BY <1>1, <1>5, <2>1 DEF BoundsAreRight
<1> QED BY <1>3, <1>4, <1>6, <1>7 DEF LoopInv

\* The enumerator is begun one item ahead.
LEMMA Enters ==
    ASSUME LoopInv, Enter
    PROVE  LoopInv'
<1>1. /\ pc = "enter" /\ form.isList /\ form' = form /\ pc' = "head"
      /\ bound' = bound /\ rendered' = rendered /\ late' = late /\ itemIdx' = itemIdx
      /\ curValue' = curValue /\ nextValue' = nextValue
      /\ enumerator' = MoveNext(Start(Source, form.sized))
      /\ isLast' = AtEnd(Start(Source, form.sized))
      /\ listSize' = IF form.sized THEN form.count ELSE NoSize
      /\ loopVar' = [loopVar EXCEPT !.length = IF form.sized THEN form.count ELSE None]
  BY DEF Enter, values, history, Source
<1>2. /\ form \in Forms /\ IsCanonical(form) /\ form.sized \in BOOLEAN
      /\ Source \in Seq(Places) /\ Count \in Nat /\ form.count \in Nat
      /\ form.sized => Count = form.count
  <2>1. form \in Forms /\ IsCanonical(form)
    BY DEF LoopInv, ForTypeOK
  <2> QED BY <2>1, SourceFacts DEF Forms
<1>3. itemIdx = 0 /\ loopVar = NoLoop /\ rendered = <<>> /\ ~late
  BY <1>1 DEF LoopInv, Placed
<1>4. /\ enumerator' \in [items : Seq(Places), at : Nat, indexed : BOOLEAN]
      /\ enumerator'.items = Source /\ enumerator'.indexed = form.sized
      /\ isLast' <=> Source = <<>>
      /\ Source # <<>> => enumerator'.at = 1
      /\ isLast' \in BOOLEAN
  <2>1. AtEnd(Start(Source, form.sized)) \in BOOLEAN
    BY DEF AtEnd
  <2> QED BY <1>1, <1>2, <2>1, Starts
<1>5. Source = <<>> <=> Count = 0
  BY <1>2, EmptySeq, LenProperties DEF Count
<1>6. /\ loopVar' \in LoopVars /\ loopVar'.previtem = None /\ loopVar'.length \in {None, Count}
      /\ listSize' \in {NoSize, Count}
      /\ listSize' \in Nat \union {NoSize}
      /\ listSize' = NoSize => ~form.sized
  <2>1. loopVar \in LoopVars /\ loopVar.previtem = None
    BY <1>3 DEF LoopInv, ForTypeOK, NoLoop
  <2>2. loopVar' \in LoopVars /\ loopVar'.previtem = None /\ loopVar'.length \in {None, Count}
    BY <1>1, <1>2, <2>1 DEF LoopVars
  <2> QED BY <1>1, <1>2, <2>2 DEF NoSize
<1>7. ForTypeOK'
  <2>1. Bounds' = Bounds /\ Rounds' = Rounds
    BY <1>1 DEF Bounds, Rounds
  <2> QED BY <1>1, <1>4, <1>6, <2>1 DEF LoopInv, ForTypeOK
<1>8. Begun' = 0 /\ Source' = Source /\ Count' = Count
  BY <1>1, <1>3, FormStays DEF Begun
<1>9. Ahead'
  <2> SUFFICES ASSUME 0 < Count
               PROVE  /\ 1 \in 1..Len(Source) /\ Len(Source) - 1 = Count - 1
                      /\ \A j \in 0..(Count - 1) : Source[1 + j] = Source[0 + 1 + j]
    <3>1. Source # <<>> => enumerator'.at = 1 /\ enumerator'.items = Source
      BY <1>4
    <3> QED BY <1>2, <1>5, <1>8, <3>1 DEF Ahead
  <2> QED BY <1>2 DEF Count
<1>10. InPlace'
  BY <1>2, <1>4, <1>5, <1>6, <1>8, <1>9 DEF InPlace, Count
<1>11. Placed'
  BY <1>1, <1>3, <1>10 DEF Placed
<1>12. RenderedDue'
  <2>1. Due(0) = <<>> /\ Len(rendered) = 0
    BY <1>2, <1>3, DueFacts
  <2>2. Begun' <= Count' /\ Len(Due(0)) = 0
    BY <1>2, <1>8, <2>1
  <2> QED BY <1>1, <1>8, <2>1, <2>2, FormStays DEF RenderedDue
<1>13. LoopsAreRight' /\ BoundsAreRight'
  BY <1>1, FormStays DEF LoopInv, LoopsAreRight, LoopIsRight, BoundsAreRight
<1> QED BY <1>7, <1>11, <1>12, <1>13 DEF LoopInv

\* The other steps leave the list and what has been rendered alone.
LEMMA OthersKeep ==
    ASSUME LoopInv, EnterNoList \/ LeaveBody \/ EndLoop \/ Leave \/ UNCHANGED vars
    PROVE  LoopInv'
<1>1. /\ form' = form /\ bound' = bound /\ loopVar' = loopVar /\ rendered' = rendered
      /\ late' = late /\ curValue' = curValue /\ nextValue' = nextValue
      /\ enumerator' = enumerator /\ listSize' = listSize /\ isLast' = isLast
  BY DEF EnterNoList, LeaveBody, EndLoop, Leave, vars, lists, values, history
<1>2. /\ pc' \in {"enter", "head", "body", "leave", "done"} /\ itemIdx' \in Nat /\ Begun' = Begun
      /\ pc' = "enter" => pc = "enter" /\ itemIdx' = itemIdx
      /\ ~form.isList => pc' \in {"enter", "leave", "done"}
      /\ form.isList /\ pc' \in {"leave", "done"} => isLast
      /\ form.isList => (pc' = "enter" <=> pc = "enter")
  <2>1. /\ itemIdx \in Nat /\ pc \in {"enter", "head", "body", "leave", "done"}
        /\ ~form.isList => pc \in {"enter", "leave", "done"}
        /\ form.isList /\ pc \in {"leave", "done"} => isLast
    BY DEF LoopInv, ForTypeOK, Placed
  <2>2. CASE EnterNoList
    BY <2>1, <2>2 DEF EnterNoList, Begun
  <2>3. CASE LeaveBody
    BY <2>1, <2>3 DEF LeaveBody, Begun
  <2>4. CASE EndLoop
    BY <2>1, <2>4 DEF EndLoop, Begun
  <2>5. CASE Leave
    BY <2>1, <2>5 DEF Leave, Begun
  <2>6. CASE UNCHANGED vars
    <3>1. pc' = pc /\ itemIdx' = itemIdx
      BY <2>6 DEF vars
    <3> QED BY <2>1, <3>1 DEF Begun
  <2> QED BY <2>2, <2>3, <2>4, <2>5, <2>6
<1>3. ForTypeOK'
  BY <1>1, <1>2 DEF LoopInv, ForTypeOK, Bounds, Rounds
<1>4. /\ Source' = Source /\ Count' = Count /\ InPlace' = InPlace /\ InLatePlace' = InLatePlace
  <2>1. Source' = Source /\ Count' = Count
    BY <1>1, FormStays
  <2> QED BY <1>1, <1>2, <2>1 DEF InPlace, Ahead, InLatePlace
<1>5. Placed'
  BY <1>1, <1>2, <1>4 DEF LoopInv, Placed
<1>6. RenderedDue'
  BY <1>1, <1>2, <1>4, FormStays DEF LoopInv, RenderedDue
<1>7. LoopsAreRight' /\ BoundsAreRight'
  BY <1>1, FormStays DEF LoopInv, LoopsAreRight, LoopIsRight, BoundsAreRight
<1> QED BY <1>3, <1>5, <1>6, <1>7 DEF LoopInv

\* Every rendering keeps the enumerator one item ahead, renders what is due and gives
\* each round its place: RenderLoop, for every list and statement.
THEOREM LoopInvariant == Spec => []LoopInv
<1>1. LoopInv /\ [Next]_vars => LoopInv'
  BY Skips, EntersBody, AsksLength, Enters, OthersKeep DEF Next
<1> QED BY <1>1, InitLoop, PTL DEF Spec

\* The body is rendered for the chosen items, in their order, and at most once more.
THEOREM ChosenAreRendered == Spec => []RendersChosen
<1>1. LoopInv => RendersChosen
  <2> SUFFICES ASSUME LoopInv
               PROVE  RendersChosen
    OBVIOUS
  <2>1. form \in Forms /\ late \in BOOLEAN /\ rendered \in Seq(Rounds) /\ itemIdx \in Nat
    BY DEF LoopInv, ForTypeOK
  <2>2. Count \in Nat /\ Begun \in Nat /\ Len(rendered) \in Nat
    BY <2>1, SourceFacts, LenProperties DEF Begun
  <2>3. /\ Len(Expected) \in Nat
        /\ \A n \in 0..Count : /\ Len(Due(n)) \in Nat /\ Len(Due(n)) <= Len(Expected)
                               /\ \A k \in 1..Len(Due(n)) : Expected[k] = Due(n)[k]
    BY <2>1, <2>2, DueFacts
  <2>4. CASE ~form.isList \/ pc = "enter"
    <3>1. Len(rendered) = 0
      BY <2>4 DEF LoopInv, Placed
    <3> QED BY <2>3, <2>4, <3>1 DEF RendersChosen
  <2>5. CASE form.isList /\ pc # "enter"
    <3>1. PICK n \in 0..Count : n = IF Begun <= Count THEN Begun ELSE Count
      BY <2>2
    <3>2. /\ Len(Due(n)) <= Len(rendered)
          /\ \A k \in 1..Len(Due(n)) : rendered[k].item = Due(n)[k]
          /\ Len(rendered) > Len(Due(n)) =>
                late /\ Begun > Count /\ Len(rendered) = Len(Due(n)) + 1
      BY <2>5, <3>1 DEF LoopInv, RenderedDue
    <3>3. Begun > Count => Due(n) = Expected
      BY <2>1, <2>2, <3>1, DueFacts
    <3>4. ASSUME NEW k \in 1..Len(rendered), k <= Len(Expected)
          PROVE  rendered[k].item = Expected[k]
      <4>1. k \in 1..Len(Due(n))
        BY <2>2, <2>3, <3>1, <3>2, <3>3, <3>4
      <4> QED BY <2>3, <3>1, <3>2, <4>1
    <3>5. Len(rendered) <= Len(Expected) + (IF late THEN 1 ELSE 0)
      BY <2>2, <2>3, <3>1, <3>2, <3>3
    <3>6. ASSUME pc = "done"
          PROVE  Len(rendered) >= Len(Expected)
      <4>1. isLast /\ IF late THEN InLatePlace ELSE InPlace
        BY <2>5, <3>6 DEF LoopInv, Placed
      <4>2. Begun >= Count
        BY <2>2, <4>1 DEF InLatePlace, InPlace
      <4>3. n = Count
        BY <2>2, <3>1, <4>2
      <4>4. Due(n) = Expected
        BY <2>1, <4>3, DueFacts
      <4> QED BY <2>2, <2>3, <3>2, <4>4
    <3> QED BY <3>4, <3>5, <3>6 DEF RendersChosen
  <2> QED BY <2>4, <2>5
<1> QED BY <1>1, LoopInvariant, PTL

\* The loop variable says where the item stands among the chosen ones.
THEOREM LoopVarIsRight == Spec => []LoopVarIsPosition
<1>1. LoopInv => LoopVarIsPosition
  BY DEF LoopInv, LoopsAreRight, LoopIsRight, LoopVarIsPosition, Source, Count
<1> QED BY <1>1, LoopInvariant, PTL

\* A variable without a value of its own keeps that of the nearest item that had one.
THEOREM BoundIsNearest == Spec => []BoundFromNearest
<1>1. LoopInv => BoundFromNearest
  BY DEF LoopInv, BoundsAreRight, BoundFromNearest, Nearest, Enough, LastOf
<1> QED BY <1>1, LoopInvariant, PTL
=============================================================================

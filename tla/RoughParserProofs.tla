--------------------------- MODULE RoughParserProofs ---------------------------
(***************************************************************************)
(* Proofs about the rough parser, for every template and every setting: the *)
(* blocks are in order and between the delimiters of their kind, only       *)
(* markup and white space that may be stripped is lost between them, and    *)
(* the places of the errors and of the meta block are right.                *)
(*                                                                         *)
(* All three rest on Inv: what the current block is, and what lies between  *)
(* its start and the last match.  The handlers are sorted into a few kinds  *)
(* of step first (Kind), for most of them do one of three things.           *)
(***************************************************************************)
EXTENDS RoughParser, SequenceTheorems, FiniteSetTheorems, WellFoundedInduction, TLAPS

\* What RoughAssumption says of the template.
IsText == text \in Seq(ToSet(text))
-----------------------------------------------------------------------------
(* Least and greatest offsets. *)

\* A set of offsets has a least one, and Min is it.
LEMMA Least ==
    ASSUME NEW S, S \subseteq Nat, S # {}
    PROVE  Min(S) \in S /\ \A x \in S : Min(S) <= x
<1>1. IsWellFoundedOn({ss \in Nat \X Nat : ss[1] < ss[2]}, Nat)
  BY NatLessThanWellFounded DEF OpToRel
<1>2. PICK x \in S : \A y \in S : ~(<<y, x>> \in {ss \in Nat \X Nat : ss[1] < ss[2]})
  BY <1>1, WFMin
<1>3. \A y \in S : ~(y < x)
  BY <1>2
<1>4. \A y \in S : x <= y
  BY <1>3
<1> QED BY <1>4 DEF Min

\* A bounded set of offsets has a greatest one, and Max is it.
LEMMA Greatest ==
    ASSUME NEW n \in Nat, NEW S, S \subseteq 0 .. n, S # {}
    PROVE  Max(S) \in S /\ \A x \in S : x <= Max(S)
<1> DEFINE T == {n - x : x \in S}
<1>1. T \subseteq Nat /\ T # {}
  <2>1. \A x \in S : n - x \in Nat
    OBVIOUS
  <2>2. T \subseteq Nat
    BY <2>1
  <2>3. PICK x : x \in S
    OBVIOUS
  <2>4. n - x \in T
    BY <2>3
  <2> QED BY <2>2, <2>4
<1>2. PICK y \in T : \A z \in T : y <= z
  <2> HIDE DEF T
  <2> QED BY <1>1, Least
<1>3. PICK x \in S : y = n - x
  OBVIOUS
<1>4. ASSUME NEW z \in S PROVE z <= x
  <2>1. n - z \in T
    OBVIOUS
  <2>2. n - x <= n - z
    BY <1>2, <1>3, <2>1
  <2> QED BY <2>2
<1> QED BY <1>4 DEF Max
-----------------------------------------------------------------------------
(* Characters and matches. *)

\* The size is a number, and the offsets below it are those of characters.
LEMMA TextFacts ==
    ASSUME IsText
    PROVE  Size \in Nat /\ \A o \in 0 .. Size - 1 : Char(o) \in ToSet(text)
<1>1. Len(text) \in Nat /\ \A i \in 1 .. Len(text) : text[i] \in ToSet(text)
  BY LenProperties, ElementOfSeq DEF IsText
<1> QED BY <1>1 DEF Size, Char

\* What two symbols a part of the text has.
LEMMA Two ==
    ASSUME IsText, NEW k \in Nat, k + 2 <= Size, NEW a, NEW b,
           SubSeq(text, k + 1, k + 2) = <<a, b>>
    PROVE  Char(k) = a /\ Char(k + 1) = b
<1>1. \A i \in k + 1 .. k + 2 : text[i] \in ToSet(text)
  BY LenProperties, ElementOfSeq DEF IsText, Size
<1>2. PICK s : s = SubSeq(text, k + 1, k + 2)
  OBVIOUS
<1>3. PICK m \in Int, n \in Int : m = k + 1 /\ n = k + 2
  OBVIOUS
<1>4. \A i \in 1 .. n - m + 1 : s[i] = text[m + i - 1]
  BY <1>1, <1>2, <1>3, SubSeqProperties
<1>5. 1 \in 1 .. n - m + 1 /\ 2 \in 1 .. n - m + 1 /\ m + 1 - 1 = k + 1 /\ m + 2 - 1 = k + 2
  BY <1>3
<1>6. s[1] = text[k + 1] /\ s[2] = text[k + 2]
  BY <1>4, <1>5
<1>7. s = <<a, b>> /\ (k + 1) + 1 = k + 2
  BY <1>2
<1> QED BY <1>6, <1>7 DEF Char

\* What one symbol of the text is as a part of it.
LEMMA One ==
    ASSUME IsText, NEW k \in Nat, k + 1 <= Size
    PROVE  SubSeq(text, k + 1, k + 1) = <<Char(k)>>
<1>1. text[k + 1] \in ToSet(text)
  BY LenProperties, ElementOfSeq DEF IsText, Size
<1>2. PICK m \in Int : m = k + 1
  OBVIOUS
<1>3. PICK s : s = SubSeq(text, m, m)
  OBVIOUS
<1>4. s \in Seq(ToSet(text)) /\ Len(s) = 1 /\ \A i \in 1 .. 1 : s[i] = text[m + i - 1]
  BY <1>1, <1>2, <1>3, SubSeqProperties
<1>5. s[1] = text[k + 1]
  BY <1>2, <1>4
<1>6. PICK t : t = <<text[k + 1]>>
  OBVIOUS
<1>7. t \in Seq(ToSet(text)) /\ Len(t) = 1 /\ t[1] = text[k + 1]
  BY <1>1, <1>6
<1>8. s = t
  BY <1>4, <1>5, <1>7, SeqEqual
<1> QED BY <1>2, <1>3, <1>6, <1>8 DEF Char

\* The types of the matches.
TagTypes == {"RawBegin", "RawEnd", "MetaBegin", "MetaEnd"}
PairTypes == {"ExprBegin", "ExprEnd", "StmtBegin", "StmtEnd", "CommentBegin", "CommentEnd"}
Delimiters == {"{", "}", "%", "#"}
\* The symbols of a delimiter.
First(type) == CASE type \in {"ExprBegin", "StmtBegin", "CommentBegin"} -> "{"
                 [] type = "ExprEnd" -> "}" [] type = "StmtEnd" -> "%" [] OTHER -> "#"
Second(type) == CASE type \in {"ExprEnd", "StmtEnd", "CommentEnd"} -> "}"
                  [] type = "ExprBegin" -> "{" [] type = "StmtBegin" -> "%" [] OTHER -> "#"

\* What there is between the two ends of a tag.
InTag(k, e, word) ==
    /\ e >= k + 7
    /\ Char(k) = "{" /\ Char(k + 1) = "%" /\ Char(e - 2) = "%" /\ Char(e - 1) = "}"
    /\ \E w \in k + 3 .. e - 4 :
          /\ Char(w) = word
          /\ \A j \in k + 2 .. e - 3 :
                j = w \/ IsSpace(Char(j)) \/ (Char(j) \in Signs /\ j \in {k + 2, e - 3})

Word(type) == CASE type = "RawBegin" -> "raw" [] type = "RawEnd" -> "endraw"
                [] type = "MetaBegin" -> "meta" [] OTHER -> "endmeta"

\* What a match is.
MatchIs(k, m) ==
    /\ m.at = k /\ m.end \in Nat /\ k < m.end /\ m.end <= Size
    /\ \/ m.type = "NewLine" /\ m.end = k + 1 /\ Char(k) = "\n"
       \/ /\ m.type \in PairTypes /\ m.end = k + 2
          /\ Char(k) = First(m.type) /\ Char(k + 1) = Second(m.type)
       \/ m.type \in TagTypes /\ InTag(k, m.end, Word(m.type))

\* IsTag finds the word between the delimiters, with white space and signs around it.
LEMMA TagIs ==
    ASSUME IsText, NEW k \in Nat, NEW type \in TagTypes, NEW e \in k + 7 .. Size,
           IsTag(Tags[type], k, e)
    PROVE  InTag(k, e, Word(type))
<1>0. PICK tag : tag = Tags[type]
  OBVIOUS
<1>1. tag.word = Word(type) /\ tag.signs \in {Signs, {}}
  <2>1. CASE type = "RawBegin"
    BY <1>0, <2>1 DEF Tags, Word
  <2>2. CASE type = "RawEnd"
    BY <1>0, <2>2 DEF Tags, Word
  <2>3. CASE type = "MetaBegin"
    BY <1>0, <2>3 DEF Tags, Word
  <2>4. CASE type = "MetaEnd"
    BY <1>0, <2>4 DEF Tags, Word
  <2> QED BY <2>1, <2>2, <2>3, <2>4 DEF TagTypes
<1>2. e \in Nat /\ e >= k + 7 /\ Size \in Nat
  BY TextFacts
<1>3. PICK left : left = IF Char(k + 2) \in tag.signs THEN k + 3 ELSE k + 2
  OBVIOUS
<1>4. PICK right : right = IF Char(e - 3) \in tag.signs THEN e - 4 ELSE e - 3
  OBVIOUS
<1>5. /\ Char(k) = "{" /\ Char(k + 1) = "%" /\ Char(e - 2) = "%" /\ Char(e - 1) = "}"
      /\ \E w \in left + 1 .. right - 1 :
            /\ Char(w) = tag.word
            /\ \A j \in left .. right : j = w \/ IsSpace(Char(j))
  BY <1>0, <1>3, <1>4 DEF IsTag
<1>6. PICK w \in left + 1 .. right - 1 :
         Char(w) = tag.word /\ \A j \in left .. right : j = w \/ IsSpace(Char(j))
  BY <1>5
<1>7. /\ left \in Nat /\ right \in Nat /\ k + 2 <= left /\ right <= e - 3
      /\ left = k + 2 \/ (left = k + 3 /\ Char(k + 2) \in Signs)
      /\ right = e - 3 \/ (right = e - 4 /\ Char(e - 3) \in Signs)
  BY <1>1, <1>2, <1>3, <1>4
<1>8. w \in k + 3 .. e - 4
  BY <1>2, <1>7
<1>9. ASSUME NEW j \in k + 2 .. e - 3
      PROVE  j = w \/ IsSpace(Char(j)) \/ (Char(j) \in Signs /\ j \in {k + 2, e - 3})
  BY <1>2, <1>6, <1>7
<1> QED BY <1>1, <1>2, <1>5, <1>6, <1>8, <1>9 DEF InTag

\* The two sets MatchesAt chooses from.
TagsAt(k) == {m \in [type : DOMAIN Tags, at : {k}, end : {e \in k + 7 .. Size : Char(e - 1) = "}"}] :
                 IsTag(Tags[m.type], k, m.end)}
PairsAt(k) == {[type |-> t, at |-> k, end |-> k + Len(Pairs[t])] :
                 t \in {u \in DOMAIN Pairs : k + Len(Pairs[u]) <= Size
                                     /\ SubSeq(text, k + 1, k + Len(Pairs[u])) = Pairs[u]}}

\* There are either tags or pairs at an offset.
LEMMA TagsOrPairs ==
    ASSUME NEW k
    PROVE  /\ MatchesAt(k) # {} => Char(k) \in Delimiters \union {"\n"}
           /\ \/ MatchesAt(k) = {}
              \/ MatchesAt(k) = TagsAt(k)
              \/ MatchesAt(k) = PairsAt(k)
           /\ Char(k) = "\n" /\ TagsAt(k) = {} => MatchesAt(k) = PairsAt(k)
<1>1. PICK tags : tags = TagsAt(k)
  OBVIOUS
<1>2. PICK pairs : pairs = PairsAt(k)
  OBVIOUS
<1>3. MatchesAt(k) = CASE Char(k) \notin {"{", "}", "%", "#", "\n"} -> {} [] tags # {} -> tags [] OTHER -> pairs
  BY <1>1, <1>2, Zenon DEF MatchesAt, TagsAt, PairsAt
<1>4. PICK c : c = Char(k)
  OBVIOUS
<1>5. tags # {} => c = "{"
  BY <1>1, <1>4, Zenon DEF TagsAt, IsTag
<1> QED BY <1>1, <1>2, <1>3, <1>4, <1>5 DEF Delimiters

\* A tag that matches is where it is looked for, and ends in the text.
LEMMA TagFacts ==
    ASSUME IsText, NEW k \in Nat, k < Size, NEW m \in TagsAt(k)
    PROVE  /\ m.at = k /\ m.end \in Nat /\ k < m.end /\ m.end <= Size
           /\ m.type \in TagTypes /\ InTag(k, m.end, Word(m.type))
<1>1. m.type \in TagTypes /\ m.at = k /\ m.end \in k + 7 .. Size /\ IsTag(Tags[m.type], k, m.end)
  <2>1. DOMAIN Tags = TagTypes
    BY DEF Tags, TagTypes
  <2> QED BY <2>1 DEF TagsAt
<1>2. InTag(k, m.end, Word(m.type))
  BY <1>1, TagIs
<1> QED BY <1>1, <1>2, TextFacts

\* The pairs, as two characters each.
LEMMA PairIs ==
    /\ DOMAIN Pairs = PairTypes \union {"NewLine"}
    /\ Pairs["NewLine"] = <<"\n">> /\ Len(Pairs["NewLine"]) = 1
    /\ \A t \in PairTypes : Pairs[t] = <<First(t), Second(t)>> /\ Len(Pairs[t]) = 2
<1>1. DOMAIN Pairs = PairTypes \union {"NewLine"}
  BY DEF Pairs, PairTypes
<1>2. Pairs["NewLine"] = <<"\n">> /\ Len(Pairs["NewLine"]) = 1
  BY DEF Pairs
<1>3. /\ Pairs["ExprBegin"] = <<"{", "{">> /\ Pairs["ExprEnd"] = <<"}", "}">>
      /\ Pairs["StmtBegin"] = <<"{", "%">> /\ Pairs["StmtEnd"] = <<"%", "}">>
      /\ Pairs["CommentBegin"] = <<"{", "#">> /\ Pairs["CommentEnd"] = <<"#", "}">>
  BY DEF Pairs
<1>4. /\ First("ExprBegin") = "{" /\ First("ExprEnd") = "}" /\ First("StmtBegin") = "{"
      /\ First("StmtEnd") = "%" /\ First("CommentBegin") = "{" /\ First("CommentEnd") = "#"
  BY DEF First
<1>5. /\ Second("ExprBegin") = "{" /\ Second("ExprEnd") = "}" /\ Second("StmtBegin") = "%"
      /\ Second("StmtEnd") = "}" /\ Second("CommentBegin") = "#" /\ Second("CommentEnd") = "}"
  BY DEF Second
<1>6. \A a, b : Len(<<a, b>>) = 2
  OBVIOUS
<1>7. ASSUME NEW t \in PairTypes PROVE Pairs[t] = <<First(t), Second(t)>> /\ Len(Pairs[t]) = 2
  <2> USE <1>3, <1>4, <1>5, <1>6
  <2>1. CASE t = "ExprBegin"
    BY <2>1
  <2>2. CASE t = "ExprEnd"
    BY <2>2
  <2>3. CASE t = "StmtBegin"
    BY <2>3
  <2>4. CASE t = "StmtEnd"
    BY <2>4
  <2>5. CASE t = "CommentBegin"
    BY <2>5
  <2>6. CASE t = "CommentEnd"
    BY <2>6
  <2> QED BY <2>1, <2>2, <2>3, <2>4, <2>5, <2>6 DEF PairTypes
<1> QED BY <1>1, <1>2, <1>7

\* A pair, or a new line, that matches is where it is looked for, and ends in the text.
LEMMA PairFacts ==
    ASSUME IsText, NEW k \in Nat, k < Size, NEW m \in PairsAt(k)
    PROVE  /\ m.at = k /\ m.end \in Nat /\ k < m.end /\ m.end <= Size
           /\ \/ m.type = "NewLine" /\ m.end = k + 1 /\ Char(k) = "\n"
              \/ /\ m.type \in PairTypes /\ m.end = k + 2
                 /\ Char(k) = First(m.type) /\ Char(k + 1) = Second(m.type)
<1>0. Size \in Nat
  BY TextFacts
<1>1. PICK t \in DOMAIN Pairs :
         /\ m = [type |-> t, at |-> k, end |-> k + Len(Pairs[t])]
         /\ k + Len(Pairs[t]) <= Size /\ SubSeq(text, k + 1, k + Len(Pairs[t])) = Pairs[t]
  BY DEF PairsAt
<1>2. m.type = t /\ m.at = k /\ m.end = k + Len(Pairs[t])
  BY <1>1
<1>3. CASE t = "NewLine"
  <2>1. k + 1 <= Size /\ SubSeq(text, k + 1, k + 1) = <<"\n">> /\ m.end = k + 1
    BY <1>1, <1>2, <1>3, PairIs
  <2>2. <<Char(k)>> = <<"\n">>
    BY <2>1, One
  <2>3. Char(k) = "\n"
    BY <2>2
  <2> QED BY <1>0, <1>2, <1>3, <2>1, <2>3
<1>4. CASE t \in PairTypes
  <2>1. k + 2 <= Size /\ SubSeq(text, k + 1, k + 2) = <<First(t), Second(t)>> /\ m.end = k + 2
    BY <1>1, <1>2, <1>4, PairIs
  <2>2. Char(k) = First(t) /\ Char(k + 1) = Second(t)
    BY <2>1, Two
  <2> QED BY <1>0, <1>2, <1>4, <2>1, <2>2
<1> QED BY <1>1, <1>3, <1>4, PairIs

\* Every match at an offset is one of the three kinds.
LEMMA Matches ==
    ASSUME IsText, NEW k \in Nat, k < Size, NEW m \in MatchesAt(k)
    PROVE  MatchIs(k, m) /\ Char(k) \in Delimiters \union {"\n"}
<1>1. Char(k) \in Delimiters \union {"\n"} /\ (m \in TagsAt(k) \/ m \in PairsAt(k))
  BY TagsOrPairs
<1> QED BY <1>1, TagFacts, PairFacts DEF MatchIs

\* A new line always matches, and as nothing else.
LEMMA NewLineMatches ==
    ASSUME IsText, NEW k \in Nat, k < Size, Char(k) = "\n"
    PROVE  MatchesAt(k) # {} /\ \A m \in MatchesAt(k) : m.type = "NewLine"
<1>0. Size \in Nat
  BY TextFacts
<1>1. "NewLine" \in DOMAIN Pairs /\ Pairs["NewLine"] = <<"\n">> /\ Len(Pairs["NewLine"]) = 1
  BY PairIs
<1>2. k + 1 <= Size /\ SubSeq(text, k + 1, k + 1) = <<"\n">>
  BY <1>0, One
<1>3. "NewLine" \in {u \in DOMAIN Pairs : k + Len(Pairs[u]) <= Size
                                     /\ SubSeq(text, k + 1, k + Len(Pairs[u])) = Pairs[u]}
  BY <1>1, <1>2
<1>4. PairsAt(k) # {}
  BY <1>3 DEF PairsAt
<1>5. TagsAt(k) = {}
  <2>1. ASSUME NEW m \in TagsAt(k) PROVE FALSE
    BY <2>1, TagFacts DEF InTag
  <2> QED BY <2>1
<1>6. MatchesAt(k) = PairsAt(k)
  BY <1>5, TagsOrPairs
<1>7. \A t \in PairTypes : First(t) # "\n"
  BY DEF First
<1> QED BY <1>4, <1>6, <1>7, PairFacts

\* All the matches at an offset are of one type.
LEMMA SameType ==
    ASSUME IsText, NEW k \in Nat, k < Size, NEW m \in MatchesAt(k), NEW n \in MatchesAt(k)
    PROVE  m.type = n.type
<1>0. Size \in Nat
  BY TextFacts
<1>1. \/ m \in TagsAt(k) /\ n \in TagsAt(k)
      \/ m \in PairsAt(k) /\ n \in PairsAt(k)
  BY TagsOrPairs
<1>2. CASE m \in TagsAt(k) /\ n \in TagsAt(k)
  <2>1. ASSUME NEW d \in Nat, NEW e \in Nat, d <= e, NEW v \in {"raw", "endraw", "meta", "endmeta"},
               NEW w \in {"raw", "endraw", "meta", "endmeta"}, InTag(k, d, v), InTag(k, e, w)
        PROVE  v = w
    <3>1. PICK i \in k + 3 .. d - 4 : Char(i) = v
      BY <2>1 DEF InTag
    <3>2. PICK j \in k + 3 .. e - 4 :
             /\ Char(j) = w
             /\ \A l \in k + 2 .. e - 3 :
                   l = j \/ IsSpace(Char(l)) \/ (Char(l) \in Signs /\ l \in {k + 2, e - 3})
      BY <2>1 DEF InTag
    <3>3. i \in k + 2 .. e - 3
      BY <2>1, <3>1
    <3>4. i = j \/ IsSpace(v) \/ v \in Signs
      BY <3>1, <3>2, <3>3
    <3> QED BY <2>1, <3>1, <3>2, <3>4 DEF IsSpace, Signs
  <2>2. /\ m.type \in TagTypes /\ InTag(k, m.end, Word(m.type)) /\ m.end \in Nat
        /\ n.type \in TagTypes /\ InTag(k, n.end, Word(n.type)) /\ n.end \in Nat
    BY <1>2, TagFacts
  <2>3. \A t \in TagTypes : Word(t) \in {"raw", "endraw", "meta", "endmeta"}
    BY DEF Word
  <2>4. m.end <= n.end \/ n.end <= m.end
    BY <2>2
  <2>5. Word(m.type) = Word(n.type)
    BY <2>1, <2>2, <2>3, <2>4
  <2>6. \A s \in TagTypes, t \in TagTypes : Word(s) = Word(t) => s = t
    BY DEF Word, TagTypes
  <2> QED BY <2>2, <2>5, <2>6
<1>3. CASE m \in PairsAt(k) /\ n \in PairsAt(k)
  <2>1. \A t \in PairTypes : First(t) # "\n"
    BY DEF First
  <2>2. \A s \in PairTypes, t \in PairTypes : First(s) = First(t) /\ Second(s) = Second(t) => s = t
    BY DEF First, Second, PairTypes
  <2> QED BY <1>3, <2>1, <2>2, PairFacts
<1> QED BY <1>1, <1>2, <1>3

\* A match begins inside another one only if it is the second character of a pair, or
\* behind the word of a tag.
LEMMA Inside ==
    ASSUME IsText, NEW p \in Nat, p < Size, NEW m \in MatchesAt(p),
           NEW k \in p + 1 .. m.end - 1, NEW n \in MatchesAt(k)
    PROVE  MatchesAt(k - 1) # {} \/ (m.type \in TagTypes /\ n.type \in {"NewLine", "StmtEnd", "ExprEnd"})
<1>0. Size \in Nat
  BY TextFacts
<1>1. MatchIs(p, m) /\ p + 1 \in Nat /\ m.end \in Nat
  BY Matches DEF MatchIs
<1>2. k \in Nat /\ k < Size
  BY <1>0, <1>1 DEF MatchIs
<1>3. MatchIs(k, n) /\ Char(k) \in Delimiters \union {"\n"}
  BY <1>2, Matches
<1>4. CASE m.end <= p + 2
  <2>1. k - 1 = p
    BY <1>1, <1>4
  <2> QED BY <2>1
<1>5. CASE m.end > p + 2
  <2>1. m.type \in TagTypes /\ InTag(p, m.end, Word(m.type))
    BY <1>1, <1>5 DEF MatchIs
  <2>2. PICK w \in p + 3 .. m.end - 4 :
           /\ Char(w) = Word(m.type)
           /\ \A j \in p + 2 .. m.end - 3 :
                 j = w \/ IsSpace(Char(j)) \/ (Char(j) \in Signs /\ j \in {p + 2, m.end - 3})
    BY <2>1 DEF InTag
  <2>3. m.end >= p + 7 /\ Char(p + 1) = "%" /\ Char(m.end - 2) = "%" /\ Char(m.end - 1) = "}"
    BY <2>1 DEF InTag
  <2>4. Word(m.type) \notin Delimiters \union {"\n"}
    BY DEF Word, Delimiters
  <2>5. \A c \in Signs : c \notin Delimiters \union {"\n"}
    BY DEF Signs, Delimiters
  <2>6. \A c : IsSpace(c) => c \notin Delimiters
    BY DEF IsSpace, Delimiters
  <2>7. ASSUME Char(k) = "\n" PROVE n.type = "NewLine"
    BY <1>2, <2>7, NewLineMatches
  <2>8. \A t \in PairTypes : (First(t) = "%" => t = "StmtEnd" /\ Second(t) = "}") /\ (First(t) = "}" => t = "ExprEnd")
    BY DEF First, Second, PairTypes
  <2>9. ASSUME Char(k) = "%" PROVE n.type = "StmtEnd" /\ Char(k + 1) = "}"
    BY <1>3, <2>8, <2>9 DEF MatchIs, InTag
  <2>10. ASSUME Char(k) = "}" PROVE n.type = "ExprEnd"
    BY <1>3, <2>8, <2>10 DEF MatchIs, InTag
  <2>11. CASE k \in p + 2 .. m.end - 3
    BY <1>3, <2>1, <2>2, <2>4, <2>5, <2>6, <2>7, <2>11
  <2>12. CASE k \in {m.end - 2, m.end - 1}
    BY <2>1, <2>3, <2>9, <2>10, <2>12
  <2>13. CASE k = p + 1
    <3>1. Char(p + 2) = "}"
      <4>0. k + 1 = p + 2
        BY <2>13
      <4>1. k + 1 = p + 2 /\ Char(k) = "%"
        BY <4>0, <2>3, <2>13, Zenon
      <4>2. Char(k + 1) = "}"
        BY <2>9, <4>1
      <4> QED BY <4>1, <4>2
    <3>2. p + 2 \in p + 2 .. m.end - 3 /\ p + 2 # w
      <4>1. PICK e \in Nat : e = m.end
        BY <1>1
      <4>2. w \in p + 3 .. e - 4 /\ e >= p + 7
        BY <2>2, <2>3, <4>1
      <4>3. p + 2 \in p + 2 .. e - 3 /\ p + 2 # w
        BY <4>2
      <4> QED BY <4>1, <4>3
    <3>3. IsSpace("}") \/ "}" \in Signs
      BY <2>2, <3>1, <3>2
    <3> QED BY <3>3 DEF IsSpace, Signs
  <2>14. k \in p + 2 .. m.end - 3 \/ k \in {m.end - 2, m.end - 1} \/ k = p + 1
    BY <1>1
  <2> QED BY <2>11, <2>12, <2>13, <2>14
<1> QED BY <1>1, <1>4, <1>5

\* The match that is handled next.
LEMMA NextMatch ==
    ASSUME IsText, from \in 0 .. Size, MatchOffsets(from) # {}
    PROVE  \E k \in from .. Size - 1 :
              /\ Match \in MatchesAt(k) /\ MatchIs(k, Match)
              /\ \A j \in from .. k - 1 : MatchesAt(j) = {}
<1>0. Size \in Nat /\ from \in Nat
  BY TextFacts
<1> DEFINE S == {k \in from .. Size - 1 : MatchesAt(k) # {}}
<1>1. S = MatchOffsets(from)
  BY DEF MatchOffsets
<1>2. S \subseteq Nat /\ S # {}
  BY <1>0, <1>1
<1>3. PICK k : k = Min(S)
  OBVIOUS
<1>4. k \in S /\ \A j \in S : k <= j
  <2> HIDE DEF S
  <2> QED BY <1>2, <1>3, Least
<1>5. Match \in MatchesAt(k)
  BY <1>1, <1>3, <1>4 DEF Match
<1>6. ASSUME NEW j \in from .. k - 1 PROVE MatchesAt(j) = {}
  BY <1>0, <1>4
<1>7. k \in from .. Size - 1 /\ k \in Nat /\ k < Size
  BY <1>0, <1>4
<1>8. MatchIs(k, Match)
  BY <1>5, <1>7, Matches
<1> QED BY <1>5, <1>6, <1>7, <1>8

\* When the iterator has come to its end there is no match ahead.
LEMMA NoMatch ==
    ASSUME MatchOffsets(from) = {}
    PROVE  \A k \in from .. Size - 1 : MatchesAt(k) = {}
BY DEF MatchOffsets
-----------------------------------------------------------------------------
(* White space control. *)

\* The run of characters before an offset is made of them, and lies behind the floor.
LEMMA Run ==
    ASSUME NEW floor \in Nat, NEW e \in Nat, floor <= e, NEW chars
    PROVE  RunStart(floor, e, chars) \in floor .. e
           /\ \A k \in RunStart(floor, e, chars) .. e - 1 : Char(k) \in chars
<1> DEFINE S == {w \in floor .. e : \A k \in w .. e - 1 : Char(k) \in chars}
<1>1. e \in S
  OBVIOUS
<1>2. S \subseteq Nat
  OBVIOUS
<1>3. Min(S) \in S
  <2> HIDE DEF S
  <2> QED BY <1>1, <1>2, Least
<1> QED BY <1>3 DEF RunStart

\* What is stripped is white space, and only if something asks for it.
LEMMA StripLeft ==
    ASSUME IsText, NEW block, block.start \in Nat, NEW e \in 0 .. Size, NEW signAt \in Nat,
           NEW doStrip \in BOOLEAN
    PROVE  \E w \in 0 .. e :
              /\ StripBlockLeft(block, signAt, e, doStrip) = w
              /\ block.start <= e => block.start <= w
              /\ \A k \in w .. e - 1 : IsSpace(Char(k))
              /\ w = e \/ (block.type \in {"RawText", "RawBlock"}
                           /\ (doStrip \/ (signAt < Size /\ Char(signAt) = "-")))
<1>0. Size \in Nat
  BY TextFacts
<1>1. PICK spaces : spaces = {" ", "\n"}
  OBVIOUS
<1>2. PICK floor \in 0 .. e : /\ floor = IF block.start <= e THEN block.start ELSE 0
                              /\ block.start <= e => block.start <= floor
  BY <1>0
<1>3. PICK sign : sign = IF signAt < Size THEN Char(signAt) ELSE "x"
  OBVIOUS
<1>a. PICK blank : blank = {" "}
  OBVIOUS
<1>4. PICK w \in Int : w = RunStart(floor, e, blank) /\ w \in floor .. e /\ \A k \in w .. e - 1 : Char(k) \in blank
  BY <1>0, Run
<1>5. PICK v \in Int : v = RunStart(floor, e, spaces) /\ v \in floor .. e /\ \A k \in v .. e - 1 : Char(k) \in spaces
  BY <1>0, Run
<1>8. PICK r : r = StripBlockLeft(block, signAt, e, doStrip)
  OBVIOUS
<1>9. \/ r = e
      \/ r = v /\ sign = "-" /\ block.type \in {"RawText", "RawBlock"}
      \/ r = w /\ doStrip /\ block.type \in {"RawText", "RawBlock"}
  BY <1>1, <1>2, <1>3, <1>4, <1>5, <1>8, <1>a DEF StripBlockLeft
<1>10. sign = "-" => signAt < Size /\ Char(signAt) = "-"
  BY <1>3
<1>11. CASE r = e
  BY <1>0, <1>8, <1>11
<1>12. CASE r = v /\ sign = "-" /\ block.type \in {"RawText", "RawBlock"}
  <2>1. StripBlockLeft(block, signAt, e, doStrip) = v /\ block.type \in {"RawText", "RawBlock"}
        /\ (doStrip \/ (signAt < Size /\ Char(signAt) = "-"))
    BY <1>8, <1>10, <1>12
  <2>2. \A k \in v .. e - 1 : IsSpace(Char(k))
    BY <1>1, <1>a, <1>4, <1>5 DEF IsSpace
  <2>3. v \in 0 .. e /\ (block.start <= e => block.start <= v)
    BY <1>2, <1>4, <1>5
  <2> QED BY <2>1, <2>2, <2>3
<1>13. CASE r = w /\ doStrip /\ block.type \in {"RawText", "RawBlock"}
  <2>1. StripBlockLeft(block, signAt, e, doStrip) = w /\ block.type \in {"RawText", "RawBlock"}
        /\ (doStrip \/ (signAt < Size /\ Char(signAt) = "-"))
    BY <1>8, <1>10, <1>13
  <2>2. \A k \in w .. e - 1 : IsSpace(Char(k))
    BY <1>1, <1>a, <1>4, <1>5 DEF IsSpace
  <2>3. w \in 0 .. e /\ (block.start <= e => block.start <= w)
    BY <1>2, <1>4, <1>5
  <2> QED BY <2>1, <2>2, <2>3
<1> QED BY <1>9, <1>11, <1>12, <1>13

\* Blanks and new lines are white space.
LEMMA Spaces ==
    /\ IsSpace("\n")
    /\ \A c : IsBlank(c) => IsSpace(c) /\ c # "\n"
BY DEF IsSpace, IsBlank

\* What is skipped behind two characters is white space, and only if something asks for it.
LEMMA StripRight ==
    ASSUME IsText, NEW type, NEW o \in Nat, o + 2 <= Size, NEW trim \in BOOLEAN
    PROVE  \E w \in o + 2 .. Size :
              /\ StripBlockRight(type, o, trim) = w
              /\ \A k \in o + 2 .. w - 1 : IsSpace(Char(k)) /\ (Char(k) = "\n" => k = w - 1)
              /\ w = o + 2 \/ trim \/ (o # 0 /\ Char(o - 1) = "-")
<1>0. Size \in Nat
  BY TextFacts
<1>1. PICK sign : sign = IF type # "RawText" /\ o # 0 THEN Char(o - 1) ELSE "x"
  OBVIOUS
<1>2. PICK doTrim \in BOOLEAN : doTrim = (sign = "-" \/ (sign # "+" /\ trim))
  OBVIOUS
<1> DEFINE S == {k \in o + 2 .. Size : \A i \in o + 2 .. k - 1 : IsBlank(Char(i))}
<1>3. PICK w : w = Max(S)
  OBVIOUS
<1>4. w \in Int /\ w \in o + 2 .. Size /\ \A i \in o + 2 .. w - 1 : IsBlank(Char(i))
  <2>1. o + 2 \in S
    BY <1>0
  <2>2. S \subseteq 0 .. Size
    BY <1>0
  <2>3. w \in S
    <3> HIDE DEF S
    <3> QED BY <1>0, <1>3, <2>1, <2>2, Greatest
  <2> QED BY <1>0, <2>3
<1>5. PICK r : r = StripBlockRight(type, o, trim)
  OBVIOUS
<1>6. r = IF ~doTrim \/ o + 2 >= Size THEN o + 2
          ELSE IF w < Size /\ Char(w) = "\n" THEN w + 1 ELSE w
  BY <1>1, <1>2, <1>3, <1>5, Zenon DEF StripBlockRight
<1>7. doTrim => trim \/ (o # 0 /\ Char(o - 1) = "-")
  BY <1>1, <1>2
<1>8. CASE ~doTrim \/ o + 2 >= Size
  <2>1. r = o + 2
    BY <1>6, <1>8
  <2> QED BY <1>0, <1>5, <2>1
<1>9. CASE doTrim /\ o + 2 < Size /\ w < Size /\ Char(w) = "\n"
  <2>1. r = w + 1
    BY <1>0, <1>6, <1>9
  <2>2. PICK v \in Int : v = w + 1
    BY <1>4
  <2>3. v \in o + 2 .. Size /\ v - 1 = w
    BY <1>0, <1>4, <1>9, <2>2
  <2>4. ASSUME NEW k \in o + 2 .. v - 1 PROVE IsSpace(Char(k)) /\ (Char(k) = "\n" => k = v - 1)
    <3>1. k = w \/ k \in o + 2 .. w - 1
      BY <1>0, <1>4, <2>3
    <3> QED BY <1>4, <1>9, <2>3, <3>1, Spaces
  <2> QED BY <1>5, <1>7, <1>9, <2>1, <2>2, <2>3, <2>4
<1>10. CASE doTrim /\ o + 2 < Size /\ ~(w < Size /\ Char(w) = "\n")
  <2>1. r = w
    BY <1>0, <1>6, <1>10
  <2> QED BY <1>4, <1>5, <1>7, <1>10, <2>1, Spaces
<1> QED BY <1>0, <1>8, <1>9, <1>10
-----------------------------------------------------------------------------
\* The text does not change, and with it nothing that is read from it alone.
LEMMA SameText ==
    ASSUME text' = text
    PROVE  /\ Size' = Size /\ IsText' = IsText
           /\ \A o : Char(o)' = Char(o) /\ MatchesAt(o)' = MatchesAt(o)
                     /\ MatchOffsets(o)' = MatchOffsets(o)
<1>1. Size' = Size /\ IsText' = IsText
  BY DEF Size, IsText
<1>2. \A o : Char(o)' = Char(o)
  BY DEF Char
<1>3. ASSUME NEW o PROVE MatchesAt(o)' = MatchesAt(o)
  <2>1. ASSUME NEW tag, NEW k, NEW e PROVE IsTag(tag, k, e)' = IsTag(tag, k, e)
    BY <1>2 DEF IsTag
  <2>2. PICK ends : ends = {e \in o + 7 .. Size : Char(e - 1) = "}"}
    OBVIOUS
  <2>3. {e \in o + 7 .. Size' : Char(e - 1)' = "}"} = ends
    BY <1>1, <1>2, <2>2
  <2>4. PICK tags : tags = {m \in [type : DOMAIN Tags, at : {o}, end : ends] : IsTag(Tags[m.type], o, m.end)}
    OBVIOUS
  <2>5. {m \in [type : DOMAIN Tags, at : {o}, end : ends] : IsTag(Tags[m.type], o, m.end)'} = tags
    BY <2>1, <2>4
  <2>6. PICK here : here = {t \in DOMAIN Pairs : o + Len(Pairs[t]) <= Size
                                     /\ SubSeq(text, o + 1, o + Len(Pairs[t])) = Pairs[t]}
    OBVIOUS
  <2>7. {t \in DOMAIN Pairs : o + Len(Pairs[t]) <= Size'
                                     /\ SubSeq(text', o + 1, o + Len(Pairs[t])) = Pairs[t]} = here
    BY <1>1, <2>6
  <2>8. PICK found : found = {[type |-> t, at |-> o, end |-> o + Len(Pairs[t])] : t \in here}
    OBVIOUS
  <2>9. MatchesAt(o) = CASE Char(o) \notin {"{", "}", "%", "#", "\n"} -> {} [] tags # {} -> tags [] OTHER -> found
    BY <2>2, <2>4, <2>6, <2>8, Zenon DEF MatchesAt
  <2>10. MatchesAt(o)' = CASE Char(o)' \notin {"{", "}", "%", "#", "\n"} -> {} [] tags # {} -> tags [] OTHER -> found
    BY <2>3, <2>5, <2>7, <2>8, Zenon DEF MatchesAt
  <2> QED BY <1>2, <2>9, <2>10
<1>4. ASSUME NEW o PROVE MatchOffsets(o)' = MatchOffsets(o)
  BY <1>1, <1>3 DEF MatchOffsets
<1> QED BY <1>1, <1>2, <1>3, <1>4
-----------------------------------------------------------------------------
(* The inductive invariant. *)

\* What the blocks and lines may be.
BlockTypes == {"RawText", "LineStatement"} \cup DOMAIN Opener
Blocks == [start : Nat, end : Nat, type : BlockTypes]
Lines == [start : Nat, end : Nat, number : Nat]

Types ==
    /\ text \in Templates /\ setts \in Settings
    /\ from \in 0 .. Size
    /\ blocks \in Seq(Blocks) /\ lines \in Seq(Lines)
    /\ cur \in Blocks /\ cur.start <= Size
    /\ line \in Lines /\ line.start <= from
    /\ meta \in Nat \X Nat /\ hasMeta \in BOOLEAN
    /\ status \in {"start", "running", "done"} \cup ErrorCodes
    /\ errorAt \in Nat

IsHash(c) == c = "#"

\* Between the last match and a block that begins behind it there is what was skipped.
Gap ==
    \A k \in from .. cur.start - 1 :
        \/ IsSpace(Char(k)) /\ (Char(k) = "\n" => k = cur.start - 1)
        \/ cur.type \in DOMAIN Opener /\ Char(k) \in Signs

\* The hash behind which a line statement or a comment goes on.
Hashes ==
    /\ cur.type = "LineStatement" =>
          \E h \in cur.start .. from : h < Size /\ IsHash(Char(h))
    /\ cur.type = "Comment" => cur.start > 0 /\ IsHash(Char(cur.start - 1))

\* Only white space and signs lie from o to e.
Skipped(o, e) == \A k \in o .. e - 1 : IsSpace(Char(k)) \/ Char(k) \in Signs
\* Before start there is an opener of this type of block.
Opened(type, start) ==
    \E k \in 0 .. start : \E m \in MatchesAt(k) :
        m.type = Opener[type] /\ m.end <= start /\ Skipped(m.end, start)
\* From start to end there is no closer of this type that counts.
NotClosed(type, start, end) ==
    \A k \in start .. end - 1 : \A m \in MatchesAt(k) :
        m.type # Closer[type] \/ Char(k - 1) = "'" \/ MatchesAt(k - 1) # {}

\* Before the first match nothing has been cut.
StartInv ==
    status = "start" =>
        /\ from = 0 /\ cur.start = 0 /\ cur.type = "RawText" /\ blocks = <<>>
        /\ lines = <<>> /\ line.start = 0 /\ line.number = 0 /\ ~hasMeta

\* While the parser runs the current block is open, and behind the last one.
CurInv ==
    status = "running" =>
        /\ Gap /\ Hashes
        /\ cur.type \in DOMAIN Opener =>
              Opened(cur.type, cur.start) /\ NotClosed(cur.type, cur.start, from)
        /\ blocks # <<>> => blocks[Len(blocks)].end <= cur.start

Inv == Types /\ StartInv /\ CurInv

\* Offset o is in a block, or is what may be lost.
Excused(o) ==
    \/ InBlock(o)
    \/ InDelimiter(o)
    \/ Char(o) \in Signs /\ (InDelimiter(o - 1) \/ InDelimiter(o + 1))
    \/ IsSpace(Char(o)) /\ MayStrip
    \/ EndsLineStatement(o)
\* Everything before the current block is in a block or may be lost.
Covered == status = "running" => \A o \in 0 .. cur.start - 1 : Excused(o)

\* There is no new line from o to e.
NoNewLine(o, e) == \A k \in o .. e - 1 : Char(k) # "\n"
\* A line begins at offset s, and there are n before it.
Begins(s, n) == (s = 0 \/ Char(s - 1) = "\n") /\ Cardinality(LinesBefore(s)) = n
\* Some line has offset o.
OnALine(o) == \E i \in DOMAIN lines : lines[i].start <= o /\ o < lines[i].end

\* The lines are those of the template, in their order.
LinesAre ==
    \A i \in DOMAIN lines :
        /\ lines[i].number = i - 1 /\ lines[i].start <= lines[i].end
        /\ Begins(lines[i].start, i - 1) /\ NoNewLine(lines[i].start, lines[i].end)
\* The line that has begun, and that the lines before it have all the offsets before it.
LineIs ==
    status \in {"start", "running"} =>
        /\ line.number = Len(lines)
        /\ Begins(line.start, line.number) /\ NoNewLine(line.start, from)
        /\ \A o \in 0 .. line.start - 1 : Char(o) = "\n" \/ OnALine(o)
\* In the end the lines have all offsets but those of the new lines.
AllOnLines == status = "done" => \A o \in 0 .. Size - 1 : Char(o) = "\n" \/ OnALine(o)
\* A line has the place of the error, or the last one ends there.
ErrorOnLine ==
    status \in ErrorCodes =>
        OnALine(errorAt) \/ (lines # <<>> /\ errorAt = lines[Len(lines)].end)
\* The place of the meta block is that of its tag.
MetaPlace ==
    cur.type = "MetaBlock" \/ hasMeta =>
        \E k \in 0 .. Size - 1 : \E m \in MatchesAt(k) :
            m.type = "MetaBegin" /\ meta = TruePos(k)

AllLines == LinesAre /\ LineIs /\ AllOnLines /\ ErrorOnLine /\ MetaPlace
LineInv == TagsOnOneLine => AllLines
-----------------------------------------------------------------------------
(* The kinds of step. *)

\* A delimiter is handled; perhaps nothing but the iterator moves (Passed).
Handled == status = "running" /\ MatchOffsets(from) # {} /\ Match.type # "NewLine"
Passed == Handled /\ Pass /\ NoError /\ SameLine

\* It is of no meaning in the current block.
Ignored ==
    /\ Passed /\ SameMeta /\ UNCHANGED <<blocks, cur>>
    /\ cur.type \in DOMAIN Opener => Match.type # Closer[cur.type] \/ Char(Match.at - 1) = "'"
    /\ cur.type \in {"Expression", "Statement"} => Match.type \notin TagTypes

\* The delimiter of raw and meta blocks is the end of a whole tag.
InTags == cur.type \in {"RawBlock", "MetaBlock"}
EndOffset == IF InTags THEN Match.end - 2 ELSE Match.at
\* It closes the current block.
Ended ==
    /\ Passed /\ cur.type \in DOMAIN Opener /\ Match.type = Closer[cur.type]
    /\ FinishCurrentBlock(EndOffset, "RawText", Match.at)
    /\ cur' = [cur EXCEPT !.start = NextStart(cur, EndOffset, "RawText"), !.type = "RawText"]
    /\ meta' = meta /\ hasMeta' \in BOOLEAN
    /\ hasMeta' # hasMeta => cur.type = "MetaBlock"

\* It opens a block.
Began(type) ==
    /\ Passed /\ cur.type = "RawText" /\ Match.type = Opener[type]
    /\ \/ /\ type = "Comment"
          /\ FinishCurrentBlock(Match.at, "Comment", Match.at)
          /\ cur' = [cur EXCEPT !.start = Match.end, !.type = "Comment"]
       \/ type # "Comment" /\ StartControlBlock(type, Match.end)
    /\ hasMeta' = hasMeta
    /\ meta' = IF type = "MetaBlock" THEN <<line.number + 1, Match.at - line.start + 1>> ELSE meta

\* It is an error.
Failed == Handled /\ \E code \in ErrorCodes : Fail(code)

Kind == Ignored \/ Ended \/ (\E type \in DOMAIN Opener : Began(type)) \/ Failed

\* The delimiters of each type of block.
LEMMA Openers ==
    /\ DOMAIN Opener = {"Expression", "Statement", "Comment", "RawBlock", "MetaBlock"}
    /\ DOMAIN Closer = DOMAIN Opener
    /\ Opener["Expression"] = "ExprBegin" /\ Opener["Statement"] = "StmtBegin"
    /\ Opener["Comment"] = "CommentBegin" /\ Opener["RawBlock"] = "RawBegin"
    /\ Opener["MetaBlock"] = "MetaBegin"
    /\ Closer["Expression"] = "ExprEnd" /\ Closer["Statement"] = "StmtEnd"
    /\ Closer["Comment"] = "CommentEnd" /\ Closer["RawBlock"] = "RawEnd"
    /\ Closer["MetaBlock"] = "MetaEnd"
BY DEF Opener, Closer

\* The handlers of comments.
LEMMA CommentKinds ==
    ASSUME Types, CommentBegin \/ CommentEnd
    PROVE  Kind
<1>1. cur.type \in BlockTypes
  BY DEF Types, Blocks
<1>2. CASE CommentBegin
  <2>1. Handled /\ Match.type = "CommentBegin"
    BY <1>2 DEF CommentBegin, On, Handled
  <2>2. CASE cur.type = "RawBlock"
    <3>1. Ignore
      BY <1>2, <2>2 DEF CommentBegin
    <3> QED BY <2>1, <2>2, <3>1, Openers DEF Kind, Ignored, Passed, Ignore, TagTypes
  <2>3. CASE cur.type = "RawText"
    <3>1. /\ FinishCurrentBlock(Match.at, "Comment", Match.at)
          /\ cur' = [cur EXCEPT !.start = Match.end, !.type = "Comment"]
          /\ Pass /\ NoError /\ SameLine /\ SameMeta
      BY <1>2, <2>3 DEF CommentBegin
    <3>2. Began("Comment")
      BY <2>1, <2>3, <3>1, Openers DEF Began, Passed, SameMeta
    <3> QED BY <3>2, Openers DEF Kind
  <2>4. CASE cur.type \notin {"RawBlock", "RawText"}
    <3>1. Fail("UnexpectedCommentBegin")
      BY <1>2, <2>4 DEF CommentBegin
    <3> QED BY <2>1, <3>1 DEF Kind, Failed, ErrorCodes
  <2> QED BY <2>2, <2>3, <2>4
<1>3. CASE CommentEnd
  <2>1. Handled /\ Match.type = "CommentEnd"
    BY <1>3 DEF CommentEnd, On, Handled
  <2>2. CASE cur.type = "RawBlock"
    <3>1. Ignore
      BY <1>3, <2>2 DEF CommentEnd
    <3> QED BY <2>1, <2>2, <3>1, Openers DEF Kind, Ignored, Passed, Ignore, TagTypes
  <2>3. CASE cur.type = "Comment"
    <3>1. EndBlock(Match.at) /\ SameMeta
      BY <1>3, <2>3 DEF CommentEnd
    <3>2. EndOffset = Match.at
      BY <2>3 DEF EndOffset, InTags
    <3> QED BY <2>1, <2>3, <3>1, <3>2, Openers DEF Kind, Ended, Passed, EndBlock, SameMeta, Types
  <2>4. CASE cur.type \notin {"RawBlock", "Comment"}
    <3>1. Fail("UnexpectedCommentEnd")
      BY <1>3, <2>4 DEF CommentEnd
    <3> QED BY <2>1, <3>1 DEF Kind, Failed, ErrorCodes
  <2> QED BY <2>2, <2>3, <2>4
<1> QED BY <1>2, <1>3

\* The handlers that begin an expression, a statement or a raw block.
LEMMA BeginControlKind ==
    ASSUME Types, Handled, NEW type \in {"Expression", "Statement", "RawBlock"},
           Match.type = Opener[type], BeginControl(type),
           cur.type \in {"Expression", "Statement"} => type # "RawBlock"
    PROVE  Kind
<1>1. Passed /\ SameMeta /\ StartControlBlock(type, Match.end)
  BY DEF BeginControl, Passed
<1>2. CASE cur.type = "RawText"
  <2>1. Began(type)
    BY <1>1, <1>2 DEF Began, SameMeta
  <2> QED BY <2>1, Openers DEF Kind
<1>3. CASE cur.type # "RawText"
  <2>1. UNCHANGED <<blocks, cur>>
    BY <1>1, <1>3 DEF StartControlBlock
  <2>2. Match.type \in {"ExprBegin", "StmtBegin", "RawBegin"} /\ (Match.type = "RawBegin" => type = "RawBlock")
    BY Openers
  <2> QED BY <1>1, <2>1, <2>2, Openers DEF Kind, Ignored, TagTypes
<1> QED BY <1>2, <1>3

\* The handlers that end an expression or a statement.
LEMMA EndControlKind ==
    ASSUME Types, Handled, NEW type \in {"Expression", "Statement"}, NEW code \in ErrorCodes,
           Match.type = Closer[type], EndControl(type, code)
    PROVE  Kind
<1>1. CASE cur.type = "RawText"
  <2>1. Fail(code)
    BY <1>1 DEF EndControl
  <2> QED BY <2>1 DEF Kind, Failed
<1>2. CASE cur.type = type /\ Char(Match.at - 1) # "'"
  <2>1. EndBlock(Match.at) /\ SameMeta
    BY <1>2 DEF EndControl
  <2>2. EndOffset = Match.at
    BY <1>2 DEF EndOffset, InTags
  <2> QED BY <1>2, <2>1, <2>2, Openers DEF Kind, Ended, Passed, EndBlock, SameMeta, Types
<1>3. CASE cur.type # "RawText" /\ ~(cur.type = type /\ Char(Match.at - 1) # "'")
  <2>1. Ignore
    BY <1>3 DEF EndControl
  <2> QED BY <1>3, <2>1, Openers DEF Kind, Ignored, Passed, Ignore, TagTypes
<1> QED BY <1>1, <1>2, <1>3

\* The handlers of expressions and statements.
LEMMA ControlKinds ==
    ASSUME Types, ExprBegin \/ ExprEnd \/ StmtBegin \/ StmtEnd
    PROVE  Kind
<1>1. CASE ExprBegin
  <2>1. Handled /\ Match.type = "ExprBegin" /\ BeginControl("Expression")
    BY <1>1 DEF ExprBegin, On, Handled
  <2> QED BY <2>1, BeginControlKind, Openers
<1>2. CASE ExprEnd
  <2>1. Handled /\ Match.type = "ExprEnd" /\ EndControl("Expression", "UnexpectedExprEnd")
    BY <1>2 DEF ExprEnd, On, Handled
  <2> QED BY <2>1, EndControlKind, Openers DEF ErrorCodes
<1>3. CASE StmtBegin
  <2>1. Handled /\ Match.type = "StmtBegin" /\ BeginControl("Statement")
    BY <1>3 DEF StmtBegin, On, Handled
  <2> QED BY <2>1, BeginControlKind, Openers
<1>4. CASE StmtEnd
  <2>1. Handled /\ Match.type = "StmtEnd" /\ EndControl("Statement", "UnexpectedStmtEnd")
    BY <1>4 DEF StmtEnd, On, Handled
  <2> QED BY <2>1, EndControlKind, Openers DEF ErrorCodes
<1> QED BY <1>1, <1>2, <1>3, <1>4

\* The handlers of raw blocks.
LEMMA RawKinds ==
    ASSUME Types, RawBegin \/ RawEnd
    PROVE  Kind
<1>1. CASE RawBegin
  <2>1. Handled /\ Match.type = "RawBegin"
    BY <1>1 DEF RawBegin, On, Handled
  <2>2. CASE cur.type \in {"RawBlock", "Comment"}
    <3>1. Ignore
      BY <1>1, <2>2 DEF RawBegin
    <3> QED BY <2>1, <2>2, <3>1, Openers DEF Kind, Ignored, Passed, Ignore, TagTypes
  <2>3. CASE cur.type = "RawText"
    <3>1. BeginControl("RawBlock")
      BY <1>1, <2>3 DEF RawBegin
    <3> QED BY <2>1, <2>3, <3>1, BeginControlKind, Openers
  <2>4. CASE cur.type \notin {"RawBlock", "Comment", "RawText"}
    <3>1. Fail("UnexpectedRawBegin")
      BY <1>1, <2>4 DEF RawBegin
    <3> QED BY <2>1, <3>1 DEF Kind, Failed, ErrorCodes
  <2> QED BY <2>2, <2>3, <2>4
<1>2. CASE RawEnd
  <2>1. Handled /\ Match.type = "RawEnd"
    BY <1>2 DEF RawEnd, On, Handled
  <2>2. CASE cur.type = "Comment"
    <3>1. Ignore
      BY <1>2, <2>2 DEF RawEnd
    <3> QED BY <2>1, <2>2, <3>1, Openers DEF Kind, Ignored, Passed, Ignore, TagTypes
  <2>3. CASE cur.type = "RawBlock"
    <3>1. EndBlock(Match.end - 2) /\ SameMeta
      BY <1>2, <2>3 DEF RawEnd
    <3>2. EndOffset = Match.end - 2
      BY <2>3 DEF EndOffset, InTags
    <3> QED BY <2>1, <2>3, <3>1, <3>2, Openers DEF Kind, Ended, Passed, EndBlock, SameMeta, Types
  <2>4. CASE cur.type \notin {"Comment", "RawBlock"}
    <3>1. Fail("UnexpectedRawEnd")
      BY <1>2, <2>4 DEF RawEnd
    <3> QED BY <2>1, <3>1 DEF Kind, Failed, ErrorCodes
  <2> QED BY <2>2, <2>3, <2>4
<1> QED BY <1>1, <1>2

\* The handlers of the meta block.
LEMMA MetaKinds ==
    ASSUME Types, MetaBegin \/ MetaEnd
    PROVE  Kind
<1>1. CASE MetaBegin
  <2>1. Handled /\ Match.type = "MetaBegin"
    BY <1>1 DEF MetaBegin, On, Handled
  <2>2. CASE cur.type = "Comment"
    <3>1. Ignore
      BY <1>1, <2>2 DEF MetaBegin
    <3> QED BY <2>1, <2>2, <3>1, Openers DEF Kind, Ignored, Passed, Ignore, TagTypes
  <2>3. CASE cur.type = "RawText" /\ ~hasMeta
    <3>1. /\ StartControlBlock("MetaBlock", Match.end)
          /\ meta' = <<line.number + 1, Match.at - line.start + 1>>
          /\ Pass /\ NoError /\ SameLine /\ UNCHANGED hasMeta
      BY <1>1, <2>3 DEF MetaBegin
    <3>2. Began("MetaBlock")
      BY <2>1, <2>3, <3>1, Openers DEF Began, Passed
    <3> QED BY <3>2, Openers DEF Kind
  <2>4. CASE cur.type # "Comment" /\ ~(cur.type = "RawText" /\ ~hasMeta)
    <3>1. Fail("UnexpectedMetaBegin")
      BY <1>1, <2>4 DEF MetaBegin
    <3> QED BY <2>1, <3>1 DEF Kind, Failed, ErrorCodes
  <2> QED BY <2>2, <2>3, <2>4
<1>2. CASE MetaEnd
  <2>1. Handled /\ Match.type = "MetaEnd"
    BY <1>2 DEF MetaEnd, On, Handled
  <2>2. CASE cur.type = "Comment"
    <3>1. Ignore
      BY <1>2, <2>2 DEF MetaEnd
    <3> QED BY <2>1, <2>2, <3>1, Openers DEF Kind, Ignored, Passed, Ignore, TagTypes
  <2>3. CASE cur.type = "MetaBlock"
    <3>1. EndBlock(Match.end - 2) /\ hasMeta' = TRUE /\ UNCHANGED meta
      BY <1>2, <2>3 DEF MetaEnd
    <3>2. EndOffset = Match.end - 2
      BY <2>3 DEF EndOffset, InTags
    <3> QED BY <2>1, <2>3, <3>1, <3>2, Openers DEF Kind, Ended, Passed, EndBlock
  <2>4. CASE cur.type \notin {"Comment", "MetaBlock"}
    <3>1. Fail("UnexpectedMetaEnd")
      BY <1>2, <2>4 DEF MetaEnd
    <3> QED BY <2>1, <3>1 DEF Kind, Failed, ErrorCodes
  <2> QED BY <2>2, <2>3, <2>4
<1> QED BY <1>1, <1>2

\* Every step is of one of these kinds, or one that has no delimiter to handle.
LEMMA Kinds ==
    ASSUME Types, Next
    PROVE  Kind \/ OneBlock \/ Begin \/ NewLine \/ Finish
BY CommentKinds, ControlKinds, RawKinds, MetaKinds DEF Next
-----------------------------------------------------------------------------
(* What the steps do to the blocks. *)

\* What the types say of the state, in the form the proofs below need.
LEMMA State ==
    ASSUME Types
    PROVE  /\ IsText /\ Size \in Nat /\ from \in Nat /\ from <= Size
           /\ cur.start \in Nat /\ cur.start <= Size /\ cur.type \in BlockTypes
           /\ setts.trimBlocks \in BOOLEAN /\ setts.lstripBlocks \in BOOLEAN
           /\ line.start \in Nat /\ line.end \in Nat /\ line.number \in Nat /\ line.start <= from
<1>1. IsText
  BY RoughAssumption DEF Types, IsText
<1>2. Size \in Nat
  BY <1>1, TextFacts
<1>3. setts.trimBlocks \in BOOLEAN /\ setts.lstripBlocks \in BOOLEAN
  BY RoughAssumption DEF Types
<1> QED BY <1>1, <1>2, <1>3 DEF Types, Blocks, Lines

\* Delimiters and hashes are neither white space nor signs.
LEMMA Chars ==
    /\ \A c \in Delimiters : ~IsSpace(c) /\ c \notin Signs /\ c # "\n"
    /\ \A c : IsHash(c) => c \notin Signs /\ ~IsSpace(c) /\ c # "\n"
BY DEF Delimiters, IsSpace, Signs, IsHash

\* The next match, and that the current block begins before it.
LEMMA AtMatch ==
    ASSUME Types, CurInv, Handled
    PROVE  \E p \in from .. Size - 1, e \in Nat :
              /\ Match \in MatchesAt(p) /\ MatchIs(p, Match)
              /\ Match.at = p /\ Match.end = e /\ p < e /\ e <= Size
              /\ \A j \in from .. p - 1 : MatchesAt(j) = {}
              /\ cur.start <= p /\ Char(p) \in Delimiters
              /\ Match.type \in PairTypes => e = p + 2
              /\ Match.type \in TagTypes => e >= p + 7
<1>0. IsText /\ Size \in Nat /\ from \in 0 .. Size /\ cur.start \in Nat
  BY State
<1>1. PICK p \in from .. Size - 1 :
         /\ Match \in MatchesAt(p) /\ MatchIs(p, Match)
         /\ \A j \in from .. p - 1 : MatchesAt(j) = {}
  BY <1>0, NextMatch DEF Handled
<1>2. p \in Nat /\ p < Size
  BY <1>0, <1>1
<1>3. Match.at = p /\ Match.end \in Nat /\ p < Match.end /\ Match.end <= Size
  BY <1>1 DEF MatchIs
<1>4. Match.type # "NewLine"
  BY DEF Handled
<1>5. Char(p) \in Delimiters
  <2>1. Char(p) \in Delimiters \union {"\n"}
    BY <1>0, <1>1, <1>2, Matches
  <2>2. Char(p) # "\n"
    BY <1>0, <1>1, <1>2, <1>4, NewLineMatches
  <2> QED BY <2>1, <2>2
<1>6. cur.start <= p
  <2> SUFFICES ASSUME p < cur.start PROVE FALSE
    BY <1>0, <1>2
  <2>1. p \in from .. cur.start - 1
    BY <1>0, <1>1
  <2>2. IsSpace(Char(p)) \/ Char(p) \in Signs
    BY <2>1 DEF CurInv, Gap, Handled
  <2> QED BY <1>5, <2>2, Chars
<1>7. /\ Match.type \in PairTypes => Match.end = p + 2
      /\ Match.type \in TagTypes => Match.end >= p + 7
  BY <1>1 DEF MatchIs, PairTypes, TagTypes, InTag
<1> QED BY <1>1, <1>3, <1>5, <1>6, <1>7

\* Each reason to strip is one of those MayStrip names.
LEMMA Strips ==
    /\ setts.trimBlocks => MayStrip
    /\ setts.lstripBlocks => MayStrip
    /\ \A o \in 0 .. Size - 1 : Char(o) = "-" => MayStrip
BY DEF MayStrip

\* From a to b there is white space that may be stripped.
Spare(a, b) == \A k \in a .. b - 1 : IsSpace(Char(k)) /\ MayStrip
\* There is no new line from a to b, but perhaps at the end.
LastNewLine(a, b) == \A k \in a .. b - 1 : Char(k) = "\n" => k = b - 1

\* White space control before and behind a delimiter.
LEMMA LeftSpare ==
    ASSUME Types, NEW e \in 0 .. Size, cur.start <= e, NEW signAt \in Nat, NEW doStrip \in BOOLEAN,
           doStrip => setts.lstripBlocks
    PROVE  \E w \in cur.start .. e :
              StripBlockLeft(cur, signAt, e, doStrip) = w /\ Spare(w, e)
<1>0. IsText /\ cur.start \in Nat
  BY State
<1>1. PICK w \in 0 .. e :
         /\ StripBlockLeft(cur, signAt, e, doStrip) = w
         /\ cur.start <= e => cur.start <= w
         /\ \A k \in w .. e - 1 : IsSpace(Char(k))
         /\ w = e \/ (doStrip \/ (signAt < Size /\ Char(signAt) = "-"))
  BY <1>0, StripLeft
<1>2. w = e \/ MayStrip
  BY <1>1, State, Strips
<1>3. w \in cur.start .. e
  BY <1>1, State
<1>4. Spare(w, e)
  BY <1>1, <1>2, State DEF Spare
<1> QED BY <1>1, <1>3, <1>4

\* What NextStart skips is white space that may be stripped, with a new line at its end only.
LEMMA RightSpare ==
    ASSUME Types, NEW type, NEW o \in Nat, o + 2 <= Size, NEW trim \in BOOLEAN,
           trim => setts.trimBlocks
    PROVE  \E w \in o + 2 .. Size :
              StripBlockRight(type, o, trim) = w /\ Spare(o + 2, w) /\ LastNewLine(o + 2, w)
<1>1. PICK w \in o + 2 .. Size :
         /\ StripBlockRight(type, o, trim) = w
         /\ \A k \in o + 2 .. w - 1 : IsSpace(Char(k)) /\ (Char(k) = "\n" => k = w - 1)
         /\ w = o + 2 \/ trim \/ (o # 0 /\ Char(o - 1) = "-")
  BY State, StripRight
<1>2. w = o + 2 \/ MayStrip
  BY <1>1, State, Strips
<1>3. Spare(o + 2, w)
  BY <1>1, <1>2, State DEF Spare
<1>4. LastNewLine(o + 2, w)
  BY <1>1 DEF LastNewLine
<1> QED BY <1>1, <1>3, <1>4

\* The block that ends at a delimiter at p, when it is neither text nor a raw or meta block.
LEMMA PlainEnd ==
    ASSUME Types, Hashes, NEW p \in 0 .. Size, cur.start <= p,
           cur.type \notin {"RawText", "RawBlock", "MetaBlock"},
           cur.type = "LineStatement" => \E h \in cur.start .. p - 1 : IsHash(Char(h)),
           NEW next, NEW tagAt
    PROVE  \E e \in 0 .. p :
              /\ BlockEnd(cur, p, next, tagAt) = e
              /\ e = p \/ (e = p - 1 /\ Char(e) \in Signs)
              /\ \/ cur.start <= e
                 \/ cur.type \in {"Expression", "Statement"} /\ cur.start = e + 1 /\ Char(e) \in Signs
<1>0. Size \in Nat /\ cur.start \in Nat /\ cur.type \in BlockTypes
  BY State
<1>1. BlockEnd(cur, p, next, tagAt) = IF p # 0 /\ Char(p - 1) \in Signs THEN p - 1 ELSE p
  BY DEF BlockEnd
<1>2. CASE ~(p # 0 /\ Char(p - 1) \in Signs)
  BY <1>0, <1>1, <1>2
<1>3. CASE p # 0 /\ Char(p - 1) \in Signs
  <2>1. PICK e \in 0 .. p : e = p - 1
    BY <1>0, <1>3
  <2>2. BlockEnd(cur, p, next, tagAt) = e /\ Char(e) \in Signs
    BY <1>1, <1>3, <2>1
  <2>3. CASE cur.type = "LineStatement"
    <3>1. PICK h \in cur.start .. p - 1 : IsHash(Char(h))
      BY <2>3
    <3>2. cur.start <= e
      BY <1>0, <2>1, <3>1
    <3> QED BY <2>1, <2>2, <3>2
  <2>4. CASE cur.type = "Comment"
    <3>1. cur.start > 0 /\ IsHash(Char(cur.start - 1))
      BY <2>4 DEF Hashes
    <3>2. cur.start # p
      BY <2>1, <2>2, <3>1, Chars
    <3>3. cur.start <= e
      BY <1>0, <2>1, <3>2
    <3> QED BY <2>1, <2>2, <3>3
  <2>5. CASE cur.type \in {"Expression", "Statement"}
    <3>1. cur.start <= e \/ cur.start = e + 1
      BY <1>0, <2>1
    <3> QED BY <2>1, <2>2, <2>5, <3>1
  <2> QED BY <1>0, <2>3, <2>4, <2>5, Openers DEF BlockTypes
<1> QED BY <1>2, <1>3

\* The block [cur.start, e) ends before the delimiter at p, and raw text begins at s behind it.
EndsAt(p, e, s) ==
    /\ blocks' = Append(blocks, [cur EXCEPT !.end = e])
    /\ cur' = [cur EXCEPT !.start = s, !.type = "RawText"]
    /\ \/ cur.start <= e
       \/ cur.type \in {"Expression", "Statement"} /\ cur.start = e + 1 /\ Char(e) \in Signs
    /\ Spare(e, p) \/ (e = p - 1 /\ Char(e) \in Signs)

\* A block that ends: where it ends, and where the raw text behind it begins.
LEMMA EndedFacts ==
    ASSUME Types, CurInv, Ended
    PROVE  \E e \in 0 .. Match.at, s \in Match.end .. Size :
              /\ EndsAt(Match.at, e, s)
              /\ Spare(Match.end, s) /\ LastNewLine(Match.end, s)
<1>0. Size \in Nat /\ from \in Nat /\ cur.start \in Nat /\ setts.trimBlocks \in BOOLEAN
      /\ setts.lstripBlocks \in BOOLEAN
  BY State
<1>1. Handled /\ Hashes /\ cur.type \in DOMAIN Opener
  BY DEF Ended, Passed, Handled, CurInv
<1>2. PICK p \in from .. Size - 1, d \in Nat :
              /\ MatchIs(p, Match)
              /\ Match.at = p /\ Match.end = d /\ p < d /\ d <= Size
              /\ cur.start <= p
              /\ Match.type \in PairTypes => d = p + 2
              /\ Match.type \in TagTypes => d >= p + 7
  BY <1>1, AtMatch
<1>3. PICK o \in Nat : o = EndOffset /\ o + 2 = d
  <2>1. CASE InTags
    <3>1. Match.type \in TagTypes
      BY <2>1, Openers DEF Ended, InTags, TagTypes
    <3> QED BY <1>0, <1>2, <2>1, <3>1 DEF EndOffset
  <2>2. CASE ~InTags
    <3>1. Match.type \in PairTypes
      BY <1>1, <2>2, Openers DEF Ended, InTags, PairTypes
    <3> QED BY <1>0, <1>2, <2>2, <3>1 DEF EndOffset
  <2> QED BY <2>1, <2>2
<1>4. PICK trim \in BOOLEAN : trim = (cur.type # "Expression" /\ setts.trimBlocks)
  OBVIOUS
<1>5. PICK s \in o + 2 .. Size :
         StripBlockRight(cur.type, o, trim) = s /\ Spare(o + 2, s) /\ LastNewLine(o + 2, s)
  BY <1>2, <1>3, <1>4, RightSpare
<1>6. NextStart(cur, o, "RawText") = s
  <2>1. cur.type # "RawText"
    BY <1>1, Openers
  <2> QED BY <1>4, <1>5, <2>1 DEF NextStart
<1>7. PICK e \in 0 .. p :
         /\ BlockEnd(cur, o, "RawText", p) = e
         /\ Spare(e, p) \/ (e = p - 1 /\ Char(e) \in Signs)
         /\ \/ cur.start <= e
            \/ cur.type \in {"Expression", "Statement"} /\ cur.start = e + 1 /\ Char(e) \in Signs
  <2>1. CASE InTags
    <3>1. p + 2 \in Nat /\ p \in 0 .. Size
      BY <1>0, <1>2
    <3>2. PICK e \in cur.start .. p :
             StripBlockLeft(cur, p + 2, p, setts.lstripBlocks) = e /\ Spare(e, p)
      BY <1>0, <1>2, <3>1, LeftSpare
    <3>3. BlockEnd(cur, o, "RawText", p) = e
      BY <2>1, <3>2 DEF BlockEnd, InTags
    <3> QED BY <1>0, <1>2, <3>2, <3>3
  <2>2. CASE ~InTags
    <3>1. o = p /\ p \in 0 .. Size
      BY <1>0, <1>2, <1>3, <2>2 DEF EndOffset
    <3>2. cur.type \notin {"RawText", "RawBlock", "MetaBlock"} /\ cur.type # "LineStatement"
      BY <1>1, <2>2, Openers DEF InTags
    <3>3. PICK e \in 0 .. p :
              /\ BlockEnd(cur, p, "RawText", p) = e
              /\ e = p \/ (e = p - 1 /\ Char(e) \in Signs)
              /\ \/ cur.start <= e
                 \/ cur.type \in {"Expression", "Statement"} /\ cur.start = e + 1 /\ Char(e) \in Signs
      BY <1>1, <1>2, <3>1, <3>2, PlainEnd
    <3>4. e = p => Spare(e, p)
      BY <1>0, <1>2 DEF Spare
    <3> QED BY <3>1, <3>3, <3>4
  <2> QED BY <2>1, <2>2
<1>8. /\ blocks' = Append(blocks, [cur EXCEPT !.end = e])
      /\ cur' = [cur EXCEPT !.start = s, !.type = "RawText"]
  BY <1>2, <1>3, <1>6, <1>7 DEF Ended, FinishCurrentBlock
<1>9. EndsAt(p, e, s)
  BY <1>7, <1>8 DEF EndsAt
<1>10. s \in d .. Size /\ Spare(d, s) /\ LastNewLine(d, s)
  BY <1>3, <1>5
<1> QED BY <1>2, <1>7, <1>9, <1>10

\* What begins behind the opener: a sign, then what is skipped.
BeginsAt(type, d, s) ==
    /\ cur' = [cur EXCEPT !.start = s, !.type = type]
    /\ \A k \in d .. s - 1 : (k = d /\ Char(k) \in Signs) \/ (IsSpace(Char(k)) /\ MayStrip)
    /\ LastNewLine(d, s)
    /\ type = "Comment" => s = d

\* A block that begins: where the raw text before it ends, and where it begins itself.
LEMMA BeganFacts ==
    ASSUME Types, CurInv, NEW type \in DOMAIN Opener, Began(type)
    PROVE  \E e \in cur.start .. Match.at, s \in Match.end .. Size :
              /\ blocks' = Append(blocks, [cur EXCEPT !.end = e])
              /\ Spare(e, Match.at)
              /\ BeginsAt(type, Match.end, s)
<1>0. Size \in Nat /\ from \in Nat /\ cur.start \in Nat /\ setts.trimBlocks \in BOOLEAN
      /\ setts.lstripBlocks \in BOOLEAN
  BY State
<1>1. Handled /\ cur.type = "RawText"
  BY DEF Began, Passed
<1>2. PICK p \in from .. Size - 1, d \in Nat :
              /\ MatchIs(p, Match)
              /\ Match.at = p /\ Match.end = d /\ p < d /\ d <= Size
              /\ cur.start <= p
              /\ Match.type \in PairTypes => d = p + 2
              /\ Match.type \in TagTypes => d >= p + 7
  BY <1>1, AtMatch
<1>3. p \in 0 .. Size /\ p \in Nat /\ d >= p + 2
  <2>1. Match.type \in PairTypes \union TagTypes
    BY Openers DEF Began, PairTypes, TagTypes
  <2> QED BY <1>0, <1>2, <2>1
<1>4. CASE type = "Comment"
  <2>1. PICK e \in cur.start .. p :
           StripBlockLeft(cur, p + 2, p, LStrip("Comment")) = e /\ Spare(e, p)
    <3>1. LStrip("Comment") \in BOOLEAN /\ (LStrip("Comment") => setts.lstripBlocks) /\ p + 2 \in Nat
      BY <1>0, <1>3 DEF LStrip
    <3> QED BY <1>2, <1>3, <3>1, LeftSpare
  <2>2. BlockEnd(cur, p, "Comment", p) = e
    BY <1>1, <2>1 DEF BlockEnd
  <2>3. /\ blocks' = Append(blocks, [cur EXCEPT !.end = e])
        /\ cur' = [cur EXCEPT !.start = d, !.type = "Comment"]
    BY <1>2, <1>4, <2>2 DEF Began, FinishCurrentBlock
  <2>4. BeginsAt(type, d, d)
    BY <1>4, <2>3 DEF BeginsAt, LastNewLine
  <2>5. d \in d .. Size
    BY <1>0, <1>2
  <2> QED BY <1>2, <2>1, <2>3, <2>4, <2>5
<1>5. CASE type # "Comment"
  <2>0. LStrip(type) \in BOOLEAN /\ (LStrip(type) => setts.lstripBlocks)
    BY <1>0 DEF LStrip
  <2>1. PICK w \in cur.start .. p :
           StripBlockLeft(cur, d, p, LStrip(type)) = w /\ Spare(w, p)
    BY <1>2, <1>3, <2>0, LeftSpare
  <2>2. w \in 0 .. Size /\ w + 2 \in Nat /\ cur.start <= w
    BY <1>0, <1>2, <2>1
  <2>3. PICK e \in cur.start .. w :
           StripBlockLeft(cur, w + 2, w, LStrip(type)) = e /\ Spare(e, w)
    BY <2>0, <2>2, LeftSpare
  <2>4. BlockEnd(cur, w, type, w) = e
    BY <1>1, <2>3 DEF BlockEnd
  <2>5. Spare(e, p) /\ e \in cur.start .. p
    BY <1>0, <1>2, <2>1, <2>3 DEF Spare
  <2>6. PICK signed \in BOOLEAN : signed = (d < Size /\ type # "MetaBlock" /\ Char(d) \in Signs)
    OBVIOUS
  <2>7. PICK b \in Nat : b = IF signed THEN d + 1 ELSE d
    BY <1>2
  <2>8. /\ blocks' = Append(blocks, [cur EXCEPT !.end = e])
        /\ cur' = [cur EXCEPT !.type = type,
                   !.start = IF type # "RawBlock" THEN b
                             ELSE StripBlockRight(type, b - 2, setts.trimBlocks)]
    <3>1. StartControlBlock(type, d)
      BY <1>2, <1>5 DEF Began
    <3>2. /\ FinishCurrentBlock(w, type, w)
          /\ cur' = [cur EXCEPT !.type = type,
                   !.start = IF type # "RawBlock" THEN b
                             ELSE StripBlockRight(type, b - 2, setts.trimBlocks)]
      BY <1>1, <1>2, <2>1, <2>6, <2>7, <3>1, Zenon DEF StartControlBlock
    <3> QED BY <2>4, <3>2 DEF FinishCurrentBlock
  <2>9. /\ b \in d .. Size /\ b >= 2
        /\ \A k \in d .. b - 1 : k = d /\ Char(k) \in Signs
    <3>1. CASE signed
      <4>1. b = d + 1 /\ d < Size /\ Char(d) \in Signs
        BY <2>6, <2>7, <3>1
      <4>2. b \in d .. Size /\ b >= 2
        BY <1>0, <1>2, <1>3, <4>1
      <4>3. \A k \in d .. b - 1 : k = d
        BY <4>1
      <4> QED BY <4>1, <4>2, <4>3
    <3>2. CASE ~signed
      <4>1. b = d
        BY <2>7, <3>2
      <4> QED BY <1>0, <1>2, <1>3, <4>1
    <3> QED BY <3>1, <3>2
  <2>10. \A k \in d .. b - 1 : Char(k) # "\n"
    BY <2>9 DEF Signs
  <2>11. PICK s \in b .. Size :
            /\ s = IF type # "RawBlock" THEN b ELSE StripBlockRight(type, b - 2, setts.trimBlocks)
            /\ Spare(b, s) /\ LastNewLine(b, s)
    <3>1. CASE type # "RawBlock"
      <4>1. b \in b .. Size /\ Spare(b, b) /\ LastNewLine(b, b)
        BY <1>0, <2>7, <2>9 DEF Spare, LastNewLine
      <4> QED BY <3>1, <4>1
    <3>2. CASE type = "RawBlock"
      <4>1. PICK o \in Nat : o = b - 2 /\ o + 2 = b
        BY <2>7, <2>9
      <4>2. PICK s \in o + 2 .. Size :
               StripBlockRight(type, o, setts.trimBlocks) = s /\ Spare(o + 2, s) /\ LastNewLine(o + 2, s)
        <5>1. o + 2 <= Size
          BY <1>0, <2>9, <4>1
        <5> QED BY <1>0, <5>1, RightSpare
      <4> QED BY <3>2, <4>1, <4>2
    <3> QED BY <3>1, <3>2
  <2>12. cur' = [cur EXCEPT !.start = s, !.type = type]
    BY <2>8, <2>11 DEF Types, Blocks
  <2>13. \A k \in d .. s - 1 : (k = d /\ Char(k) \in Signs) \/ (IsSpace(Char(k)) /\ MayStrip)
    <3>1. TAKE k \in d .. s - 1
    <3>2. k \in d .. b - 1 \/ k \in b .. s - 1
      BY <2>7, <2>9
    <3> QED BY <2>9, <2>11, <3>2 DEF Spare
  <2>14. LastNewLine(d, s)
    <3> SUFFICES ASSUME NEW k \in d .. s - 1, Char(k) = "\n" PROVE k = s - 1
      BY DEF LastNewLine
    <3>1. k \in d .. b - 1 \/ k \in b .. s - 1
      BY <2>7, <2>9
    <3> QED BY <2>10, <2>11, <3>1 DEF LastNewLine
  <2>15. BeginsAt(type, d, s)
    BY <1>5, <2>12, <2>13, <2>14 DEF BeginsAt
  <2>16. s \in d .. Size
    BY <1>0, <1>2, <2>9, <2>11
  <2> QED BY <1>2, <2>5, <2>8, <2>15, <2>16
<1> QED BY <1>4, <1>5

\* The next match, if it is a new line.
LEMMA AtNewLine ==
    ASSUME Types, CurInv, On("NewLine")
    PROVE  \E p \in from .. Size - 1 :
              /\ Match \in MatchesAt(p) /\ Match.at = p /\ Match.end = p + 1 /\ Char(p) = "\n"
              /\ \A j \in from .. p - 1 : MatchesAt(j) = {}
              /\ cur.start <= p + 1
<1>0. IsText /\ Size \in Nat /\ from \in 0 .. Size /\ cur.start \in Nat
  BY State
<1>1. status = "running" /\ MatchOffsets(from) # {} /\ Match.type = "NewLine"
  BY DEF On
<1>2. PICK p \in from .. Size - 1 :
         /\ Match \in MatchesAt(p) /\ MatchIs(p, Match)
         /\ \A j \in from .. p - 1 : MatchesAt(j) = {}
  BY <1>0, <1>1, NextMatch
<1>3. Match.at = p /\ Match.end = p + 1 /\ Char(p) = "\n"
  BY <1>1, <1>2 DEF MatchIs, PairTypes, TagTypes
<1>4. cur.start <= p + 1
  <2> SUFFICES ASSUME p + 1 < cur.start PROVE FALSE
    BY <1>0, <1>2
  <2>1. p \in from .. cur.start - 1 /\ p # cur.start - 1
    BY <1>0, <1>2
  <2>2. Char(p) \in Signs
    BY <1>1, <1>3, <2>1 DEF CurInv, Gap
  <2> QED BY <1>3, <2>2 DEF Signs
<1> QED BY <1>2, <1>3, <1>4

\* A line statement, or raw text, ends at the new line at p, or goes on.
LineEndsAt(p, type) ==
    \/ /\ cur.type = "LineStatement"
       /\ \E e \in cur.start .. p :
             /\ blocks' = Append(blocks, [cur EXCEPT !.end = e])
             /\ e = p \/ (e = p - 1 /\ Char(e) \in Signs)
       /\ cur' = [cur EXCEPT !.start = p + 1, !.type = type]
       /\ type \in {"RawText", "LineStatement"}
       /\ type = "LineStatement" => p + 1 < Size /\ IsHash(Char(p + 1))
    \/ /\ blocks' = blocks
       /\ cur' = [cur EXCEPT !.type = type]
       /\ \/ type = cur.type
          \/ /\ cur.type = "RawText" /\ type = "LineStatement"
             /\ p + 1 < Size /\ IsHash(Char(p + 1))

\* What a new line does to the current block.
LEMMA NewLineFacts ==
    ASSUME Types, CurInv, NewLine
    PROVE  \E type \in BlockTypes : LineEndsAt(Match.at, type) /\ Match.at + 1 <= Size
<1>0. Size \in Nat /\ from \in Nat /\ cur.start \in Nat /\ cur.type \in BlockTypes /\ from <= Size
  BY State
<1>1. status = "running" /\ On("NewLine")
  BY DEF NewLine, On
<1>2. PICK p \in from .. Size - 1 :
              /\ Match.at = p /\ Match.end = p + 1 /\ Char(p) = "\n"
              /\ cur.start <= p + 1
  BY <1>1, AtNewLine
<1>3. PICK q \in Nat : q = p + 1
  BY <1>0, <1>2
<1>4. PICK switches \in BOOLEAN : switches = (q < Size /\ cur.type \in {"RawText", "LineStatement"})
  OBVIOUS
<1>5. PICK type : type = IF ~switches THEN cur.type
                         ELSE IF StartsLineStatement(q) THEN "LineStatement" ELSE "RawText"
  OBVIOUS
<1>6. /\ IF switches /\ cur.type = "LineStatement"
         THEN FinishCurrentBlock(p, "RawText", p)
         ELSE UNCHANGED blocks
      /\ cur' = [cur EXCEPT
              !.start = IF switches /\ cur.type = "LineStatement" THEN q ELSE @,
              !.type = IF ~switches THEN @
                       ELSE IF StartsLineStatement(q) THEN "LineStatement" ELSE "RawText"]
  BY <1>2, <1>3, <1>4, Zenon DEF NewLine
<1>7. StartsLineStatement(q) => IsHash(Char(q))
  BY Zenon DEF StartsLineStatement, IsHash
<1>8. p \in 0 .. Size /\ p + 1 <= Size /\ type \in BlockTypes
  BY <1>0, <1>2, <1>5 DEF BlockTypes
<1>9. CASE switches /\ cur.type = "LineStatement"
  <2>1. cur' = [cur EXCEPT !.start = q, !.type = type]
    BY <1>5, <1>6, <1>9 DEF Types, Blocks
  <2>2. Hashes /\ \E h \in cur.start .. from : h < Size /\ IsHash(Char(h))
    BY <1>1, <1>9 DEF CurInv, Hashes
  <2>3. PICK h \in cur.start .. from : h < Size /\ IsHash(Char(h))
    BY <2>2
  <2>4. h # p
    BY <1>2, <2>3, Chars
  <2>5. cur.start <= p /\ h \in cur.start .. p - 1
    BY <1>0, <1>2, <2>3, <2>4
  <2>6. PICK e \in 0 .. p :
              /\ BlockEnd(cur, p, "RawText", p) = e
              /\ e = p \/ (e = p - 1 /\ Char(e) \in Signs)
              /\ \/ cur.start <= e
                 \/ cur.type \in {"Expression", "Statement"} /\ cur.start = e + 1 /\ Char(e) \in Signs
    BY <1>8, <1>9, <2>2, <2>3, <2>5, PlainEnd
  <2>7. e \in cur.start .. p
    BY <1>0, <1>9, <2>6
  <2>8. blocks' = Append(blocks, [cur EXCEPT !.end = e])
    BY <1>6, <1>9, <2>6 DEF FinishCurrentBlock
  <2>9. type \in {"RawText", "LineStatement"} /\ (type = "LineStatement" => q < Size /\ IsHash(Char(q)))
    BY <1>4, <1>5, <1>7, <1>9
  <2>10. LineEndsAt(p, type)
    BY <1>3, <1>9, <2>1, <2>6, <2>7, <2>8, <2>9 DEF LineEndsAt
  <2> QED BY <1>2, <1>8, <2>10
<1>10. CASE ~(switches /\ cur.type = "LineStatement")
  <2>1. cur' = [cur EXCEPT !.type = type]
    BY <1>5, <1>6, <1>10 DEF Types, Blocks
  <2>2. blocks' = blocks
    BY <1>6, <1>10
  <2>3. \/ type = cur.type
        \/ /\ cur.type = "RawText" /\ type = "LineStatement"
           /\ q < Size /\ IsHash(Char(q))
    BY <1>4, <1>5, <1>7, <1>10
  <2>4. LineEndsAt(p, type)
    BY <1>3, <2>1, <2>2, <2>3 DEF LineEndsAt
  <2> QED BY <1>2, <1>8, <2>4
<1> QED BY <1>9, <1>10

\* Where the last block ends.
LEMMA FinishFacts ==
    ASSUME Types, CurInv, Finish, status' = "done"
    PROVE  \E e \in 0 .. Size :
              /\ cur.type \notin {"RawBlock", "MetaBlock"}
              /\ blocks' = Append(blocks, [cur EXCEPT !.end = e])
              /\ \/ cur.start <= e
                 \/ cur.type \in {"Expression", "Statement"} /\ cur.start = e + 1 /\ Char(e) \in Signs
              /\ Spare(e, Size) \/ (e = Size - 1 /\ Char(e) \in Signs /\ cur.type # "RawText")
              /\ cur.type = "RawText" \/ e >= Size - 1
<1>0. Size \in Nat /\ from \in Nat /\ cur.start \in Nat /\ cur.type \in BlockTypes
      /\ cur.start <= Size /\ from <= Size /\ setts.lstripBlocks \in BOOLEAN
  BY State
<1>1. status = "running" /\ MatchOffsets(from) = {}
  BY DEF Finish
<1>2. cur.type \notin {"RawBlock", "MetaBlock"}
  <2>1. ASSUME cur.type \in {"RawBlock", "MetaBlock"} PROVE FALSE
    <3>1. status' = IF cur.type = "RawBlock" THEN "ExpectedRawEnd" ELSE "ExpectedMetaEnd"
      BY <2>1 DEF Finish
    <3> QED BY <3>1
  <2> QED BY <2>1
<1>3. FinishCurrentBlock(Size, "RawText", Size)
  BY <1>2 DEF Finish
<1>4. CASE cur.type = "RawText"
  <2>1. LStrip("RawText") \in BOOLEAN /\ (LStrip("RawText") => setts.lstripBlocks) /\ Size + 2 \in Nat
    BY <1>0 DEF LStrip
  <2>2. Size \in 0 .. Size
    BY <1>0
  <2>3. PICK e \in cur.start .. Size :
           StripBlockLeft(cur, Size + 2, Size, LStrip("RawText")) = e /\ Spare(e, Size)
    BY <1>0, <2>1, <2>2, LeftSpare
  <2>4. BlockEnd(cur, Size, "RawText", Size) = e
    BY <1>4, <2>3 DEF BlockEnd
  <2> QED BY <1>0, <1>3, <1>4, <2>3, <2>4 DEF FinishCurrentBlock
<1>5. CASE cur.type # "RawText"
  <2>1. Hashes
    BY <1>1 DEF CurInv
  <2>2. cur.type = "LineStatement" => \E h \in cur.start .. Size - 1 : IsHash(Char(h))
    BY <1>0, <2>1 DEF Hashes
  <2>3. Size \in 0 .. Size
    BY <1>0
  <2>4. PICK e \in 0 .. Size :
              /\ BlockEnd(cur, Size, "RawText", Size) = e
              /\ e = Size \/ (e = Size - 1 /\ Char(e) \in Signs)
              /\ \/ cur.start <= e
                 \/ cur.type \in {"Expression", "Statement"} /\ cur.start = e + 1 /\ Char(e) \in Signs
    BY <1>0, <1>2, <1>5, <2>1, <2>2, <2>3, PlainEnd
  <2>5. e = Size => Spare(e, Size)
    BY <1>0 DEF Spare
  <2> QED BY <1>0, <1>2, <1>3, <1>5, <2>4, <2>5 DEF FinishCurrentBlock
<1> QED BY <1>4, <1>5
-----------------------------------------------------------------------------
(* Types. *)

\* All kinds of step.
Step == Kind \/ OneBlock \/ Begin \/ NewLine \/ Finish

\* No step changes the template or the settings.
LEMMA SameInput ==
    ASSUME Step
    PROVE  text' = text /\ setts' = setts
<1>1. CASE Kind
  <2>1. Pass
    BY <1>1 DEF Kind, Ignored, Ended, Began, Passed, Failed, Fail
  <2> QED BY <2>1 DEF Pass
<1>2. CASE OneBlock
  BY <1>2 DEF OneBlock
<1>3. CASE Begin
  BY <1>3 DEF Begin
<1>4. CASE NewLine
  BY <1>4 DEF NewLine, Pass
<1>5. CASE Finish
  BY <1>5 DEF Finish
<1> QED BY <1>1, <1>2, <1>3, <1>4, <1>5 DEF Step

\* What Append does to a sequence.
LEMMA Appended ==
    ASSUME NEW T, NEW s \in Seq(T), NEW x \in T
    PROVE  /\ Append(s, x) \in Seq(T) /\ Len(Append(s, x)) = Len(s) + 1
           /\ Append(s, x)[Len(s) + 1] = x
           /\ \A i \in DOMAIN s : Append(s, x)[i] = s[i]
           /\ DOMAIN s = 1 .. Len(s) /\ DOMAIN Append(s, x) = 1 .. Len(s) + 1 /\ Len(s) \in Nat
BY AppendProperties, LenProperties

\* The parts of the types that the steps change.
LEMMA TypesAre ==
    ASSUME text' = text, setts' = setts, Types,
           from' \in 0 .. Size, blocks' \in Seq(Blocks), lines' \in Seq(Lines),
           cur' \in Blocks, cur'.start <= Size, line' \in Lines, line'.start <= from',
           meta' \in Nat \X Nat, hasMeta' \in BOOLEAN,
           status' \in {"start", "running", "done"} \cup ErrorCodes, errorAt' \in Nat
    PROVE  Types'
BY SameText DEF Types

\* The blocks when the current one ends at e.
LEMMA Ending ==
    ASSUME Types, NEW e \in Nat, blocks' = Append(blocks, [cur EXCEPT !.end = e])
    PROVE  /\ blocks' \in Seq(Blocks) /\ Len(blocks') = Len(blocks) + 1 /\ Len(blocks) \in Nat
           /\ blocks'[Len(blocks) + 1] = [start |-> cur.start, end |-> e, type |-> cur.type]
           /\ \A i \in DOMAIN blocks : blocks'[i] = blocks[i]
           /\ DOMAIN blocks = 1 .. Len(blocks) /\ DOMAIN blocks' = 1 .. Len(blocks) + 1
<1>1. PICK b : b = [cur EXCEPT !.end = e]
  OBVIOUS
<1>2. b \in Blocks /\ b = [start |-> cur.start, end |-> e, type |-> cur.type]
  BY <1>1 DEF Types, Blocks
<1>3. blocks \in Seq(Blocks) /\ blocks' = Append(blocks, b)
  BY <1>1 DEF Types
<1> QED BY <1>2, <1>3, Appended

\* The lines when the current one ends at e.
LEMMA LineEnding ==
    ASSUME Types, NEW e \in Nat, FinishCurrentLine(e)
    PROVE  /\ lines' \in Seq(Lines) /\ Len(lines') = Len(lines) + 1 /\ Len(lines) \in Nat
           /\ lines'[Len(lines) + 1] = [start |-> line.start, end |-> e, number |-> line.number]
           /\ \A i \in DOMAIN lines : lines'[i] = lines[i]
           /\ DOMAIN lines = 1 .. Len(lines) /\ DOMAIN lines' = 1 .. Len(lines) + 1
<1>1. PICK b : b = [line EXCEPT !.end = e]
  OBVIOUS
<1>2. b \in Lines /\ b = [start |-> line.start, end |-> e, number |-> line.number]
  BY <1>1 DEF Types, Lines
<1>3. lines \in Seq(Lines) /\ lines' = Append(lines, b)
  BY <1>1 DEF Types, FinishCurrentLine
<1> QED BY <1>2, <1>3, Appended

\* The next current block.
LEMMA Starting ==
    ASSUME Types, NEW s \in 0 .. Size, NEW type \in BlockTypes,
           cur' = [cur EXCEPT !.start = s, !.type = type]
    PROVE  /\ cur' \in Blocks /\ cur'.start <= Size
           /\ cur'.start = s /\ cur'.type = type
<1>1. s \in Nat /\ s <= Size
  BY State
<1> QED BY <1>1 DEF Types, Blocks

\* The handlers of delimiters keep the types.
LEMMA TypesKind ==
    ASSUME Types, CurInv, Kind
    PROVE  Types'
<1>0. Size \in Nat /\ from \in Nat /\ line.start \in Nat /\ line.start <= from
      /\ text' = text /\ setts' = setts
  BY State, SameInput DEF Step
<1>1. Handled /\ Pass
  BY DEF Kind, Ignored, Ended, Began, Passed, Failed, Fail, Handled
<1>2. PICK p \in from .. Size - 1, d \in Nat :
              Match.at = p /\ Match.end = d /\ p < d /\ d <= Size
  BY <1>1, AtMatch
<1>3. from' = d /\ from' \in 0 .. Size /\ line.start <= from' /\ p \in Nat
  BY <1>0, <1>1, <1>2 DEF Pass
<1>4. ASSUME Passed
      PROVE  /\ status' = status /\ errorAt' = errorAt /\ lines' = lines /\ line' = line
             /\ lines \in Seq(Lines) /\ line \in Lines
             /\ status \in {"start", "running", "done"} \cup ErrorCodes /\ errorAt \in Nat
  BY <1>4 DEF Passed, NoError, SameLine, Types
<1>5. CASE Ignored
  <2>1. meta' = meta /\ hasMeta' = hasMeta /\ blocks' = blocks /\ cur' = cur
    BY <1>5 DEF Ignored, SameMeta
  <2>2. /\ blocks \in Seq(Blocks) /\ cur \in Blocks /\ cur.start <= Size /\ meta \in Nat \X Nat
        /\ hasMeta \in BOOLEAN
    BY DEF Types
  <2> QED BY <1>0, <1>3, <1>4, <1>5, <2>1, <2>2, TypesAre DEF Ignored
<1>6. CASE Ended
  <2>1. PICK e \in 0 .. p, s \in d .. Size : EndsAt(p, e, s)
    BY <1>2, <1>6, EndedFacts
  <2>2. blocks' \in Seq(Blocks)
    <3>1. e \in Nat
      BY <1>0, <1>2, <2>1
    <3> QED BY <2>1, <3>1, Ending DEF EndsAt
  <2>3. cur' \in Blocks /\ cur'.start <= Size
    <3>1. s \in 0 .. Size /\ "RawText" \in BlockTypes
      BY <1>0, <1>2, <2>1 DEF BlockTypes
    <3> QED BY <2>1, <3>1, Starting DEF EndsAt
  <2>4. meta' \in Nat \X Nat /\ hasMeta' \in BOOLEAN
    BY <1>6 DEF Ended, Types
  <2> QED BY <1>0, <1>3, <1>4, <1>6, <2>2, <2>3, <2>4, TypesAre DEF Ended
<1>7. CASE \E type \in DOMAIN Opener : Began(type)
  <2>0. PICK type \in DOMAIN Opener : Began(type)
    BY <1>7
  <2>1. PICK e \in cur.start .. p, s \in d .. Size :
              /\ blocks' = Append(blocks, [cur EXCEPT !.end = e])
              /\ BeginsAt(type, d, s)
    BY <1>2, <2>0, BeganFacts
  <2>2. blocks' \in Seq(Blocks)
    <3>1. e \in Nat
      BY State, <1>2, <2>1
    <3> QED BY <2>1, <3>1, Ending
  <2>3. cur' \in Blocks /\ cur'.start <= Size
    <3>1. s \in 0 .. Size /\ type \in BlockTypes
      BY <1>0, <1>2, <2>1 DEF BlockTypes
    <3> QED BY <2>1, <3>1, Starting DEF BeginsAt
  <2>4. hasMeta' \in BOOLEAN
    BY <2>0 DEF Began, Types
  <2>5. meta' \in Nat \X Nat
    <3>1. line.number + 1 \in Nat /\ p - line.start + 1 \in Nat
      BY <1>0, <1>2, State
    <3> QED BY <1>2, <2>0, <3>1 DEF Began, Types
  <2> QED BY <1>0, <1>3, <1>4, <2>0, <2>2, <2>3, <2>4, <2>5, TypesAre DEF Began
<1>8. CASE Failed
  <2>1. PICK code \in ErrorCodes : Fail(code)
    BY <1>8 DEF Failed
  <2>2. /\ status' = code /\ errorAt' = p /\ FinishCurrentLine(d)
        /\ line' = [line EXCEPT !.end = d, !.number = @ + 1]
        /\ meta' = meta /\ hasMeta' = hasMeta /\ blocks' = blocks /\ cur' = cur
    BY <1>2, <2>1 DEF Fail, SameMeta
  <2>3. lines' \in Seq(Lines)
    BY <1>2, <2>2, LineEnding
  <2>4. line' \in Lines /\ line'.start = line.start
    <3>1. line \in Lines /\ line.number + 1 \in Nat
      BY State DEF Types
    <3> QED BY <1>2, <2>2, <3>1 DEF Lines
  <2>5. /\ blocks \in Seq(Blocks) /\ cur \in Blocks /\ cur.start <= Size /\ meta \in Nat \X Nat
        /\ hasMeta \in BOOLEAN
    BY DEF Types
  <2> QED BY <1>0, <1>3, <2>2, <2>3, <2>4, <2>5, TypesAre
<1> QED BY <1>5, <1>6, <1>7, <1>8 DEF Kind

\* The types hold at the beginning.
LEMMA TypesInit ==
    ASSUME Init
    PROVE  Types
<1>1. text \in Seq(ToSet(text)) /\ text \in Templates
  BY RoughAssumption DEF Init
<1>2. Size \in Nat
  BY <1>1, TextFacts DEF IsText
<1>3. from \in 0 .. Size
  BY <1>2 DEF Init
<1>4. blocks \in Seq(Blocks) /\ lines \in Seq(Lines)
  BY DEF Init
<1>5. cur \in Blocks /\ cur.start <= Size /\ line \in Lines /\ line.start <= from
  BY <1>2 DEF Init, Blocks, Lines, BlockTypes
<1> QED BY <1>1, <1>3, <1>4, <1>5 DEF Init, Types

\* The other steps keep the types.
LEMMA TypesRest ==
    ASSUME Types, CurInv, OneBlock \/ Begin \/ NewLine \/ Finish
    PROVE  Types'
<1>0. Size \in Nat /\ from \in Nat /\ line.start \in Nat /\ line.start <= from
      /\ text' = text /\ setts' = setts /\ from <= Size /\ cur.start \in Nat
  BY State, SameInput DEF Step
<1>t. /\ blocks \in Seq(Blocks) /\ lines \in Seq(Lines)
      /\ cur \in Blocks /\ cur.start <= Size /\ line \in Lines
      /\ meta \in Nat \X Nat /\ hasMeta \in BOOLEAN /\ errorAt \in Nat
      /\ from \in 0 .. Size
  BY DEF Types
<1>1. CASE OneBlock
  <2>1. PICK type \in BlockTypes : blocks' = <<[start |-> 0, end |-> Size, type |-> type]>>
    <3>1. PICK type : type = IF Size > 0 /\ Char(0) = "#" THEN "LineStatement" ELSE "RawText"
      OBVIOUS
    <3>2. type \in {"LineStatement", "RawText"}
      BY <3>1, Zenon
    <3>3. blocks' = <<[start |-> 0, end |-> Size, type |-> type]>>
      BY <1>1, <3>1, Zenon DEF OneBlock
    <3> QED BY <3>2, <3>3 DEF BlockTypes
  <2>2. [start |-> 0, end |-> Size, type |-> type] \in Blocks
    BY <1>0 DEF Blocks
  <2>3. blocks' \in Seq(Blocks)
    BY <2>1, <2>2
  <2>4. lines' = <<[start |-> 0, end |-> Size, number |-> 0]>> /\ status' = "done"
        /\ UNCHANGED <<from, cur, line, meta, hasMeta, errorAt>>
    BY <1>1, Zenon DEF OneBlock
  <2>5. lines' \in Seq(Lines)
    <3>1. [start |-> 0, end |-> Size, number |-> 0] \in Lines
      BY <1>0 DEF Lines
    <3> QED BY <2>4, <3>1
  <2> QED BY <1>0, <1>t, <2>3, <2>4, <2>5, TypesAre
<1>2. CASE Begin
  <2>1. status' = "running" /\ UNCHANGED <<from, blocks, lines, line, meta, hasMeta, errorAt>>
        /\ cur' = [cur EXCEPT !.type = IF StartsLineStatement(0) THEN "LineStatement" ELSE @]
    BY <1>2 DEF Begin
  <2>2. cur' \in Blocks /\ cur'.start <= Size
    BY <1>t, <2>1 DEF Blocks, BlockTypes
  <2> QED BY <1>0, <1>t, <2>1, <2>2, TypesAre
<1>3. CASE NewLine
  <2>0. status = "running" /\ On("NewLine")
    BY <1>3 DEF NewLine, On
  <2>1. PICK p \in from .. Size - 1 : Match.at = p /\ Match.end = p + 1
    BY <2>0, AtNewLine
  <2>2. PICK type \in BlockTypes : LineEndsAt(p, type)
    BY <1>3, <2>1, NewLineFacts
  <2>3. p + 1 \in 0 .. Size /\ p \in Nat
    BY <1>0, <2>1
  <2>4. cur' \in Blocks /\ cur'.start <= Size /\ blocks' \in Seq(Blocks)
    <3>1. CASE /\ cur' = [cur EXCEPT !.start = p + 1, !.type = type]
               /\ \E e \in cur.start .. p : blocks' = Append(blocks, [cur EXCEPT !.end = e])
      <4>1. PICK e \in cur.start .. p : blocks' = Append(blocks, [cur EXCEPT !.end = e])
        BY <3>1
      <4>2. e \in Nat
        BY <1>0, <2>3, <4>1
      <4> QED BY <2>3, <3>1, <4>1, <4>2, Starting, Ending
    <3>2. CASE cur' = [cur EXCEPT !.type = type] /\ blocks' = blocks
      BY <1>t, <3>2 DEF Blocks
    <3> QED BY <2>2, <3>1, <3>2 DEF LineEndsAt
  <2>5. /\ FinishCurrentLine(p)
        /\ line' = [line EXCEPT !.end = p, !.start = p + 1, !.number = @ + 1]
        /\ from' = p + 1
        /\ status' = status /\ errorAt' = errorAt /\ meta' = meta /\ hasMeta' = hasMeta
    BY <1>3, <2>1 DEF NewLine, Pass, NoError, SameMeta
  <2>6. lines' \in Seq(Lines)
    BY <2>3, <2>5, LineEnding
  <2>7. line' \in Lines /\ line'.start = p + 1
    <3>1. line \in Lines /\ line.number + 1 \in Nat /\ p + 1 \in Nat
      BY <2>3, State DEF Types
    <3> QED BY <2>3, <2>5, <3>1 DEF Lines
  <2> QED BY <1>0, <1>t, <2>0, <2>3, <2>4, <2>5, <2>6, <2>7, TypesAre
<1>4. CASE Finish
  <2>1. FinishCurrentLine(Size) /\ UNCHANGED <<from, line, meta, hasMeta>>
    BY <1>4 DEF Finish, SameMeta
  <2>2. lines' \in Seq(Lines)
    BY <1>0, <2>1, LineEnding
  <2>3. CASE status' = "done"
    <3>1. PICK e \in 0 .. Size : cur.type \notin {"RawBlock", "MetaBlock"}
             /\ blocks' = Append(blocks, [cur EXCEPT !.end = e])
      BY <1>4, <2>3, FinishFacts
    <3>2. blocks' \in Seq(Blocks)
      <4>1. e \in Nat
        BY <1>0, <3>1
      <4> QED BY <3>1, <4>1, Ending
    <3>3. cur' = [cur EXCEPT !.type = "RawText"] /\ errorAt' = errorAt
      BY <1>4, <3>1 DEF Finish
    <3>4. cur' \in Blocks /\ cur'.start <= Size
      BY <1>t, <3>3 DEF Blocks, BlockTypes
    <3> QED BY <1>0, <1>t, <2>1, <2>2, <2>3, <3>2, <3>3, <3>4, TypesAre
  <2>4. CASE status' # "done"
    <3>1. /\ status' \in {"ExpectedRawEnd", "ExpectedMetaEnd"} /\ errorAt' = Size
          /\ UNCHANGED <<blocks, cur>>
      BY <1>4, <2>4 DEF Finish
    <3> QED BY <1>0, <1>t, <2>1, <2>2, <3>1, TypesAre DEF ErrorCodes
  <2> QED BY <2>3, <2>4
<1> QED BY <1>1, <1>2, <1>3, <1>4
-----------------------------------------------------------------------------
(* Blocks are in order. *)

\* What BlocksInOrder says of one block.
Good(b) ==
    /\ b.start <= b.end \/ (b.type \in {"Expression", "Statement"} /\ OneSign(b))
    /\ IsDelimited(b)
AllGood ==
    \A i \in DOMAIN blocks :
        /\ Good(blocks[i])
        /\ i > 1 => blocks[i - 1].end <= blocks[i].start

\* The property, block by block.
LEMMA OrderIs == BlocksInOrder <=> AllGood
BY DEF BlocksInOrder, AllGood, Good

\* The same in the next state.
LEMMA OrderIsThen == BlocksInOrder' <=> AllGood'
BY OrderIs, PTL

\* What is said of the matches in a span does not change.
LEMMA SameSpan ==
    ASSUME text' = text
    PROVE  \A type, a, b : /\ Opened(type, a)' = Opened(type, a)
                           /\ NotClosed(type, a, b)' = NotClosed(type, a, b)
                           /\ Skipped(a, b)' = Skipped(a, b)
BY SameText DEF Opened, NotClosed, Skipped

\* A block that is good stays so.
LEMMA SameGood ==
    ASSUME text' = text, NEW b
    PROVE  Good(b)' = Good(b)
<1>1. IsDelimited(b)' = IsDelimited(b)
  BY SameText DEF IsDelimited
<1>2. OneSign(b)' = OneSign(b)
  BY SameText DEF OneSign
<1> QED BY <1>1, <1>2 DEF Good

\* A good block behind the last one keeps the order.
LEMMA OrderStep ==
    ASSUME Types, text' = text, AllGood, NEW e \in Nat,
           blocks' = Append(blocks, [cur EXCEPT !.end = e]),
           Good([start |-> cur.start, end |-> e, type |-> cur.type]),
           blocks # <<>> => blocks[Len(blocks)].end <= cur.start
    PROVE  AllGood'
<1>1. /\ blocks' \in Seq(Blocks) /\ Len(blocks) \in Nat
      /\ blocks'[Len(blocks) + 1] = [start |-> cur.start, end |-> e, type |-> cur.type]
      /\ \A i \in DOMAIN blocks : blocks'[i] = blocks[i]
      /\ DOMAIN blocks = 1 .. Len(blocks) /\ DOMAIN blocks' = 1 .. Len(blocks) + 1
  BY Ending
<1>2. PICK n \in Nat : n = Len(blocks)
  BY <1>1
<1>3. ASSUME NEW i \in 1 .. n + 1
      PROVE  Good(blocks[i])' /\ (i > 1 => blocks'[i - 1].end <= blocks'[i].start)
  <2>1. CASE i = n + 1
    <3>1. PICK b : b = [start |-> cur.start, end |-> e, type |-> cur.type]
      OBVIOUS
    <3>2. blocks'[i] = b /\ Good(b) /\ b.start = cur.start
      BY <1>1, <1>2, <2>1, <3>1
    <3>3. Good(b)'
      BY <3>2, SameGood
    <3>4. ASSUME i > 1 PROVE blocks'[i - 1].end <= blocks'[i].start
      <4>1. n \in DOMAIN blocks /\ i - 1 = n /\ blocks # <<>>
        BY <1>1, <1>2, <2>1, <3>4
      <4>2. blocks'[n] = blocks[n] /\ blocks[n].end <= cur.start
        BY <1>1, <1>2, <4>1
      <4> QED BY <3>2, <4>1, <4>2
    <3> QED BY <3>2, <3>3, <3>4
  <2>2. CASE i # n + 1
    <3>1. i \in DOMAIN blocks /\ blocks'[i] = blocks[i]
      BY <1>1, <1>2, <2>2
    <3>2. PICK b : b = blocks[i]
      OBVIOUS
    <3>3. Good(b)'
      BY <3>1, <3>2, SameGood DEF AllGood
    <3>4. ASSUME i > 1 PROVE blocks'[i - 1].end <= blocks'[i].start
      <4>1. i - 1 \in DOMAIN blocks
        BY <1>1, <1>2, <3>1, <3>4
      <4> QED BY <1>1, <3>1, <3>4, <4>1 DEF AllGood
    <3> QED BY <3>1, <3>2, <3>3, <3>4
  <2> QED BY <2>1, <2>2
<1> QED BY <1>1, <1>2, <1>3 DEF AllGood

\* A block of a kind with delimiters is good if it has been opened and is closed.
LEMMA Delimited ==
    ASSUME NEW b, b.type \in DOMAIN Opener, Opened(b.type, b.start), NotClosed(b.type, b.start, b.end),
           \/ b.end >= Size - 1 /\ b.type \notin {"RawBlock", "MetaBlock"}
           \/ \E k \in b.end .. Size - 1 : \E m \in MatchesAt(k) :
                 m.type = Closer[b.type] /\ Skipped(b.end, m.at)
    PROVE  IsDelimited(b)
BY DEF IsDelimited, Opened, NotClosed, Skipped

\* Raw text and line statements have no delimiters.
LEMMA NotDelimited ==
    ASSUME NEW b, b.type \notin DOMAIN Opener
    PROVE  IsDelimited(b)
BY DEF IsDelimited

\* A match that does not end the current block leaves it open.
LEMMA StillOpen ==
    ASSUME IsText, NEW type \in DOMAIN Opener, NEW start \in Nat, NEW f \in Nat, NotClosed(type, start, f),
           NEW p \in f .. Size - 1, \A j \in f .. p - 1 : MatchesAt(j) = {},
           NEW m \in MatchesAt(p),
           m.type # Closer[type] \/ Char(p - 1) = "'",
           type \in {"Expression", "Statement"} => m.type \notin TagTypes
    PROVE  NotClosed(type, start, m.end)
<1>0. Size \in Nat /\ p \in Nat /\ p < Size
  BY TextFacts
<1>1. MatchIs(p, m) /\ m.end \in Nat /\ m.end <= Size
  BY <1>0, Matches DEF MatchIs
<1>2. SUFFICES ASSUME NEW k \in start .. m.end - 1, NEW n \in MatchesAt(k)
               PROVE  n.type # Closer[type] \/ Char(k - 1) = "'" \/ MatchesAt(k - 1) # {}
  BY DEF NotClosed
<1>3. CASE k < f
  <2>1. k \in start .. f - 1
    BY <1>1, <1>3
  <2> QED BY <2>1 DEF NotClosed
<1>4. CASE k \in f .. p - 1
  BY <1>4
<1>5. CASE k = p
  <2>1. n.type = m.type
    BY <1>0, <1>5, SameType
  <2> QED BY <1>5, <2>1
<1>6. CASE k \in p + 1 .. m.end - 1
  <2>1. MatchesAt(k - 1) # {} \/ (m.type \in TagTypes /\ n.type \in {"NewLine", "StmtEnd", "ExprEnd"})
    BY <1>0, <1>6, Inside
  <2> QED BY <2>1, Openers
<1>7. k < f \/ k \in f .. p - 1 \/ k = p \/ k \in p + 1 .. m.end - 1
  BY <1>0, <1>1
<1> QED BY <1>3, <1>4, <1>5, <1>6, <1>7

\* Where nothing matches no block is closed.
LEMMA NotClosedBefore ==
    ASSUME NEW type, NEW start \in Nat, NEW f \in Nat, NotClosed(type, start, f),
           NEW p \in Nat, \A j \in f .. p - 1 : MatchesAt(j) = {}, NEW e \in 0 .. p
    PROVE  NotClosed(type, start, e)
BY DEF NotClosed

\* The handlers of delimiters keep the order.
LEMMA OrderKind ==
    ASSUME Types, CurInv, AllGood, Kind
    PROVE  AllGood'
<1>0. /\ Size \in Nat /\ from \in Nat /\ cur.start \in Nat /\ IsText
      /\ text' = text /\ cur.type \in BlockTypes
  BY State, SameInput DEF Step
<1>1. Handled /\ status = "running"
  BY DEF Kind, Ignored, Ended, Began, Passed, Failed, Handled
<1>2. PICK p \in from .. Size - 1, d \in Nat :
              /\ Match \in MatchesAt(p) /\ Match.at = p /\ Match.end = d /\ p < d /\ d <= Size
              /\ \A j \in from .. p - 1 : MatchesAt(j) = {}
              /\ cur.start <= p
  BY <1>1, AtMatch
<1>3. p \in Nat /\ p < Size
  BY <1>0, <1>2
<1>4. CASE UNCHANGED blocks
  BY <1>0, <1>4, SameGood DEF AllGood
<1>5. CASE Ended
  <2>1. PICK e \in 0 .. p, s \in d .. Size : EndsAt(p, e, s)
    BY <1>2, <1>5, EndedFacts
  <2>2. cur.type \in DOMAIN Opener /\ Match.type = Closer[cur.type]
    BY <1>5 DEF Ended
  <2>3. PICK b : b = [start |-> cur.start, end |-> e, type |-> cur.type]
    OBVIOUS
  <2>4. Skipped(e, p)
    BY <1>3, <2>1 DEF EndsAt, Skipped, Spare
  <2>5. IsDelimited(b)
    <3>1. Opened(b.type, b.start)
      BY <1>1, <2>2, <2>3 DEF CurInv
    <3>2. NotClosed(cur.type, cur.start, from)
      BY <1>1, <2>2 DEF CurInv
    <3>3. NotClosed(b.type, b.start, b.end)
      BY <1>0, <1>2, <1>3, <2>3, <3>2, NotClosedBefore
    <3>4. p \in b.end .. Size - 1
      BY <1>0, <1>3, <2>1, <2>3
    <3>5. Match.type = Closer[b.type] /\ Skipped(b.end, Match.at)
      BY <1>2, <2>2, <2>3, <2>4
    <3> QED BY <1>2, <2>2, <2>3, <3>1, <3>3, <3>4, <3>5, Delimited
  <2>6. b.start <= b.end \/ (b.type \in {"Expression", "Statement"} /\ OneSign(b))
    BY <2>1, <2>3 DEF EndsAt, OneSign
  <2>7. e \in Nat /\ (blocks # <<>> => blocks[Len(blocks)].end <= cur.start)
    BY <1>1, <1>3 DEF CurInv
  <2> QED BY <1>0, <2>1, <2>3, <2>5, <2>6, <2>7, OrderStep DEF EndsAt, Good
<1>6. CASE \E type \in DOMAIN Opener : Began(type)
  <2>0. PICK type \in DOMAIN Opener : Began(type)
    BY <1>6
  <2>1. PICK e \in cur.start .. p : blocks' = Append(blocks, [cur EXCEPT !.end = e])
    BY <1>2, <2>0, BeganFacts
  <2>2. PICK b : b = [start |-> cur.start, end |-> e, type |-> cur.type]
    OBVIOUS
  <2>3. cur.type \notin DOMAIN Opener
    BY <2>0, Openers DEF Began
  <2>4. IsDelimited(b)
    BY <2>2, <2>3, NotDelimited
  <2>5. b.start <= b.end
    BY <1>0, <2>1, <2>2
  <2>6. e \in Nat /\ (blocks # <<>> => blocks[Len(blocks)].end <= cur.start)
    BY <1>0, <1>1, <2>1 DEF CurInv
  <2> QED BY <1>0, <2>1, <2>2, <2>4, <2>5, <2>6, OrderStep DEF Good
<1>7. ASSUME Ignored \/ Failed PROVE UNCHANGED blocks
  BY <1>7 DEF Ignored, Failed, Fail
<1> QED BY <1>4, <1>5, <1>6, <1>7 DEF Kind

\* The other steps keep the order.
LEMMA OrderRest ==
    ASSUME Types, CurInv, AllGood, OneBlock \/ Begin \/ NewLine \/ Finish
    PROVE  AllGood'
<1>0. /\ Size \in Nat /\ from \in Nat /\ cur.start \in Nat /\ IsText
      /\ text' = text /\ cur.type \in BlockTypes
  BY State, SameInput DEF Step
<1>1. CASE UNCHANGED blocks
  BY <1>0, <1>1, SameGood DEF AllGood
<1>2. CASE OneBlock
  <2>1. PICK type : type = IF Size > 0 /\ Char(0) = "#" THEN "LineStatement" ELSE "RawText"
    OBVIOUS
  <2>2. type \notin DOMAIN Opener
    BY <2>1, Openers, Zenon
  <2>3. PICK b : b = [start |-> 0, end |-> Size, type |-> type]
    OBVIOUS
  <2>4. blocks' = <<b>>
    BY <1>2, <2>1, <2>3, Zenon DEF OneBlock
  <2>5. Good(b)
    BY <1>0, <2>2, <2>3, NotDelimited DEF Good
  <2>6. Good(b)'
    BY <1>0, <2>5, SameGood
  <2> QED BY <2>4, <2>6 DEF AllGood
<1>3. CASE NewLine
  <2>1. status = "running" /\ On("NewLine")
    BY <1>3 DEF NewLine, On
  <2>2. PICK p \in from .. Size - 1 : Match.at = p
    BY <2>1, AtNewLine
  <2>3. PICK type \in BlockTypes : LineEndsAt(p, type)
    BY <1>3, <2>2, NewLineFacts
  <2>4. CASE blocks' # blocks
    <3>1. PICK e \in cur.start .. p : blocks' = Append(blocks, [cur EXCEPT !.end = e])
      BY <2>3, <2>4 DEF LineEndsAt
    <3>2. cur.type \notin DOMAIN Opener
      BY <2>3, <2>4, Openers DEF LineEndsAt
    <3>3. PICK b : b = [start |-> cur.start, end |-> e, type |-> cur.type]
      OBVIOUS
    <3>4. Good(b)
      <4>1. b.start <= b.end
        BY <1>0, <2>2, <3>1, <3>3
      <4>2. IsDelimited(b)
        BY <3>2, <3>3, NotDelimited
      <4> QED BY <4>1, <4>2 DEF Good
    <3>5. e \in Nat /\ (blocks # <<>> => blocks[Len(blocks)].end <= cur.start)
      BY <1>0, <2>1, <2>2, <3>1 DEF CurInv
    <3> QED BY <1>0, <3>1, <3>3, <3>4, <3>5, OrderStep
  <2> QED BY <1>1, <2>4
<1>4. CASE Finish
  <2>1. CASE status' = "done"
    <3>0. status = "running" /\ MatchOffsets(from) = {}
      BY <1>4 DEF Finish
    <3>1. PICK e \in 0 .. Size :
              /\ cur.type \notin {"RawBlock", "MetaBlock"}
              /\ blocks' = Append(blocks, [cur EXCEPT !.end = e])
              /\ \/ cur.start <= e
                 \/ cur.type \in {"Expression", "Statement"} /\ cur.start = e + 1 /\ Char(e) \in Signs
              /\ cur.type = "RawText" \/ e >= Size - 1
      BY <1>4, <2>1, FinishFacts
    <3>2. PICK b : b = [start |-> cur.start, end |-> e, type |-> cur.type]
      OBVIOUS
    <3>3. b.start <= b.end \/ (b.type \in {"Expression", "Statement"} /\ OneSign(b))
      BY <3>1, <3>2 DEF OneSign
    <3>4. IsDelimited(b)
      <4>1. CASE cur.type \notin DOMAIN Opener
        BY <3>2, <4>1, NotDelimited
      <4>2. CASE cur.type \in DOMAIN Opener
        <5>1. \A j \in from .. Size - 1 : MatchesAt(j) = {}
          BY <3>0, NoMatch
        <5>2. Opened(cur.type, cur.start) /\ NotClosed(cur.type, cur.start, from)
          BY <3>0, <4>2 DEF CurInv
        <5>3. NotClosed(cur.type, cur.start, e)
          BY <1>0, <3>1, <5>1, <5>2, NotClosedBefore
        <5>4. cur.type # "RawText"
          BY <4>2, Openers
        <5> QED BY <3>1, <3>2, <4>2, <5>2, <5>3, <5>4, Delimited
      <4> QED BY <4>1, <4>2
    <3>5. e \in Nat /\ (blocks # <<>> => blocks[Len(blocks)].end <= cur.start)
      BY <1>0, <3>0, <3>1 DEF CurInv
    <3> QED BY <1>0, <3>1, <3>2, <3>3, <3>4, <3>5, OrderStep DEF Good
  <2>2. CASE status' # "done"
    <3>1. UNCHANGED blocks
      BY <1>4, <2>2 DEF Finish
    <3> QED BY <1>1, <3>1
  <2> QED BY <2>1, <2>2
<1>5. ASSUME Begin PROVE UNCHANGED blocks
  BY <1>5 DEF Begin
<1> QED BY <1>1, <1>2, <1>3, <1>4, <1>5
-----------------------------------------------------------------------------
(* The current block. *)

\* The handlers of delimiters keep what is known of the current block.
LEMMA CurKind ==
    ASSUME Types, CurInv, Kind
    PROVE  CurInv'
<1>0. /\ Size \in Nat /\ from \in Nat /\ cur.start \in Nat /\ IsText
      /\ text' = text /\ cur.type \in BlockTypes /\ cur.start <= Size
  BY State, SameInput DEF Step
<1>1. Handled /\ status = "running" /\ Pass
  BY DEF Kind, Ignored, Ended, Began, Passed, Failed, Fail, Handled
<1>2. PICK p \in from .. Size - 1, d \in Nat :
              /\ Match \in MatchesAt(p) /\ MatchIs(p, Match)
              /\ Match.at = p /\ Match.end = d /\ p < d /\ d <= Size
              /\ \A j \in from .. p - 1 : MatchesAt(j) = {}
              /\ cur.start <= p
              /\ Match.type \in PairTypes => d = p + 2
  BY <1>1, AtMatch
<1>3. p \in Nat /\ p < Size /\ from' = d
  BY <1>0, <1>1, <1>2 DEF Pass
<1>5. CASE Ignored
  <2>1. blocks' = blocks /\ cur' = cur
    BY <1>5 DEF Ignored
  <2>2. Gap'
    BY <1>0, <1>2, <1>3, <2>1 DEF Gap
  <2>3. Hashes'
    <3>1. ASSUME cur.type = "LineStatement"
          PROVE  \E h \in cur.start .. d : h < Size /\ IsHash(Char(h))
      <4>1. PICK h \in cur.start .. from : h < Size /\ IsHash(Char(h))
        BY <1>1, <3>1 DEF CurInv, Hashes
      <4>2. h \in cur.start .. d
        BY <1>0, <1>2, <1>3, <4>1
      <4> QED BY <4>1, <4>2
    <3>2. cur.type = "Comment" => cur.start > 0 /\ IsHash(Char(cur.start - 1))
      BY <1>1 DEF CurInv, Hashes
    <3> QED BY <1>0, <1>3, <2>1, <3>1, <3>2, SameText DEF Hashes
  <2>4. ASSUME cur.type \in DOMAIN Opener
        PROVE  Opened(cur.type, cur.start) /\ NotClosed(cur.type, cur.start, d)
    <3>1. Opened(cur.type, cur.start) /\ NotClosed(cur.type, cur.start, from)
      BY <1>1, <2>4 DEF CurInv
    <3>2. /\ Match.type # Closer[cur.type] \/ Char(p - 1) = "'"
          /\ cur.type \in {"Expression", "Statement"} => Match.type \notin TagTypes
      BY <1>2, <1>5, <2>4 DEF Ignored
    <3>3. NotClosed(cur.type, cur.start, Match.end)
      BY <1>0, <1>2, <2>4, <3>1, <3>2, StillOpen
    <3> QED BY <1>2, <3>1, <3>3
  <2>5. cur.type \in DOMAIN Opener => Opened(cur.type, cur.start)' /\ NotClosed(cur.type, cur.start, from)'
    BY <1>0, <1>3, <2>1, <2>4, SameSpan
  <2>6. blocks # <<>> => blocks[Len(blocks)].end <= cur.start
    BY <1>1 DEF CurInv
  <2> QED BY <2>1, <2>2, <2>3, <2>5, <2>6 DEF CurInv
<1>6. CASE Ended
  <2>1. PICK e \in 0 .. p, s \in d .. Size : EndsAt(p, e, s) /\ Spare(d, s) /\ LastNewLine(d, s)
    BY <1>2, <1>6, EndedFacts
  <2>2. s \in 0 .. Size /\ "RawText" \in BlockTypes /\ e \in Nat
    BY <1>0, <1>2, <1>3, <2>1 DEF BlockTypes
  <2>3. cur'.start = s /\ cur'.type = "RawText"
    BY <2>1, <2>2, Starting DEF EndsAt
  <2>4. Gap'
    BY <1>0, <1>3, <2>1, <2>3, SameText DEF Gap, Spare, LastNewLine
  <2>5. Hashes'
    BY <2>3 DEF Hashes
  <2>6. cur'.type \notin DOMAIN Opener
    BY <2>3, Openers
  <2>7. blocks' # <<>> => blocks'[Len(blocks')].end <= s
    <3>1. blocks'[Len(blocks')].end = e
      BY <2>1, <2>2, Ending DEF EndsAt
    <3>2. e <= s
      BY <1>0, <1>2, <1>3, <2>1
    <3> QED BY <3>1, <3>2
  <2> QED BY <2>3, <2>4, <2>5, <2>6, <2>7 DEF CurInv
<1>7. CASE \E type \in DOMAIN Opener : Began(type)
  <2>0. PICK type \in DOMAIN Opener : Began(type)
    BY <1>7
  <2>1. PICK e \in cur.start .. p, s \in d .. Size :
              /\ blocks' = Append(blocks, [cur EXCEPT !.end = e])
              /\ BeginsAt(type, d, s)
    BY <1>2, <2>0, BeganFacts
  <2>2. s \in 0 .. Size /\ type \in BlockTypes /\ e \in Nat /\ s \in Nat /\ d <= s
    BY <1>0, <1>2, <1>3, <2>1 DEF BlockTypes
  <2>3. cur'.start = s /\ cur'.type = type
    BY <2>1, <2>2, Starting DEF BeginsAt
  <2>4. Gap'
    BY <1>0, <1>3, <2>1, <2>3, SameText DEF Gap, BeginsAt, LastNewLine
  <2>5. Hashes'
    <3>1. type # "LineStatement"
      BY Openers
    <3>2. ASSUME type = "Comment" PROVE s > 0 /\ IsHash(Char(s - 1))
      <4>1. Match.type = "CommentBegin"
        BY <2>0, <3>2, Openers DEF Began
      <4>2. d = p + 2 /\ Char(p + 1) = Second("CommentBegin")
        BY <1>2, <4>1 DEF MatchIs, PairTypes, TagTypes
      <4>3. IsHash(Second("CommentBegin"))
        BY DEF IsHash, Second
      <4>4. s = d /\ s - 1 = p + 1 /\ s > 0
        BY <1>3, <2>1, <3>2, <4>2 DEF BeginsAt
      <4> QED BY <4>2, <4>3, <4>4
    <3> QED BY <1>0, <2>3, <3>1, <3>2, SameText DEF Hashes
  <2>6. Opened(type, s)
    <3>1. Match.type = Opener[type]
      BY <2>0 DEF Began
    <3>2. Skipped(d, s)
      BY <2>1 DEF BeginsAt, Skipped
    <3>3. p \in 0 .. s
      BY <1>2, <1>3, <2>2
    <3> QED BY <1>2, <2>2, <3>1, <3>2, <3>3 DEF Opened
  <2>7. NotClosed(type, s, d)
    BY <2>2 DEF NotClosed
  <2>8. Opened(cur.type, cur.start)' /\ NotClosed(cur.type, cur.start, from)'
    BY <1>0, <1>3, <2>3, <2>6, <2>7, SameSpan
  <2>9. blocks' # <<>> => blocks'[Len(blocks')].end <= s
    <3>1. blocks'[Len(blocks')].end = e
      BY <2>1, <2>2, Ending
    <3>2. e <= s
      BY <1>0, <1>2, <1>3, <2>1
    <3> QED BY <3>1, <3>2
  <2> QED BY <2>3, <2>4, <2>5, <2>8, <2>9 DEF CurInv
<1>8. CASE Failed
  <2>1. status' \in ErrorCodes
    BY <1>8 DEF Failed, Fail
  <2>2. status' # "running"
    BY <2>1 DEF ErrorCodes
  <2> QED BY <2>2 DEF CurInv
<1> QED BY <1>5, <1>6, <1>7, <1>8 DEF Kind

\* The other steps keep it.
LEMMA CurRest ==
    ASSUME Types, StartInv, CurInv, OneBlock \/ Begin \/ NewLine \/ Finish
    PROVE  CurInv'
<1>0. /\ Size \in Nat /\ from \in Nat /\ cur.start \in Nat /\ IsText
      /\ text' = text /\ cur.type \in BlockTypes /\ cur.start <= Size
  BY State, SameInput DEF Step
<1>1. CASE OneBlock \/ Finish
  <2>1. status' # "running"
    BY <1>1 DEF OneBlock, Finish
  <2> QED BY <2>1 DEF CurInv
<1>2. CASE Begin
  <2>1. /\ status = "start" /\ from' = from /\ blocks' = blocks
        /\ cur' = [cur EXCEPT !.type = IF StartsLineStatement(0) THEN "LineStatement" ELSE @]
    BY <1>2 DEF Begin
  <2>2. from = 0 /\ cur.start = 0 /\ cur.type = "RawText" /\ blocks = <<>>
    BY <2>1 DEF StartInv
  <2>3. PICK type : type = IF StartsLineStatement(0) THEN "LineStatement" ELSE "RawText"
    OBVIOUS
  <2>4. cur'.start = 0 /\ cur'.type = type
    BY <2>1, <2>2, <2>3 DEF Types, Blocks
  <2>5. Gap'
    BY <2>1, <2>2, <2>4 DEF Gap
  <2>6. 0 < Size
    <3>1. PICK k \in 0 .. Size - 1 : MatchesAt(k) # {}
      BY <1>2 DEF Begin, MatchOffsets
    <3> QED BY <1>0, <3>1
  <2>7. type = "LineStatement" => IsHash(Char(0))
    <3>1. StartsLineStatement(0) => IsHash(Char(0))
      BY Zenon DEF StartsLineStatement, IsHash
    <3> QED BY <2>3, <3>1
  <2>8. Hashes'
    <3>1. 0 \in 0 .. 0
      OBVIOUS
    <3>2. type # "Comment"
      BY <2>3
    <3> QED BY <1>0, <2>1, <2>2, <2>4, <2>6, <2>7, <3>1, <3>2, SameText DEF Hashes
  <2>9. cur'.type \notin DOMAIN Opener
    BY <2>3, <2>4, Openers
  <2> QED BY <2>1, <2>2, <2>5, <2>8, <2>9 DEF CurInv
<1>3. CASE NewLine
  <2>1. status = "running" /\ On("NewLine") /\ Match.type = "NewLine"
    BY <1>3 DEF NewLine, On
  <2>2. PICK p \in from .. Size - 1 :
              /\ Match \in MatchesAt(p) /\ Match.at = p /\ Match.end = p + 1
              /\ \A j \in from .. p - 1 : MatchesAt(j) = {}
              /\ cur.start <= p + 1
    BY <2>1, AtNewLine
  <2>3. PICK type \in BlockTypes : LineEndsAt(p, type)
    BY <1>3, <2>2, NewLineFacts
  <2>4. PICK q \in Nat : q = p + 1 /\ q \in 0 .. Size /\ from <= q
    BY <1>0, <2>2
  <2>5. from' = q
    BY <1>3, <2>2, <2>4 DEF NewLine, Pass
  <2>6. Gap /\ Hashes /\ (blocks # <<>> => blocks[Len(blocks)].end <= cur.start)
    BY <2>1 DEF CurInv
  <2>7. CASE /\ cur.type = "LineStatement"
             /\ \E e \in cur.start .. p : blocks' = Append(blocks, [cur EXCEPT !.end = e])
             /\ cur' = [cur EXCEPT !.start = p + 1, !.type = type]
             /\ type \in {"RawText", "LineStatement"}
             /\ type = "LineStatement" => p + 1 < Size /\ IsHash(Char(p + 1))
    <3>1. PICK e \in cur.start .. p : blocks' = Append(blocks, [cur EXCEPT !.end = e])
      BY <2>7
    <3>2. e \in Nat /\ e <= q
      BY <1>0, <2>2, <2>4, <3>1
    <3>3. cur'.start = q /\ cur'.type = type
      BY <2>4, <2>7, Starting
    <3>4. Gap'
      BY <2>4, <2>5, <3>3 DEF Gap
    <3>5. Hashes'
      <4>1. q \in q .. q
        BY <2>4
      <4>2. type = "LineStatement" => q < Size /\ IsHash(Char(q))
        BY <2>4, <2>7
      <4>3. type # "Comment"
        BY <2>7
      <4> QED BY <1>0, <2>5, <3>3, <4>1, <4>2, <4>3, SameText DEF Hashes
    <3>6. cur'.type \notin DOMAIN Opener
      BY <2>7, <3>3, Openers
    <3>7. blocks' # <<>> => blocks'[Len(blocks')].end <= q
      <4>1. blocks'[Len(blocks')].end = e
        BY <3>1, <3>2, Ending
      <4> QED BY <3>2, <4>1
    <3> QED BY <3>3, <3>4, <3>5, <3>6, <3>7 DEF CurInv
  <2>8. CASE /\ blocks' = blocks
             /\ cur' = [cur EXCEPT !.type = type]
             /\ \/ type = cur.type
                \/ /\ cur.type = "RawText" /\ type = "LineStatement"
                   /\ p + 1 < Size /\ IsHash(Char(p + 1))
    <3>1. cur'.start = cur.start /\ cur'.type = type
      BY <2>8 DEF Types, Blocks
    <3>2. Gap'
      BY <1>0, <2>2, <2>4, <2>5, <3>1 DEF Gap
    <3>3. Hashes'
      <4>1. ASSUME type = "LineStatement"
            PROVE  \E h \in cur.start .. q : h < Size /\ IsHash(Char(h))
        <5>1. CASE type = cur.type
          <6>1. PICK h \in cur.start .. from : h < Size /\ IsHash(Char(h))
            BY <2>6, <4>1, <5>1 DEF Hashes
          <6>2. h \in cur.start .. q
            BY <1>0, <2>4, <6>1
          <6> QED BY <6>1, <6>2
        <5>2. CASE type # cur.type
          <6>1. q < Size /\ IsHash(Char(q)) /\ q \in cur.start .. q
            BY <1>0, <2>2, <2>4, <2>8, <5>2
          <6> QED BY <6>1
        <5> QED BY <5>1, <5>2
      <4>2. type = "Comment" => cur.start > 0 /\ IsHash(Char(cur.start - 1))
        BY <2>6, <2>8 DEF Hashes
      <4> QED BY <1>0, <2>5, <3>1, <4>1, <4>2, SameText DEF Hashes
    <3>4. ASSUME type \in DOMAIN Opener
          PROVE  Opened(type, cur.start) /\ NotClosed(type, cur.start, q)
      <4>1. type = cur.type
        BY <2>8, <3>4, Openers
      <4>2. Opened(type, cur.start) /\ NotClosed(type, cur.start, from)
        BY <2>1, <3>4, <4>1 DEF CurInv
      <4>3. Match.type # Closer[type] /\ Match.type \notin TagTypes
        BY <2>1, <3>4, Openers DEF TagTypes
      <4>4. NotClosed(type, cur.start, Match.end)
        BY <1>0, <2>2, <3>4, <4>2, <4>3, StillOpen
      <4> QED BY <2>2, <2>4, <4>2, <4>4
    <3>5. cur'.type \in DOMAIN Opener => Opened(cur.type, cur.start)' /\ NotClosed(cur.type, cur.start, from)'
      BY <1>0, <2>5, <3>1, <3>4, SameSpan
    <3> QED BY <2>6, <2>8, <3>1, <3>2, <3>3, <3>5 DEF CurInv
  <2> QED BY <2>3, <2>7, <2>8 DEF LineEndsAt
<1> QED BY <1>1, <1>2, <1>3

\* No step leads back to the beginning.
LEMMA StartNext ==
    ASSUME Types, StartInv, Step
    PROVE  StartInv'
<1>1. status' # "start"
  <2>1. CASE Kind
    <3>1. Handled
      BY <2>1 DEF Kind, Ignored, Ended, Began, Passed, Failed, Handled
    <3>2. status' = status \/ status' \in ErrorCodes
      BY <2>1 DEF Kind, Ignored, Ended, Began, Passed, NoError, Failed, Fail
    <3> QED BY <3>1, <3>2 DEF Handled, ErrorCodes
  <2>2. CASE OneBlock \/ Begin \/ Finish
    BY <2>2 DEF OneBlock, Begin, Finish
  <2>3. CASE NewLine
    BY <2>3 DEF NewLine, On, NoError
  <2> QED BY <2>1, <2>2, <2>3 DEF Step
<1> QED BY <1>1 DEF StartInv
\* The invariant holds at the beginning.
LEMMA InitInv ==
    ASSUME Init
    PROVE  Inv
<1>1. status = "start"
  BY DEF Init
<1>2. StartInv
  BY DEF Init, StartInv
<1> QED BY <1>1, <1>2, TypesInit DEF Inv, CurInv

\* Every step keeps the invariant.
LEMMA InvNext ==
    ASSUME Inv, [Next]_vars
    PROVE  Inv'
<1>1. CASE Next
  <2>1. Step
    BY <1>1, Kinds DEF Inv, Step
  <2>2. Types'
    BY <2>1, TypesKind, TypesRest DEF Inv, Step
  <2>3. CurInv'
    BY <2>1, CurKind, CurRest DEF Inv, Step
  <2> QED BY <2>1, <2>2, <2>3, StartNext DEF Inv
<1>2. CASE UNCHANGED vars
  <2>0. Types /\ StartInv /\ CurInv
    BY DEF Inv
  <2>1. /\ text' = text /\ setts' = setts /\ from' = from /\ blocks' = blocks /\ lines' = lines
        /\ cur' = cur /\ line' = line /\ meta' = meta /\ hasMeta' = hasMeta /\ status' = status
        /\ errorAt' = errorAt
    BY <1>2 DEF vars
  <2>2. Types'
    BY <2>0, <2>1, SameText DEF Types
  <2>3. StartInv'
    BY <2>0, <2>1 DEF StartInv
  <2>4. Gap' = Gap /\ Hashes' = Hashes
    BY <2>1, SameText DEF Gap, Hashes
  <2>5. /\ Opened(cur.type, cur.start)' = Opened(cur.type, cur.start)
        /\ NotClosed(cur.type, cur.start, from)' = NotClosed(cur.type, cur.start, from)
    BY <2>1, SameSpan
  <2>6. CurInv'
    BY <2>0, <2>1, <2>4, <2>5 DEF CurInv
  <2> QED BY <2>2, <2>3, <2>6 DEF Inv
<1> QED BY <1>1, <1>2

\* The parser's variables keep their types, and while it runs the current block is known:
\* behind an opener of its kind, not closed yet, behind the last block, and separated from the
\* last match by what white space control has skipped (DoRoughParsing, ParseRoughMatch).
THEOREM RoughInvariant == Spec => []Inv
BY InitInv, InvNext, PTL DEF Spec

\* The text blocks follow each other without overlap, each between delimiters of its own
\* kind, whatever the template and the settings are (FinishCurrentBlock, StartControlBlock).
THEOREM BlocksAreInOrder == Spec => []BlocksInOrder
<1>1. Init => AllGood
  BY DEF Init, AllGood
<1>2. ASSUME Inv, AllGood, [Next]_vars
      PROVE  AllGood'
  <2>1. CASE Next
    <3>1. Step
      BY <1>2, <2>1, Kinds DEF Inv, Step
    <3> QED BY <1>2, <3>1, OrderKind, OrderRest DEF Inv, Step
  <2>2. CASE UNCHANGED vars
    <3>1. text' = text /\ blocks' = blocks
      BY <2>2 DEF vars
    <3> QED BY <1>2, <3>1, SameGood DEF AllGood
  <2> QED BY <1>2, <2>1, <2>2
<1>3. Init => BlocksInOrder
  BY <1>1, OrderIs
<1>4. Inv /\ BlocksInOrder /\ [Next]_vars => BlocksInOrder'
  BY <1>2, OrderIs, OrderIsThen
<1> QED BY <1>3, <1>4, RoughInvariant, PTL DEF Spec
-----------------------------------------------------------------------------
(* Only markup is lost. *)

\* Delimiters, and whether something asks for stripping, do not change.
LEMMA SameMarkup ==
    ASSUME text' = text, setts' = setts
    PROVE  MayStrip' = MayStrip /\ \A o : InDelimiter(o)' = InDelimiter(o)
<1>1. MayStrip' = MayStrip
  BY SameText DEF MayStrip
<1>2. \A o : InDelimiter(o)' = InDelimiter(o)
  BY SameText DEF InDelimiter
<1> QED BY <1>1, <1>2

\* What has been excused stays so.
LEMMA ExcusedStays ==
    ASSUME Types, text' = text, setts' = setts,
           blocks' = blocks \/ \E e \in Nat : blocks' = Append(blocks, [cur EXCEPT !.end = e]),
           NEW o, Excused(o)
    PROVE  Excused(o)'
<1>1. /\ \A i \in DOMAIN blocks : i \in DOMAIN blocks' /\ blocks'[i] = blocks[i]
      /\ Len(blocks) \in Nat /\ DOMAIN blocks = 1 .. Len(blocks)
  <2>1. CASE blocks' = blocks
    <3>1. blocks \in Seq(Blocks)
      BY DEF Types
    <3> QED BY <2>1, <3>1
  <2>2. CASE blocks' # blocks
    <3>1. PICK e \in Nat : blocks' = Append(blocks, [cur EXCEPT !.end = e])
      BY <2>2
    <3> QED BY <3>1, Ending
  <2> QED BY <2>1, <2>2
<1>2. Char(o)' = Char(o) /\ MayStrip' = MayStrip /\ \A k : InDelimiter(k)' = InDelimiter(k)
  BY SameText, SameMarkup
<1>3. ASSUME InBlock(o) PROVE InBlock(o)'
  BY <1>1, <1>3 DEF InBlock
<1>4. ASSUME EndsLineStatement(o) PROVE EndsLineStatement(o)'
  <2>1. ToSet(blocks) \subseteq ToSet(blocks')
    BY <1>1 DEF ToSet
  <2> QED BY <1>2, <1>4, <2>1 DEF EndsLineStatement
<1> QED BY <1>2, <1>3, <1>4 DEF Excused

\* What is excused when a block has ended.
LEMMA ExcusedNow ==
    ASSUME text' = text, setts' = setts, NEW o,
           \/ InBlock(o)' \/ InDelimiter(o)
           \/ Char(o) \in Signs /\ (InDelimiter(o - 1) \/ InDelimiter(o + 1))
           \/ IsSpace(Char(o)) /\ MayStrip
           \/ EndsLineStatement(o)'
    PROVE  Excused(o)'
<1>1. Char(o)' = Char(o) /\ MayStrip' = MayStrip /\ \A k : InDelimiter(k)' = InDelimiter(k)
  BY SameText, SameMarkup
<1> QED BY <1>1 DEF Excused

\* The block that ends has its offsets.
LEMMA InEnded ==
    ASSUME Types, NEW e \in Nat, blocks' = Append(blocks, [cur EXCEPT !.end = e]),
           NEW o \in cur.start .. e - 1
    PROVE  InBlock(o)'
<1>1. PICK b : b = [start |-> cur.start, end |-> e, type |-> cur.type]
  OBVIOUS
<1>2. Len(blocks) + 1 \in DOMAIN blocks' /\ blocks'[Len(blocks) + 1] = b
  BY <1>1, Ending
<1>3. b.start <= o /\ o < b.end
  BY <1>1, State
<1> QED BY <1>2, <1>3 DEF InBlock

\* The offsets of a match are in a delimiter.
LEMMA InMatch ==
    ASSUME Size \in Nat, NEW p \in 0 .. Size - 1, NEW m \in MatchesAt(p), m.at = p, m.type # "NewLine",
           NEW o \in p .. m.end - 1
    PROVE  InDelimiter(o)
BY DEF InDelimiter

\* The handlers of delimiters leave out only what may be lost.
LEMMA CoveredKind ==
    ASSUME Types, CurInv, Covered, Kind
    PROVE  Covered'
<1>0. /\ Size \in Nat /\ from \in Nat /\ cur.start \in Nat /\ IsText
      /\ text' = text /\ setts' = setts /\ cur.type \in BlockTypes /\ cur.start <= Size
  BY State, SameInput DEF Step
<1>1. Handled /\ status = "running" /\ Match.type # "NewLine"
  BY DEF Kind, Ignored, Ended, Began, Passed, Failed, Handled
<1>2. PICK p \in from .. Size - 1, d \in Nat :
              /\ Match \in MatchesAt(p)
              /\ Match.at = p /\ Match.end = d /\ p < d /\ d <= Size
              /\ cur.start <= p
  BY <1>1, AtMatch
<1>3. p \in Nat /\ p < Size /\ p \in 0 .. Size - 1
  BY <1>0, <1>2
<1>4. \A o \in p .. d - 1 : InDelimiter(o)
  BY <1>0, <1>1, <1>2, <1>3, InMatch
<1>5. CASE Ignored
  <2>1. blocks' = blocks /\ cur' = cur
    BY <1>5 DEF Ignored
  <2>2. \A o \in 0 .. cur.start - 1 : Excused(o)'
    BY <1>0, <1>1, <2>1, ExcusedStays DEF Covered
  <2> QED BY <2>1, <2>2 DEF Covered
<1>6. CASE Ended
  <2>1. PICK e \in 0 .. p, s \in d .. Size : EndsAt(p, e, s) /\ Spare(d, s)
    BY <1>2, <1>6, EndedFacts
  <2>2. s \in 0 .. Size /\ "RawText" \in BlockTypes /\ e \in Nat /\ s \in Nat
    BY <1>0, <1>2, <1>3, <2>1 DEF BlockTypes
  <2>3. cur'.start = s
    BY <2>1, <2>2, Starting DEF EndsAt
  <2>4. blocks' = Append(blocks, [cur EXCEPT !.end = e])
    BY <2>1 DEF EndsAt
  <2>5. ASSUME NEW o \in 0 .. s - 1
        PROVE  Excused(o)'
    <3>1. CASE o < cur.start
      <4>1. Excused(o)
        BY <1>0, <1>1, <2>5, <3>1 DEF Covered
      <4> QED BY <1>0, <2>2, <2>4, <4>1, ExcusedStays
    <3>2. CASE o \in cur.start .. e - 1
      BY <1>0, <2>2, <2>4, <3>2, InEnded, ExcusedNow
    <3>3. CASE o \in e .. p - 1
      <4>1. CASE Spare(e, p)
        BY <1>0, <3>3, <4>1, ExcusedNow DEF Spare
      <4>2. CASE e = p - 1 /\ Char(e) \in Signs
        <5>1. o = e /\ o + 1 = p
          BY <1>3, <2>2, <3>3, <4>2
        <5>2. InDelimiter(o + 1)
          BY <1>2, <1>3, <1>4, <5>1
        <5> QED BY <1>0, <4>2, <5>1, <5>2, ExcusedNow
      <4> QED BY <2>1, <4>1, <4>2 DEF EndsAt
    <3>4. CASE o \in p .. d - 1
      BY <1>0, <1>4, <3>4, ExcusedNow
    <3>5. CASE o \in d .. s - 1
      BY <1>0, <2>1, <3>5, ExcusedNow DEF Spare
    <3>6. o < cur.start \/ o \in cur.start .. e - 1 \/ o \in e .. p - 1 \/ o \in p .. d - 1 \/ o \in d .. s - 1
      BY <1>0, <1>2, <1>3, <2>2
    <3> QED BY <3>1, <3>2, <3>3, <3>4, <3>5, <3>6
  <2> QED BY <2>3, <2>5 DEF Covered
<1>7. CASE \E type \in DOMAIN Opener : Began(type)
  <2>0. PICK type \in DOMAIN Opener : Began(type)
    BY <1>7
  <2>1. PICK e \in cur.start .. p, s \in d .. Size :
              /\ blocks' = Append(blocks, [cur EXCEPT !.end = e])
              /\ Spare(e, p)
              /\ BeginsAt(type, d, s)
    BY <1>2, <2>0, BeganFacts
  <2>2. s \in 0 .. Size /\ type \in BlockTypes /\ e \in Nat /\ s \in Nat /\ d <= s
    BY <1>0, <1>2, <1>3, <2>1 DEF BlockTypes
  <2>3. cur'.start = s
    BY <2>1, <2>2, Starting DEF BeginsAt
  <2>4. ASSUME NEW o \in 0 .. s - 1
        PROVE  Excused(o)'
    <3>1. CASE o < cur.start
      <4>1. Excused(o)
        BY <1>0, <1>1, <2>4, <3>1 DEF Covered
      <4> QED BY <1>0, <2>1, <2>2, <4>1, ExcusedStays
    <3>2. CASE o \in cur.start .. e - 1
      BY <1>0, <2>1, <2>2, <3>2, InEnded, ExcusedNow
    <3>3. CASE o \in e .. p - 1
      BY <1>0, <2>1, <3>3, ExcusedNow DEF Spare
    <3>4. CASE o \in p .. d - 1
      BY <1>0, <1>4, <3>4, ExcusedNow
    <3>5. CASE o \in d .. s - 1
      <4>1. InDelimiter(d - 1)
        <5>1. d - 1 \in p .. d - 1
          BY <1>2, <1>3
        <5> QED BY <1>4, <5>1
      <4> QED BY <1>0, <2>1, <3>5, <4>1, ExcusedNow DEF BeginsAt
    <3>6. o < cur.start \/ o \in cur.start .. e - 1 \/ o \in e .. p - 1 \/ o \in p .. d - 1 \/ o \in d .. s - 1
      BY <1>0, <1>2, <1>3, <2>2
    <3> QED BY <3>1, <3>2, <3>3, <3>4, <3>5, <3>6
  <2> QED BY <2>3, <2>4 DEF Covered
<1>8. CASE Failed
  <2>1. status' # "running"
    BY <1>8 DEF Failed, Fail, ErrorCodes
  <2> QED BY <2>1 DEF Covered
<1> QED BY <1>5, <1>6, <1>7, <1>8 DEF Kind

\* The other steps leave out only what may be lost; a line statement, its new line.
LEMMA CoveredRest ==
    ASSUME Types, StartInv, CurInv, Covered, OneBlock \/ Begin \/ NewLine \/ Finish
    PROVE  Covered'
<1>0. /\ Size \in Nat /\ from \in Nat /\ cur.start \in Nat
      /\ text' = text /\ setts' = setts /\ cur.start <= Size
  BY State, SameInput DEF Step
<1>1. CASE OneBlock \/ Finish
  <2>1. status' # "running"
    BY <1>1 DEF OneBlock, Finish
  <2> QED BY <2>1 DEF Covered
<1>2. CASE Begin
  <2>1. cur.start = 0 /\ cur'.start = cur.start
    BY <1>2 DEF Begin, StartInv, Types, Blocks
  <2> QED BY <2>1 DEF Covered
<1>3. CASE NewLine
  <2>1. status = "running" /\ On("NewLine")
    BY <1>3 DEF NewLine, On
  <2>2. PICK p \in from .. Size - 1 : Match.at = p /\ Char(p) = "\n" /\ cur.start <= p + 1
    BY <2>1, AtNewLine
  <2>3. PICK type \in BlockTypes : LineEndsAt(p, type)
    BY <1>3, <2>2, NewLineFacts
  <2>4. CASE blocks' = blocks /\ cur' = [cur EXCEPT !.type = type]
    <3>1. cur'.start = cur.start
      BY <2>4 DEF Types, Blocks
    <3>2. \A o \in 0 .. cur.start - 1 : Excused(o)'
      BY <1>0, <2>1, <2>4, ExcusedStays DEF Covered
    <3> QED BY <3>1, <3>2 DEF Covered
  <2>5. CASE /\ cur.type = "LineStatement"
             /\ \E e \in cur.start .. p :
                   /\ blocks' = Append(blocks, [cur EXCEPT !.end = e])
                   /\ e = p \/ (e = p - 1 /\ Char(e) \in Signs)
             /\ cur' = [cur EXCEPT !.start = p + 1, !.type = type]
    <3>1. PICK e \in cur.start .. p :
             /\ blocks' = Append(blocks, [cur EXCEPT !.end = e])
             /\ e = p \/ (e = p - 1 /\ Char(e) \in Signs)
             /\ cur' = [cur EXCEPT !.start = p + 1, !.type = type]
             /\ cur.type = "LineStatement"
      BY <2>5
    <3>2. e \in Nat /\ p \in Nat /\ p + 1 \in 0 .. Size
      BY <1>0, <2>2, <3>1
    <3>3. cur'.start = p + 1
      BY <3>1, <3>2, Starting
    <3>4. PICK b : b = [start |-> cur.start, end |-> e, type |-> cur.type]
      OBVIOUS
    <3>5. b \in ToSet(blocks')
      BY <3>1, <3>2, <3>4, Ending DEF ToSet
    <3>6. ASSUME NEW o \in 0 .. p
          PROVE  Excused(o)'
      <4>1. CASE o < cur.start
        <5>1. Excused(o)
          BY <1>0, <2>1, <3>6, <4>1 DEF Covered
        <5> QED BY <1>0, <3>1, <3>2, <5>1, ExcusedStays
      <4>2. CASE o \in cur.start .. e - 1
        BY <1>0, <3>1, <3>2, <4>2, InEnded, ExcusedNow
      <4>3. CASE o \in e .. p
        <5>1. Char(o) \in Signs \cup {"\n"} /\ o \in e .. e + 1
          <6>1. o = p \/ (o = e /\ Char(e) \in Signs)
            BY <3>1, <3>2, <4>3
          <6>2. o \in e .. e + 1
            BY <3>1, <3>2, <4>3
          <6> QED BY <2>2, <6>1, <6>2
        <5>2. b.type = "LineStatement" /\ b.end = e
          BY <3>1, <3>4
        <5>3. EndsLineStatement(o)'
          BY <1>0, <3>5, <5>1, <5>2, SameText DEF EndsLineStatement
        <5> QED BY <1>0, <5>3, ExcusedNow
      <4>4. o < cur.start \/ o \in cur.start .. e - 1 \/ o \in e .. p
        BY <1>0, <3>2
      <4> QED BY <4>1, <4>2, <4>3, <4>4
    <3>7. \A o \in 0 .. p + 1 - 1 : Excused(o)'
      BY <3>2, <3>6
    <3> QED BY <3>3, <3>7 DEF Covered
  <2> QED BY <2>3, <2>4, <2>5 DEF LineEndsAt
<1> QED BY <1>1, <1>2, <1>3
\* What OnlyMarkupIsLost says of an offset.
Lawful(o) ==
    \/ InBlock(o)
    \/ InDelimiter(o)
    \/ Char(o) \in Signs /\ (InDelimiter(o - 1) \/ InDelimiter(o + 1) \/ AtOpenEnd(o))
    \/ IsSpace(Char(o)) /\ MayStrip
    \/ EndsLineStatement(o)
AllLawful == status = "done" => \A o \in 0 .. Size - 1 : Lawful(o)

\* The property, offset by offset.
LEMMA LostIs == OnlyMarkupIsLost <=> AllLawful
BY DEF OnlyMarkupIsLost, AllLawful, Lawful

\* The same in the next state.
LEMMA LostIsThen == OnlyMarkupIsLost' <=> AllLawful'
BY LostIs, PTL

\* What has been excused while the parser ran is so in the end.
LEMMA ExcusedIsLawful ==
    ASSUME NEW o
    PROVE  Excused(o)' => Lawful(o)'
BY DEF Excused, Lawful

\* The template has been cut.
LEMMA AllLawfulThen ==
    ASSUME Types, CurInv, Covered, Step, status' = "done"
    PROVE  AllLawful'
<1>0. /\ Size \in Nat /\ from \in Nat /\ cur.start \in Nat
      /\ text' = text /\ setts' = setts /\ cur.start <= Size /\ Size' = Size
  BY State, SameInput, SameText
<1>1. CASE OneBlock
  <2>1. PICK type : blocks' = <<[start |-> 0, end |-> Size, type |-> type]>>
    BY <1>1, Zenon DEF OneBlock
  <2>2. \A o \in 0 .. Size - 1 : InBlock(o)'
    BY <1>0, <2>1 DEF InBlock
  <2> QED BY <1>0, <2>2 DEF AllLawful, Lawful
<1>2. CASE Finish
  <2>0. status = "running"
    BY <1>2 DEF Finish
  <2>1. PICK e \in 0 .. Size :
              /\ blocks' = Append(blocks, [cur EXCEPT !.end = e])
              /\ Spare(e, Size) \/ (e = Size - 1 /\ Char(e) \in Signs /\ cur.type # "RawText")
    BY <1>2, FinishFacts
  <2>2. e \in Nat
    BY <1>0, <2>1
  <2>3. ASSUME NEW o \in 0 .. Size - 1
        PROVE  Lawful(o)'
    <3>1. CASE o < cur.start
      <4>1. Excused(o)
        BY <1>0, <2>0, <2>3, <3>1 DEF Covered
      <4> QED BY <1>0, <2>1, <2>2, <4>1, ExcusedStays, ExcusedIsLawful
    <3>2. CASE o \in cur.start .. e - 1
      BY <1>0, <2>1, <2>2, <3>2, InEnded DEF Lawful
    <3>3. CASE o \in e .. Size - 1
      <4>1. CASE Spare(e, Size)
        <5>1. Excused(o)'
          BY <1>0, <3>3, <4>1, ExcusedNow DEF Spare
        <5> QED BY <5>1, ExcusedIsLawful
      <4>2. CASE e = Size - 1 /\ Char(e) \in Signs /\ cur.type # "RawText"
        <5>1. o = e /\ o = Size' - 1 /\ Char(o)' \in Signs
          BY <1>0, <2>2, <3>3, <4>2, SameText
        <5>2. Last(blocks').type # "RawText"
          <6>1. PICK b : b = [start |-> cur.start, end |-> e, type |-> cur.type]
            OBVIOUS
          <6>2. Len(blocks') = Len(blocks) + 1 /\ blocks'[Len(blocks) + 1] = b
            BY <2>1, <2>2, <6>1, Ending
          <6> QED BY <4>2, <6>1, <6>2 DEF Last
        <5> QED BY <5>1, <5>2 DEF Lawful, AtOpenEnd
      <4> QED BY <2>1, <4>1, <4>2
    <3> QED BY <1>0, <2>2, <3>1, <3>2, <3>3
  <2> QED BY <1>0, <2>3 DEF AllLawful
<1>3. ~(Kind \/ Begin \/ NewLine)
  <2>1. ASSUME Kind PROVE FALSE
    <3>1. status' # "done"
      BY <2>1 DEF Kind, Ignored, Ended, Began, Passed, NoError, Failed, Fail, Handled, ErrorCodes
    <3> QED BY <3>1
  <2>2. ASSUME Begin \/ NewLine PROVE FALSE
    BY <2>2 DEF Begin, NewLine, On, NoError
  <2> QED BY <2>1, <2>2
<1> QED BY <1>1, <1>2, <1>3 DEF Step

\* When a template has been cut, what is in no block is markup, or white space that the
\* settings or a minus sign may strip: white space control loses no text (StripBlockLeft,
\* StripBlockRight).
THEOREM TextIsNotLost == Spec => []OnlyMarkupIsLost
<1>1. Init => Covered /\ OnlyMarkupIsLost
  BY DEF Init, Covered, OnlyMarkupIsLost
<1>2. Inv /\ Covered /\ [Next]_vars => Covered'
  <2> SUFFICES ASSUME Inv, Covered, [Next]_vars PROVE Covered'
    OBVIOUS
  <2>1. CASE Next
    <3>1. Step
      BY <2>1, Kinds DEF Inv, Step
    <3> QED BY <3>1, CoveredKind, CoveredRest DEF Inv, Step
  <2>2. CASE UNCHANGED vars
    <3>1. text' = text /\ setts' = setts /\ blocks' = blocks /\ cur' = cur /\ status' = status
      BY <2>2 DEF vars
    <3>2. \A o : Excused(o) => Excused(o)'
      BY <3>1, ExcusedStays DEF Inv
    <3> QED BY <3>1, <3>2 DEF Covered
  <2> QED BY <2>1, <2>2
<1>3. Inv /\ Covered /\ OnlyMarkupIsLost /\ [Next]_vars => OnlyMarkupIsLost'
  <2> SUFFICES ASSUME Inv, Covered, AllLawful, [Next]_vars PROVE AllLawful'
    BY LostIs, LostIsThen
  <2>1. CASE Next
    <3>1. Step
      BY <2>1, Kinds DEF Inv, Step
    <3>2. status' # "done" => AllLawful'
      BY DEF AllLawful
    <3> QED BY <3>1, <3>2, AllLawfulThen DEF Inv
  <2>2. CASE UNCHANGED vars
    <3>1. text' = text /\ setts' = setts /\ blocks' = blocks /\ status' = status
      BY <2>2 DEF vars
    <3>2. \A o : Lawful(o)' = Lawful(o)
      <4>1. TAKE o
      <4>2. InBlock(o)' = InBlock(o) /\ AtOpenEnd(o)' = AtOpenEnd(o)
        BY <3>1, SameText DEF InBlock, AtOpenEnd
      <4>3. EndsLineStatement(o)' = EndsLineStatement(o)
        BY <3>1, SameText DEF EndsLineStatement
      <4> QED BY <3>1, <4>2, <4>3, SameText, SameMarkup DEF Lawful
    <3> QED BY <3>1, <3>2, SameText DEF AllLawful
  <2> QED BY <2>1, <2>2
<1> QED BY <1>1, <1>2, <1>3, RoughInvariant, PTL DEF Spec
-----------------------------------------------------------------------------
(* Lines. *)

\* Where the lines of the template are does not change.
LEMMA SameLines ==
    ASSUME text' = text
    PROVE  /\ TagsOnOneLine' = TagsOnOneLine
           /\ \A a, b : Begins(a, b)' = Begins(a, b) /\ NoNewLine(a, b)' = NoNewLine(a, b)
           /\ \A o : TruePos(o)' = TruePos(o)
<1>1. \A o : LinesBefore(o)' = LinesBefore(o)
  BY SameText DEF LinesBefore
<1>2. TagsOnOneLine' = TagsOnOneLine
  BY SameText DEF TagsOnOneLine
<1>3. \A a, b : Begins(a, b)' = Begins(a, b) /\ NoNewLine(a, b)' = NoNewLine(a, b)
  BY <1>1, SameText DEF Begins, NoNewLine
<1>4. \A o : TruePos(o)' = TruePos(o)
  BY <1>1 DEF TruePos
<1> QED BY <1>2, <1>3, <1>4

\* The place of an offset on the line that begins at s.
LEMMA PlaceIs ==
    ASSUME NEW s \in Nat, NEW o \in Nat, s <= o, NEW n, Begins(s, n), NoNewLine(s, o)
    PROVE  TruePos(o) = <<n + 1, o - s + 1>>
<1>1. PICK S : S = LinesBefore(o)
  OBVIOUS
<1>2. S = LinesBefore(s)
  BY <1>1 DEF LinesBefore, NoNewLine
<1>3. Cardinality(S) = n
  BY <1>2 DEF Begins
<1>4. CASE s = 0
  <2>1. S = {}
    BY <1>2, <1>4 DEF LinesBefore
  <2> QED BY <1>1, <1>3, <1>4, <2>1 DEF TruePos
<1>5. CASE s > 0
  <2>1. s - 1 \in S
    BY <1>2, <1>5 DEF Begins, LinesBefore
  <2>2. S \subseteq 0 .. s - 1 /\ s - 1 \in Nat
    BY <1>2, <1>5 DEF LinesBefore
  <2>3. Max(S) \in S /\ s - 1 <= Max(S)
    BY <2>1, <2>2, Greatest
  <2>4. Max(S) + 1 = s
    <3>1. PICK x : x = Max(S)
      OBVIOUS
    <3>2. x \in 0 .. s - 1 /\ s - 1 <= x
      BY <2>2, <2>3, <3>1
    <3>3. x + 1 = s
      BY <3>2
    <3> QED BY <3>1, <3>3
  <2> QED BY <1>1, <1>3, <2>1, <2>4 DEF TruePos
<1> QED BY <1>4, <1>5

\* Behind a new line the next line begins.
LEMMA NextLine ==
    ASSUME NEW s \in Nat, NEW p \in Nat, s <= p, NEW n \in Nat, Begins(s, n), NoNewLine(s, p),
           Char(p) = "\n"
    PROVE  Begins(p + 1, n + 1)
<1>1. LinesBefore(p + 1) = LinesBefore(s) \cup {p}
  BY DEF LinesBefore, NoNewLine
<1>2. p \notin LinesBefore(s)
  BY DEF LinesBefore
<1>3. IsFiniteSet(LinesBefore(s))
  <2>1. LinesBefore(s) \subseteq 0 .. s - 1 /\ IsFiniteSet(0 .. s - 1)
    BY FS_Interval DEF LinesBefore
  <2> QED BY <2>1, FS_Subset
<1>4. Cardinality(LinesBefore(p + 1)) = n + 1
  BY <1>1, <1>2, <1>3, FS_AddElement DEF Begins
<1> QED BY <1>4 DEF Begins

\* The first line begins at 0.
LEMMA FirstLine == Begins(0, 0)
<1>1. LinesBefore(0) = {}
  BY DEF LinesBefore
<1> QED BY <1>1, FS_EmptySet DEF Begins

\* A delimiter is on one line, and so are the offsets without a match.
LEMMA MatchOnLine ==
    ASSUME IsText, TagsOnOneLine, NEW p \in Nat, p < Size, NEW m \in MatchesAt(p), m.type # "NewLine"
    PROVE  NoNewLine(p, m.end)
<1>0. Size \in Nat
  BY TextFacts
<1>1. MatchIs(p, m) /\ m.at = p
  BY Matches DEF MatchIs
<1>2. CASE m.type \in PairTypes
  <2>1. m.end = p + 2 /\ Char(p) = First(m.type) /\ Char(p + 1) = Second(m.type)
    BY <1>1, <1>2 DEF MatchIs, PairTypes, TagTypes
  <2>2. First(m.type) # "\n" /\ Second(m.type) # "\n"
    BY DEF First, Second
  <2>3. \A k \in p .. p + 2 - 1 : k = p \/ k = p + 1
    OBVIOUS
  <2> QED BY <2>1, <2>2, <2>3 DEF NoNewLine
<1>3. CASE m.type \in TagTypes
  <2>1. m.type \in DOMAIN Tags
    BY <1>3 DEF Tags, TagTypes
  <2>2. p \in 0 .. Size - 1
    BY <1>0
  <2> QED BY <1>1, <2>1, <2>2 DEF TagsOnOneLine, NoNewLine
<1> QED BY <1>1, <1>2, <1>3 DEF MatchIs

\* There is no new line where nothing matches.
LEMMA NoMatchOnLine ==
    ASSUME IsText, NEW f \in Nat, NEW p \in 0 .. Size, \A j \in f .. p - 1 : MatchesAt(j) = {}
    PROVE  NoNewLine(f, p)
<1>0. Size \in Nat
  BY TextFacts
<1> SUFFICES ASSUME NEW k \in f .. p - 1, Char(k) = "\n" PROVE FALSE
  BY DEF NoNewLine
<1>1. k \in Nat /\ k < Size /\ MatchesAt(k) = {}
  BY <1>0
<1> QED BY <1>1, NewLineMatches

\* Two spans without a new line, joined.
LEMMA Joined ==
    ASSUME NEW a \in Nat, NEW b \in Nat, NEW c \in Nat, NoNewLine(a, b), NoNewLine(b, c)
    PROVE  NoNewLine(a, c)
BY DEF NoNewLine

\* A line ends.
LEMMA LineAppended ==
    ASSUME Types, text' = text, LinesAre, NEW e \in Nat, FinishCurrentLine(e), line.start <= e,
           line.number = Len(lines), Begins(line.start, line.number), NoNewLine(line.start, e)
    PROVE  /\ LinesAre' /\ Len(lines') = Len(lines) + 1
           /\ \A o : OnALine(o) => OnALine(o)'
           /\ \A o \in line.start .. e - 1 : OnALine(o)'
           /\ lines'[Len(lines')].end = e /\ lines' # <<>>
<1>1. /\ lines' \in Seq(Lines) /\ Len(lines') = Len(lines) + 1 /\ Len(lines) \in Nat
      /\ lines'[Len(lines) + 1] = [start |-> line.start, end |-> e, number |-> line.number]
      /\ \A i \in DOMAIN lines : lines'[i] = lines[i]
      /\ DOMAIN lines = 1 .. Len(lines) /\ DOMAIN lines' = 1 .. Len(lines) + 1
  BY LineEnding
<1>2. PICK n \in Nat : n = Len(lines)
  BY <1>1
<1>3. /\ lines'[n + 1].start = line.start /\ lines'[n + 1].end = e /\ lines'[n + 1].number = n
      /\ n + 1 \in DOMAIN lines' /\ line.start \in Nat
  BY <1>1, <1>2, State
<1>4. ASSUME NEW i \in 1 .. n + 1
      PROVE  /\ lines'[i].number = i - 1 /\ lines'[i].start <= lines'[i].end
             /\ Begins(lines[i].start, i - 1)' /\ NoNewLine(lines[i].start, lines[i].end)'
  <2>1. CASE i = n + 1
    <3>1. Begins(line.start, i - 1) /\ NoNewLine(line.start, e) /\ i - 1 = n
      BY <1>2, <2>1
    <3> QED BY <1>3, <2>1, <3>1, SameLines
  <2>2. CASE i # n + 1
    <3>1. i \in DOMAIN lines /\ lines'[i] = lines[i]
      BY <1>1, <1>2, <2>2
    <3> QED BY <3>1, SameLines DEF LinesAre
  <2> QED BY <2>1, <2>2
<1>5. LinesAre'
  BY <1>1, <1>2, <1>4 DEF LinesAre
<1>6. ASSUME NEW o, OnALine(o) PROVE OnALine(o)'
  BY <1>1, <1>6 DEF OnALine
<1>7. ASSUME NEW o \in line.start .. e - 1 PROVE OnALine(o)'
  BY <1>3 DEF OnALine
<1>8. lines' # <<>>
  BY <1>1
<1> QED BY <1>1, <1>2, <1>3, <1>5, <1>6, <1>7, <1>8

\* Lines stay what they are.
LEMMA LineKept ==
    ASSUME text' = text, lines' = lines
    PROVE  LinesAre' = LinesAre /\ \A o : OnALine(o)' = OnALine(o)
<1>1. LinesAre' = LinesAre
  BY SameLines DEF LinesAre
<1>2. \A o : OnALine(o)' = OnALine(o)
  BY DEF OnALine
<1> QED BY <1>1, <1>2
\* The place of the meta block stays as long as the block may count.
LEMMA MetaStays ==
    ASSUME text' = text, meta' = meta, MetaPlace,
           cur'.type = "MetaBlock" \/ hasMeta' => cur.type = "MetaBlock" \/ hasMeta
    PROVE  MetaPlace'
BY SameText, SameLines DEF MetaPlace

\* The handlers of delimiters keep lines, errors and the place of the meta block right.
LEMMA LinesKind ==
    ASSUME Types, CurInv, TagsOnOneLine, AllLines, Kind
    PROVE  AllLines'
<1>0. /\ Size \in Nat /\ from \in Nat /\ cur.start \in Nat /\ IsText /\ text' = text
      /\ line.start \in Nat /\ line.number \in Nat /\ line.start <= from /\ cur.start <= Size
  BY State, SameInput DEF Step
<1>1. Handled /\ status = "running" /\ Match.type # "NewLine" /\ Pass
  BY DEF Kind, Ignored, Ended, Began, Passed, Failed, Fail, Handled
<1>2. PICK p \in from .. Size - 1, d \in Nat :
              /\ Match \in MatchesAt(p)
              /\ Match.at = p /\ Match.end = d /\ p < d /\ d <= Size
              /\ \A j \in from .. p - 1 : MatchesAt(j) = {}
  BY <1>1, AtMatch
<1>3. p \in Nat /\ p < Size /\ p \in 0 .. Size - 1 /\ p \in 0 .. Size /\ from' = d
      /\ line.start <= p /\ line.start <= d
  BY <1>0, <1>1, <1>2 DEF Pass
<1>4. /\ line.number = Len(lines) /\ Begins(line.start, line.number) /\ NoNewLine(line.start, from)
      /\ \A o \in 0 .. line.start - 1 : Char(o) = "\n" \/ OnALine(o)
  BY <1>1 DEF AllLines, LineIs
<1>5. NoNewLine(line.start, p) /\ NoNewLine(line.start, d)
  <2>1. NoNewLine(from, p)
    BY <1>0, <1>2, <1>3, NoMatchOnLine
  <2>2. NoNewLine(p, d)
    BY <1>0, <1>1, <1>2, <1>3, MatchOnLine
  <2>3. NoNewLine(line.start, p)
    BY <1>0, <1>3, <1>4, <2>1, Joined
  <2> QED BY <1>0, <1>2, <1>3, <2>2, <2>3, Joined
<1>6. CASE Passed
  <2>1. lines' = lines /\ line' = line /\ status' = status
    BY <1>6 DEF Passed, NoError, SameLine
  <2>2. LinesAre'
    BY <1>0, <2>1, LineKept DEF AllLines
  <2>3. LineIs'
    BY <1>0, <1>1, <1>3, <1>4, <1>5, <2>1, SameText, SameLines, LineKept DEF LineIs
  <2>4. AllOnLines' /\ ErrorOnLine'
    BY <1>1, <2>1 DEF AllOnLines, ErrorOnLine, ErrorCodes
  <2>5. MetaPlace'
    <3>1. CASE Ignored
      <4>1. meta' = meta /\ cur' = cur /\ hasMeta' = hasMeta
        BY <3>1 DEF Ignored, SameMeta
      <4> QED BY <1>0, <4>1, MetaStays DEF AllLines
    <3>2. CASE Ended
      <4>1. PICK e \in 0 .. p, s \in d .. Size : EndsAt(p, e, s)
        BY <1>2, <3>2, EndedFacts
      <4>2. cur'.type = "RawText"
        <5>1. s \in 0 .. Size /\ "RawText" \in BlockTypes
          BY <1>0, <1>2, <1>3, <4>1 DEF BlockTypes
        <5> QED BY <4>1, <5>1, Starting DEF EndsAt
      <4>3. meta' = meta /\ (hasMeta' # hasMeta => cur.type = "MetaBlock")
        BY <3>2 DEF Ended
      <4> QED BY <1>0, <4>2, <4>3, MetaStays DEF AllLines
    <3>3. CASE \E type \in DOMAIN Opener : Began(type)
      <4>0. PICK type \in DOMAIN Opener : Began(type)
        BY <3>3
      <4>1. PICK e \in cur.start .. p, s \in d .. Size : BeginsAt(type, d, s)
        BY <1>2, <4>0, BeganFacts
      <4>2. cur'.type = type
        <5>1. s \in 0 .. Size /\ type \in BlockTypes
          BY <1>0, <1>2, <1>3, <4>1 DEF BlockTypes
        <5> QED BY <4>1, <5>1, Starting DEF BeginsAt
      <4>3. /\ Match.type = Opener[type] /\ hasMeta' = hasMeta
            /\ meta' = IF type = "MetaBlock" THEN <<line.number + 1, p - line.start + 1>> ELSE meta
        BY <1>2, <4>0 DEF Began
      <4>4. CASE type = "MetaBlock"
        <5>1. meta' = TruePos(p)
          BY <1>0, <1>3, <1>4, <1>5, <4>3, <4>4, PlaceIs
        <5>2. Match.type = "MetaBegin"
          BY <4>3, <4>4, Openers
        <5> QED BY <1>0, <1>2, <1>3, <5>1, <5>2, SameText, SameLines DEF MetaPlace
      <4>5. CASE type # "MetaBlock"
        BY <1>0, <4>2, <4>3, <4>5, MetaStays DEF AllLines
      <4> QED BY <4>4, <4>5
    <3>4. CASE Failed
      <4>1. FALSE
        BY <1>1, <2>1, <3>4 DEF Failed, Fail, ErrorCodes
      <4> QED BY <4>1
    <3> QED BY <3>1, <3>2, <3>3, <3>4 DEF Kind
  <2> QED BY <2>2, <2>3, <2>4, <2>5 DEF AllLines
<1>7. CASE Failed
  <2>1. PICK code \in ErrorCodes : Fail(code)
    BY <1>7 DEF Failed
  <2>2. /\ status' = code /\ errorAt' = p /\ FinishCurrentLine(d)
        /\ meta' = meta /\ hasMeta' = hasMeta /\ cur' = cur
    BY <1>2, <2>1 DEF Fail, SameMeta
  <2>3. LinesAre' /\ \A o \in line.start .. d - 1 : OnALine(o)'
    BY <1>0, <1>2, <1>3, <1>4, <1>5, <2>2, LineAppended DEF AllLines
  <2>4. OnALine(errorAt)'
    <3>1. p \in line.start .. d - 1
      BY <1>0, <1>2, <1>3
    <3>2. OnALine(p)'
      BY <2>3, <3>1
    <3> QED BY <2>2, <3>2 DEF OnALine
  <2>5. status' \notin {"start", "running", "done"}
    BY <2>2 DEF ErrorCodes
  <2>6. MetaPlace'
    BY <1>0, <2>2, MetaStays DEF AllLines
  <2> QED BY <2>3, <2>4, <2>5, <2>6 DEF AllLines, LineIs, AllOnLines, ErrorOnLine
<1> QED BY <1>6, <1>7 DEF Kind, Ignored, Ended, Began

\* The other steps keep them right.
LEMMA LinesRest ==
    ASSUME Types, StartInv, CurInv, TagsOnOneLine, AllLines, OneBlock \/ Begin \/ NewLine \/ Finish
    PROVE  AllLines'
<1>0. /\ Size \in Nat /\ from \in Nat /\ cur.start \in Nat /\ IsText /\ text' = text /\ from <= Size
      /\ line.start \in Nat /\ line.number \in Nat /\ line.start <= from /\ cur.start <= Size
      /\ Size \in 0 .. Size /\ Size' = Size
  <2>1. text' = text
    BY SameInput DEF Step
  <2> QED BY <2>1, State, SameText
<1>1. ASSUME status = "running"
      PROVE  /\ line.number = Len(lines) /\ Begins(line.start, line.number)
             /\ NoNewLine(line.start, from)
             /\ \A o \in 0 .. line.start - 1 : Char(o) = "\n" \/ OnALine(o)
  BY <1>1 DEF AllLines, LineIs
<1>2. CASE OneBlock
  <2>1. /\ lines' = <<[start |-> 0, end |-> Size, number |-> 0]>> /\ status' = "done"
        /\ UNCHANGED <<cur, meta, hasMeta>> /\ status = "start" /\ MatchOffsets(0) = {}
    BY <1>2, Zenon DEF OneBlock
  <2>2. NoNewLine(0, Size)
    <3>1. \A j \in 0 .. Size - 1 : MatchesAt(j) = {}
      BY <2>1 DEF MatchOffsets
    <3> QED BY <1>0, <3>1, NoMatchOnLine
  <2>3. LinesAre'
    <3>1. DOMAIN lines' = {1} /\ lines'[1].start = 0 /\ lines'[1].end = Size /\ lines'[1].number = 0
      BY <2>1
    <3>2. Begins(0, 0)' /\ NoNewLine(0, Size)'
      BY <1>0, <2>2, FirstLine, SameLines
    <3> QED BY <1>0, <3>1, <3>2 DEF LinesAre
  <2>4. \A o \in 0 .. Size - 1 : OnALine(o)'
    <3>1. 1 \in DOMAIN lines' /\ lines'[1].start = 0 /\ lines'[1].end = Size
      BY <2>1
    <3> QED BY <1>0, <3>1 DEF OnALine
  <2>5. MetaPlace'
    BY <1>0, <2>1, MetaStays DEF AllLines
  <2> QED BY <1>0, <2>1, <2>3, <2>4, <2>5 DEF AllLines, LineIs, AllOnLines, ErrorOnLine, ErrorCodes
<1>3. CASE Begin
  <2>1. /\ status = "start" /\ status' = "running" /\ UNCHANGED <<from, lines, line, meta, hasMeta>>
        /\ cur' = [cur EXCEPT !.type = IF StartsLineStatement(0) THEN "LineStatement" ELSE @]
    BY <1>3 DEF Begin
  <2>2. cur'.type # "MetaBlock"
    BY <2>1 DEF StartInv, Types, Blocks
  <2>3. LinesAre'
    BY <1>0, <2>1, LineKept DEF AllLines
  <2>4. LineIs'
    <3>1. /\ line.number = Len(lines) /\ Begins(line.start, line.number)
          /\ NoNewLine(line.start, from)
          /\ \A o \in 0 .. line.start - 1 : Char(o) = "\n" \/ OnALine(o)
      BY <2>1 DEF AllLines, LineIs
    <3> QED BY <1>0, <2>1, <3>1, SameText, SameLines, LineKept DEF LineIs
  <2>5. MetaPlace'
    BY <1>0, <2>1, <2>2, MetaStays DEF AllLines
  <2> QED BY <2>1, <2>3, <2>4, <2>5 DEF AllLines, AllOnLines, ErrorOnLine, ErrorCodes
<1>4. CASE NewLine
  <2>1. status = "running" /\ On("NewLine")
    BY <1>4 DEF NewLine, On
  <2>2. PICK p \in from .. Size - 1 :
              /\ Match.at = p /\ Match.end = p + 1 /\ Char(p) = "\n"
              /\ \A j \in from .. p - 1 : MatchesAt(j) = {}
    BY <2>1, AtNewLine
  <2>3. /\ FinishCurrentLine(p) /\ status' = status /\ meta' = meta /\ hasMeta' = hasMeta
        /\ from' = p + 1
        /\ line' = [line EXCEPT !.end = p, !.start = p + 1, !.number = @ + 1]
    BY <1>4, <2>2 DEF NewLine, Pass, NoError, SameMeta
  <2>4. p \in Nat /\ p \in 0 .. Size /\ line.start <= p
    BY <1>0, <2>2
  <2>5. NoNewLine(line.start, p)
    <3>1. NoNewLine(from, p)
      BY <1>0, <2>2, <2>4, NoMatchOnLine
    <3> QED BY <1>0, <1>1, <2>1, <2>4, <3>1, Joined
  <2>6. /\ LinesAre' /\ Len(lines') = Len(lines) + 1
        /\ \A o : OnALine(o) => OnALine(o)'
        /\ \A o \in line.start .. p - 1 : OnALine(o)'
    BY <1>0, <1>1, <2>1, <2>3, <2>4, <2>5, LineAppended DEF AllLines
  <2>7. line'.start = p + 1 /\ line'.number = line.number + 1
    BY <2>3 DEF Types, Lines
  <2>8. Begins(p + 1, line.number + 1)
    BY <1>0, <1>1, <2>1, <2>2, <2>4, <2>5, NextLine
  <2>9. NoNewLine(p + 1, p + 1)
    BY <2>4 DEF NoNewLine
  <2>10. ASSUME NEW o \in 0 .. p PROVE Char(o)' = "\n" \/ OnALine(o)'
    <3>1. CASE o < line.start
      BY <1>0, <1>1, <2>1, <2>6, <2>10, <3>1, SameText
    <3>2. CASE o \in line.start .. p - 1
      BY <2>6, <3>2
    <3>3. CASE o = p
      BY <1>0, <2>2, <3>3, SameText
    <3> QED BY <1>0, <2>4, <3>1, <3>2, <3>3
  <2>11. LineIs'
    <3>1. \A o \in 0 .. p + 1 - 1 : Char(o)' = "\n" \/ OnALine(o)'
      BY <2>4, <2>10
    <3> QED BY <1>0, <1>1, <2>1, <2>3, <2>6, <2>7, <2>8, <2>9, <3>1, SameLines DEF LineIs
  <2>12. cur'.type = "MetaBlock" => cur.type = "MetaBlock"
    <3>1. PICK type \in BlockTypes : LineEndsAt(p, type)
      BY <1>4, <2>2, NewLineFacts
    <3>2. cur'.type = type
      BY <3>1 DEF LineEndsAt, Types, Blocks
    <3> QED BY <3>1, <3>2 DEF LineEndsAt
  <2>13. MetaPlace'
    BY <1>0, <2>3, <2>12, MetaStays DEF AllLines
  <2> QED BY <2>1, <2>3, <2>6, <2>11, <2>13 DEF AllLines, AllOnLines, ErrorOnLine, ErrorCodes
<1>5. CASE Finish
  <2>1. /\ status = "running" /\ MatchOffsets(from) = {} /\ FinishCurrentLine(Size)
        /\ meta' = meta /\ hasMeta' = hasMeta
        /\ cur' = cur \/ cur' = [cur EXCEPT !.type = "RawText"]
        /\ status' \in ErrorCodes => errorAt' = Size
        /\ status' \in ErrorCodes \cup {"done"}
    BY <1>5 DEF Finish, SameMeta, ErrorCodes
  <2>2. NoNewLine(line.start, Size)
    <3>1. NoNewLine(from, Size)
      BY <1>0, <2>1, NoMatch, NoMatchOnLine
    <3> QED BY <1>0, <1>1, <2>1, <3>1, Joined
  <2>3. /\ LinesAre' /\ \A o : OnALine(o) => OnALine(o)'
        /\ \A o \in line.start .. Size - 1 : OnALine(o)'
        /\ lines'[Len(lines')].end = Size /\ lines' # <<>>
    BY <1>0, <1>1, <2>1, <2>2, LineAppended DEF AllLines
  <2>4. ASSUME NEW o \in 0 .. Size - 1 PROVE Char(o)' = "\n" \/ OnALine(o)'
    <3>1. CASE o < line.start
      BY <1>0, <1>1, <2>1, <2>3, <2>4, <3>1, SameText
    <3>2. CASE o \in line.start .. Size - 1
      BY <2>3, <3>2
    <3> QED BY <1>0, <3>1, <3>2
  <2>5. AllOnLines' /\ ErrorOnLine'
    BY <1>0, <2>1, <2>3, <2>4 DEF AllOnLines, ErrorOnLine, ErrorCodes
  <2>6. cur'.type = "MetaBlock" => cur.type = "MetaBlock"
    BY <2>1 DEF Types, Blocks
  <2>7. MetaPlace'
    BY <1>0, <2>1, <2>6, MetaStays DEF AllLines
  <2>8. LineIs'
    BY <2>1 DEF LineIs, ErrorCodes
  <2> QED BY <2>3, <2>5, <2>7, <2>8 DEF AllLines
<1> QED BY <1>2, <1>3, <1>4, <1>5
\* The caret is put below the column it is given.
LEMMA Caret ==
    ASSUME NEW i, NEW col \in Int, lines[i].start \in Nat, lines[i].end \in Nat,
           lines[i].start <= lines[i].end
    PROVE  CaretColumn(<<i, col + 1>>) = col
<1>1. PICK l : l = lines[i]
  OBVIOUS
<1>2. PICK n \in Nat : n = l.end - l.start
  BY <1>1
<1> DEFINE S == {k \in 0 .. l.end - l.start :
                    \A j \in l.start .. l.start + k - 1 : IsSpace(Char(j))}
<1>3. PICK prefix : prefix = Max(S)
  OBVIOUS
<1>4. prefix \in Int
  <2>1. S \subseteq 0 .. n
    BY <1>2
  <2>2. 0 \in S
    BY <1>1, <1>2
  <2>3. prefix \in S
    <3> HIDE DEF S
    <3> QED BY <1>3, <2>1, <2>2, Greatest
  <2> QED BY <2>1, <2>3
<1>5. PICK c : c = CaretColumn(<<i, col + 1>>)
  OBVIOUS
<1>6. PICK head : head = IF col - prefix < 3 THEN col - prefix ELSE 3
  OBVIOUS
<1>7. c = IF col < prefix THEN col ELSE prefix + (IF head = 3 THEN col - head - prefix ELSE 0) + head
  <2>1. <<i, col + 1>>[1] = i /\ <<i, col + 1>>[2] - 1 = col
    OBVIOUS
  <2> QED BY <1>1, <1>3, <1>5, <1>6, <2>1 DEF CaretColumn
<1>8. c = col
  <2>1. CASE col < prefix
    BY <1>7, <2>1
  <2>2. CASE ~(col < prefix) /\ col - prefix < 3
    <3>1. head = col - prefix /\ head # 3
      BY <1>4, <1>6, <2>2
    <3>2. c = prefix + 0 + head
      BY <1>7, <2>2, <3>1
    <3> QED BY <1>4, <3>1, <3>2
  <2>3. CASE ~(col < prefix) /\ ~(col - prefix < 3)
    <3>1. head = 3
      BY <1>4, <1>6, <2>3
    <3>2. c = prefix + (col - 3 - prefix) + 3
      BY <1>7, <2>3, <3>1
    <3> QED BY <1>4, <3>2
  <2> QED BY <2>1, <2>2, <2>3
<1> QED BY <1>5, <1>8

\* An offset that a line has, or at which the last one ends, is found.
LEMMA Locates ==
    ASSUME Types, LinesAre, NEW o \in Nat,
           OnALine(o) \/ (lines # <<>> /\ o = lines[Len(lines)].end)
    PROVE  Located(o)
<1>1. /\ lines \in Seq(Lines) /\ Len(lines) \in Nat /\ DOMAIN lines = 1 .. Len(lines)
      /\ \A i \in DOMAIN lines : lines[i].start \in Nat /\ lines[i].end \in Nat
  <2>1. lines \in Seq(Lines)
    BY DEF Types
  <2>2. \A i \in DOMAIN lines : lines[i] \in Lines
    BY <2>1
  <2> QED BY <2>1, <2>2, LenProperties DEF Lines
<1>2. PICK having : having = {i \in DOMAIN lines : lines[i].start <= o /\ o < lines[i].end}
  OBVIOUS
<1>3. PICK i : i = IF having # {} THEN Min(having) ELSE Len(lines)
  OBVIOUS
<1>4. OffsetToLinePos(o) = IF having # {} \/ (lines # <<>> /\ o = lines[i].end)
                           THEN <<lines[i].number + 1, o - lines[i].start + 1>>
                           ELSE <<1, 1>>
  BY <1>2, <1>3, Zenon DEF OffsetToLinePos
<1>5. i \in DOMAIN lines /\ lines[i].start <= o /\ o <= lines[i].end
      /\ (having # {} \/ (lines # <<>> /\ o = lines[i].end))
  <2>1. CASE having # {}
    <3>1. having \subseteq Nat
      BY <1>1, <1>2
    <3>2. i \in having
      BY <1>3, <2>1, <3>1, Least
    <3> QED BY <1>1, <1>2, <2>1, <3>2
  <2>2. CASE having = {}
    <3>1. ~OnALine(o)
      BY <1>2, <2>2 DEF OnALine
    <3>2. lines # <<>> /\ o = lines[i].end /\ i = Len(lines)
      BY <1>3, <2>2, <3>1
    <3>3. i \in DOMAIN lines
      BY <1>1, <3>2
    <3> QED BY <1>1, <3>2, <3>3 DEF LinesAre
  <2> QED BY <2>1, <2>2
<1>6. PICK s \in Nat, e \in Nat : s = lines[i].start /\ e = lines[i].end
  BY <1>1, <1>5
<1>7. i \in Nat /\ lines[i].number + 1 = i /\ Begins(s, i - 1) /\ NoNewLine(s, e)
      /\ s <= o /\ o <= e
  BY <1>1, <1>5, <1>6 DEF LinesAre
<1>8. NoNewLine(s, o)
  BY <1>6, <1>7 DEF NoNewLine
<1>9. TruePos(o) = <<i, (o - s) + 1>>
  <2>1. TruePos(o) = <<i - 1 + 1, o - s + 1>>
    BY <1>7, <1>8, PlaceIs
  <2> QED BY <1>7, <2>1
<1>10. OffsetToLinePos(o) = TruePos(o)
  BY <1>4, <1>5, <1>6, <1>7, <1>9
<1>11. CaretColumn(TruePos(o)) = TruePos(o)[2] - 1
  <2>1. CaretColumn(<<i, (o - s) + 1>>) = o - s
    BY <1>6, <1>7, Caret
  <2>2. TruePos(o)[2] - 1 = o - s
    BY <1>9
  <2> QED BY <1>9, <2>1, <2>2
<1> QED BY <1>10, <1>11 DEF Located

\* The invariant of the lines gives the property.
LEMMA RightIf ==
    ASSUME Types, LineInv
    PROVE  LocationsAreRight
<1> SUFFICES ASSUME TagsOnOneLine
             PROVE  /\ status = "done" => \A o \in 0 .. Size - 1 : Char(o) = "\n" \/ Located(o)
                    /\ status \in ErrorCodes => Located(errorAt)
                    /\ hasMeta => \E k \in 0 .. Size - 1 : \E m \in MatchesAt(k) :
                                      m.type = "MetaBegin" /\ meta = TruePos(k)
  BY DEF LocationsAreRight
<1>1. AllLines /\ errorAt \in Nat /\ Size \in Nat
  BY State DEF LineInv, Types
<1>2. ASSUME status = "done", NEW o \in 0 .. Size - 1 PROVE Char(o) = "\n" \/ Located(o)
  <2>1. o \in Nat
    BY <1>1
  <2> QED BY <1>1, <1>2, <2>1, Locates DEF AllLines, AllOnLines
<1>3. ASSUME status \in ErrorCodes PROVE Located(errorAt)
  BY <1>1, <1>3, Locates DEF AllLines, ErrorOnLine
<1>4. hasMeta => \E k \in 0 .. Size - 1 : \E m \in MatchesAt(k) :
                     m.type = "MetaBegin" /\ meta = TruePos(k)
  BY <1>1 DEF AllLines, MetaPlace
<1> QED BY <1>2, <1>3, <1>4

\* The line and the column of an error, of the meta block and of every offset are the true
\* ones, and the caret is put under it, in templates with their tags on one line each
\* (FinishCurrentLine, OffsetToLinePos, GetLocationDescr).
THEOREM PlacesAreRight == Spec => []LocationsAreRight
<1>1. Init => LineInv
  <2> SUFFICES ASSUME Init, TagsOnOneLine PROVE AllLines
    BY DEF LineInv
  <2>1. /\ lines = <<>> /\ line.start = 0 /\ line.number = 0 /\ from = 0 /\ status = "start"
        /\ cur.type = "RawText" /\ ~hasMeta
    BY DEF Init
  <2>2. LineIs
    <3>1. Len(lines) = 0
      BY <2>1
    <3>2. NoNewLine(0, 0) /\ \A o \in 0 .. 0 - 1 : FALSE
      BY DEF NoNewLine
    <3> QED BY <2>1, <3>1, <3>2, FirstLine DEF LineIs
  <2>3. LinesAre
    BY <2>1 DEF LinesAre
  <2> QED BY <2>1, <2>2, <2>3 DEF AllLines, AllOnLines, ErrorOnLine, ErrorCodes, MetaPlace
<1>2. Inv /\ LineInv /\ [Next]_vars => LineInv'
  <2> SUFFICES ASSUME Inv, LineInv, [Next]_vars PROVE LineInv'
    OBVIOUS
  <2>1. CASE Next
    <3>1. Step
      BY <2>1, Kinds DEF Inv, Step
    <3>2. text' = text
      BY <3>1, SameInput
    <3> SUFFICES ASSUME TagsOnOneLine PROVE AllLines'
      BY <3>2, SameLines DEF LineInv
    <3>3. AllLines
      BY DEF LineInv
    <3> QED BY <3>1, <3>3, LinesKind, LinesRest DEF Inv, Step
  <2>2. CASE UNCHANGED vars
    <3>1. /\ text' = text /\ from' = from /\ lines' = lines /\ cur' = cur /\ line' = line
          /\ meta' = meta /\ hasMeta' = hasMeta /\ status' = status /\ errorAt' = errorAt
      BY <2>2 DEF vars
    <3>2. LinesAre' = LinesAre /\ \A o : OnALine(o)' = OnALine(o)
      BY <3>1, LineKept
    <3>3. LineIs' = LineIs
      BY <3>1, <3>2, SameText, SameLines DEF LineIs
    <3>4. AllOnLines' = AllOnLines
      BY <3>1, <3>2, SameText DEF AllOnLines
    <3>5. ErrorOnLine' = ErrorOnLine
      BY <3>1 DEF ErrorOnLine, OnALine
    <3>6. MetaPlace => MetaPlace'
      BY <3>1, MetaStays
    <3> QED BY <3>1, <3>2, <3>3, <3>4, <3>5, <3>6, SameLines DEF LineInv, AllLines
  <2> QED BY <2>1, <2>2
<1>3. Inv /\ LineInv => LocationsAreRight
  BY RightIf DEF Inv
<1> QED BY <1>1, <1>2, <1>3, RoughInvariant, PTL DEF Spec
=============================================================================

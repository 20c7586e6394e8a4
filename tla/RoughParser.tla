------------------------------ MODULE RoughParser ------------------------------
(***************************************************************************)
(* The first pass of TemplateParser (src/src/template_parser.h): a template *)
(* is cut into text blocks by one regular expression, and white space       *)
(* around the blocks is stripped.                                           *)
(*                                                                         *)
(* A template is a sequence of symbols: a brace, a percent sign, a hash, a  *)
(* sign, a quote, white space, the words raw, endraw, meta, endmeta, and    *)
(* any other character.  (A word counts as one symbol.)  Offsets count from *)
(* 0, as in the code.  One step handles one match of the expression.        *)
(***************************************************************************)
EXTENDS Naturals, SequencesExt

CONSTANTS
    Templates,  \* the templates
    Settings    \* records [lineStatements, trimBlocks, lstripBlocks]

ASSUME RoughAssumption ==
    /\ \A t \in Templates : t \in Seq(ToSet(t))
    /\ Settings \subseteq [lineStatements : BOOLEAN, trimBlocks : BOOLEAN, lstripBlocks : BOOLEAN]

VARIABLES
    text,       \* m_template
    setts,      \* m_settings
    from,       \* where the iterator over the matches looks on
    blocks,     \* m_textBlocks
    lines,      \* m_lines
    cur,        \* m_currentBlockInfo
    line,       \* m_currentLineInfo
    meta,       \* m_metadataLocation, <<0, 0>> while m_hasMetaBlock may become TRUE
    hasMeta,    \* m_hasMetaBlock
    status,     \* "start", "running", "done" or the code of the error
    errorAt     \* the offset of the error's token

vars == <<text, setts, from, blocks, lines, cur, line, meta, hasMeta, status, errorAt>>

ErrorCodes == {"UnexpectedCommentBegin", "UnexpectedCommentEnd", "UnexpectedExprEnd",
               "UnexpectedStmtEnd", "UnexpectedRawBegin", "UnexpectedRawEnd",
               "UnexpectedMetaBegin", "UnexpectedMetaEnd", "ExpectedRawEnd",
               "ExpectedMetaEnd"}

Signs == {"+", "-"}
IsSpace(c) == c \in {" ", "\n"}
IsBlank(c) == c = " "
Size == Len(text)
Char(o) == text[o + 1]
-----------------------------------------------------------------------------
(* The tokenizer. *)

Pairs == [ExprBegin |-> <<"{", "{">>, ExprEnd |-> <<"}", "}">>,
          StmtBegin |-> <<"{", "%">>, StmtEnd |-> <<"%", "}">>,
          CommentBegin |-> <<"{", "#">>, CommentEnd |-> <<"#", "}">>,
          NewLine |-> <<"\n">>]

Tags == [RawBegin |-> [word |-> "raw", signs |-> Signs],
         RawEnd |-> [word |-> "endraw", signs |-> Signs],
         MetaBegin |-> [word |-> "meta", signs |-> {}],
         MetaEnd |-> [word |-> "endmeta", signs |-> {}]]

\* From o to e there is {%, perhaps a sign, the word in white space, perhaps a sign, %}.
IsTag(tag, o, e) ==
    LET left == IF Char(o + 2) \in tag.signs THEN o + 3 ELSE o + 2
        right == IF Char(e - 3) \in tag.signs THEN e - 4 ELSE e - 3
    IN /\ Char(o) = "{" /\ Char(o + 1) = "%" /\ Char(e - 2) = "%" /\ Char(e - 1) = "}"
       /\ \E w \in left + 1 .. right - 1 :
             /\ Char(w) = tag.word
             /\ \A k \in left .. right : k = w \/ IsSpace(Char(k))

MatchesAt(o) ==
    LET ends == {e \in o + 7 .. Size : Char(e - 1) = "}"}
        tags == {m \in [type : DOMAIN Tags, at : {o}, end : ends] :
                    IsTag(Tags[m.type], o, m.end)}
        here == {t \in DOMAIN Pairs : o + Len(Pairs[t]) <= Size
                                     /\ SubSeq(text, o + 1, o + Len(Pairs[t])) = Pairs[t]}
    IN CASE Char(o) \notin {"{", "}", "%", "#", "\n"} -> {}
         [] tags # {} -> tags
         [] OTHER -> {[type |-> t, at |-> o, end |-> o + Len(Pairs[t])] : t \in here}

MatchOffsets(o) == {k \in o .. Size - 1 : MatchesAt(k) # {}}
Match == CHOOSE m \in MatchesAt(Min(MatchOffsets(from))) : TRUE
-----------------------------------------------------------------------------
(* White space control.  A block is a record [start, end, type].             *)

\* Mutant of StripBlockLeft: stripping goes on beyond the start of the block.
StripAnyway(block, signAt, e, doStrip) ==
    IF block.type \in {"RawText", "RawBlock"} /\ signAt < Size /\ Char(signAt) = "-"
    THEN Min({w \in 0 .. e : \A k \in w .. e - 1 : IsSpace(Char(k))})
    ELSE e
\* Where the run of these characters before offset e begins, at floor at the earliest.
RunStart(floor, e, chars) == Min({w \in floor .. e : \A k \in w .. e - 1 : Char(k) \in chars})

\* The white space that is stripped before offset e: back to the last other
\* character when a minus sign asks for it, else to the start of the line,
\* if there is nothing else.  It never goes beyond the start of the block.
StripBlockLeft(block, signAt, e, doStrip) ==
    LET sign == IF signAt < Size THEN Char(signAt) ELSE "x"
        floor == IF block.start <= e THEN block.start ELSE 0
        w == RunStart(floor, e, {" "})
    IN IF block.type \notin {"RawText", "RawBlock"} THEN e
       ELSE IF sign = "-" THEN RunStart(floor, e, {" ", "\n"})
       ELSE IF sign # "+" /\ doStrip /\ (w = floor \/ Char(w - 1) = "\n") THEN w ELSE e

\* Mutant of StripBlockRight: a plus sign is taken for a minus sign.
SkipAtAnySign(type, o, trim) ==
    IF ~(trim \/ (type # "RawText" /\ o # 0 /\ Char(o - 1) \in Signs)) THEN o + 2
    ELSE Max({k \in o + 2 .. Size : \A i \in o + 2 .. k - 1 : IsBlank(Char(i))})
\* The end of what is skipped behind the two characters at offset o: blanks, and a new line.
StripBlockRight(type, o, trim) ==
    LET sign == IF type # "RawText" /\ o # 0 THEN Char(o - 1) ELSE "x"
        doTrim == sign = "-" \/ (sign # "+" /\ trim)
        w == Max({k \in o + 2 .. Size : \A i \in o + 2 .. k - 1 : IsBlank(Char(i))})
    IN IF ~doTrim \/ o + 2 >= Size THEN o + 2
       ELSE IF w < Size /\ Char(w) = "\n" THEN w + 1 ELSE w

LStrip(next) == next # "Expression" /\ setts.lstripBlocks

\* Where FinishCurrentBlock ends the current block; o is the offset of the delimiter,
\* tagAt that of the whole tag.
BlockEnd(block, o, next, tagAt) ==
    CASE block.type \in {"RawBlock", "MetaBlock"} ->
            StripBlockLeft(block, tagAt + 2, tagAt, setts.lstripBlocks)
      [] block.type = "RawText" -> StripBlockLeft(block, o + 2, o, LStrip(next))
      [] OTHER -> IF o # 0 /\ Char(o - 1) \in Signs THEN o - 1 ELSE o

\* Where it lets the text behind begin.
NextStart(block, o, next) ==
    IF block.type \in {"RawBlock", "MetaBlock"} \/ (block.type # "RawText" /\ next = "RawText")
    THEN StripBlockRight(block.type, o, block.type # "Expression" /\ setts.trimBlocks)
    ELSE o

FinishCurrentBlock(o, next, tagAt) ==
    blocks' = Append(blocks, [cur EXCEPT !.end = BlockEnd(cur, o, next, tagAt)])

FinishCurrentLine(o) == lines' = Append(lines, [line EXCEPT !.end = o])
-----------------------------------------------------------------------------
Init ==
    /\ text \in Templates
    /\ setts \in Settings
    /\ from = 0
    /\ blocks = <<>> /\ lines = <<>>
    /\ cur = [start |-> 0, end |-> 0, type |-> "RawText"]
    /\ line = [start |-> 0, end |-> 0, number |-> 0]
    /\ meta = <<0, 0>> /\ hasMeta = FALSE
    /\ status = "start" /\ errorAt = 0

StartsLineStatement(o) == setts.lineStatements /\ Char(o) = "#"

\* A template without a match is one block and one line, whatever the settings.
OneBlock ==
    /\ status = "start" /\ MatchOffsets(0) = {}
    /\ blocks' = <<[start |-> 0, end |-> Size,
                    type |-> IF Size > 0 /\ Char(0) = "#" THEN "LineStatement" ELSE "RawText"]>>
    /\ lines' = <<[start |-> 0, end |-> Size, number |-> 0]>>
    /\ status' = "done"
    /\ UNCHANGED <<text, setts, from, cur, line, meta, hasMeta, errorAt>>

Begin ==
    /\ status = "start" /\ MatchOffsets(0) # {}
    /\ cur' = [cur EXCEPT !.type = IF StartsLineStatement(0) THEN "LineStatement" ELSE @]
    /\ status' = "running"
    /\ UNCHANGED <<text, setts, from, blocks, lines, line, meta, hasMeta, errorAt>>

On(type) == status = "running" /\ MatchOffsets(from) # {} /\ Match.type = type

Pass == from' = Match.end /\ UNCHANGED <<text, setts>>
NoError == UNCHANGED <<status, errorAt>>
SameLine == UNCHANGED <<lines, line>>
SameMeta == UNCHANGED <<meta, hasMeta>>

\* The match is of no meaning in the current block.
Ignore == Pass /\ NoError /\ SameLine /\ SameMeta /\ UNCHANGED <<blocks, cur>>

Fail(code) ==
    /\ status' = code /\ errorAt' = Match.at
    /\ FinishCurrentLine(Match.end)
    /\ line' = [line EXCEPT !.end = Match.end, !.number = @ + 1]
    /\ Pass /\ SameMeta /\ UNCHANGED <<blocks, cur>>

\* The block ends, and raw text begins behind the delimiter at o.
EndBlock(o) ==
    /\ FinishCurrentBlock(o, "RawText", Match.at)
    /\ cur' = [cur EXCEPT !.start = NextStart(cur, o, "RawText"), !.type = "RawText"]
    /\ Pass /\ NoError /\ SameLine

\* Raw text ends, and a block begins; s is the offset behind its delimiter.
StartControlBlock(type, s) ==
    LET lstripped == StripBlockLeft(cur, s, Match.at, LStrip(type))
        signed == s < Size /\ type # "MetaBlock" /\ Char(s) \in Signs
        start == IF signed THEN s + 1 ELSE s
    IN IF cur.type # "RawText"
       THEN UNCHANGED <<blocks, cur>>
       ELSE /\ FinishCurrentBlock(lstripped, type, lstripped)
            /\ cur' = [cur EXCEPT !.type = type,
                   !.start = IF type # "RawBlock" THEN start
                             ELSE StripBlockRight(type, start - 2, setts.trimBlocks)]

\* Mutant of NewLine: the line before the first is not counted.
SameNumber ==
    /\ On("NewLine")
    /\ FinishCurrentLine(Match.at)
    /\ line' = [line EXCEPT !.end = Match.at, !.start = Match.end,
                            !.number = IF lines = <<>> THEN @ ELSE @ + 1]
    /\ UNCHANGED <<blocks, cur>>
    /\ Pass /\ NoError /\ SameMeta
NewLine ==
    LET next == Match.end
        switches == next < Size /\ cur.type \in {"RawText", "LineStatement"}
    IN /\ On("NewLine")
       /\ FinishCurrentLine(Match.at)
       /\ line' = [line EXCEPT !.end = Match.at, !.start = next, !.number = @ + 1]
       /\ IF switches /\ cur.type = "LineStatement"
          THEN FinishCurrentBlock(Match.at, "RawText", Match.at)
          ELSE UNCHANGED blocks
       /\ cur' = [cur EXCEPT
              !.start = IF switches /\ cur.type = "LineStatement" THEN next ELSE @,
              !.type = IF ~switches THEN @
                       ELSE IF StartsLineStatement(next) THEN "LineStatement" ELSE "RawText"]
       /\ Pass /\ NoError /\ SameMeta

CommentBegin ==
    /\ On("CommentBegin")
    /\ CASE cur.type = "RawBlock" -> Ignore
         [] cur.type = "RawText" ->
               /\ FinishCurrentBlock(Match.at, "Comment", Match.at)
               /\ cur' = [cur EXCEPT !.start = Match.end, !.type = "Comment"]
               /\ Pass /\ NoError /\ SameLine /\ SameMeta
         [] OTHER -> Fail("UnexpectedCommentBegin")

CommentEnd ==
    /\ On("CommentEnd")
    /\ CASE cur.type = "RawBlock" -> Ignore
         [] cur.type = "Comment" -> EndBlock(Match.at) /\ SameMeta
         [] OTHER -> Fail("UnexpectedCommentEnd")

BeginControl(type) ==
    StartControlBlock(type, Match.end) /\ Pass /\ NoError /\ SameLine /\ SameMeta

ExprBegin == On("ExprBegin") /\ BeginControl("Expression")
StmtBegin == On("StmtBegin") /\ BeginControl("Statement")

\* An end delimiter behind a quote is taken for part of a string.
EndControl(type, code) ==
    CASE cur.type = "RawText" -> Fail(code)
      [] cur.type = type /\ Char(Match.at - 1) # "'" -> EndBlock(Match.at) /\ SameMeta
      [] OTHER -> Ignore

ExprEnd == On("ExprEnd") /\ EndControl("Expression", "UnexpectedExprEnd")
StmtEnd == On("StmtEnd") /\ EndControl("Statement", "UnexpectedStmtEnd")

RawBegin ==
    /\ On("RawBegin")
    /\ CASE cur.type \in {"RawBlock", "Comment"} -> Ignore
         [] cur.type = "RawText" -> BeginControl("RawBlock")
         [] OTHER -> Fail("UnexpectedRawBegin")

RawEnd ==
    /\ On("RawEnd")
    /\ CASE cur.type = "Comment" -> Ignore
         [] cur.type = "RawBlock" -> EndBlock(Match.end - 2) /\ SameMeta
         [] OTHER -> Fail("UnexpectedRawEnd")

MetaBegin ==
    /\ On("MetaBegin")
    /\ CASE cur.type = "Comment" -> Ignore
         [] cur.type = "RawText" /\ ~hasMeta ->
               /\ StartControlBlock("MetaBlock", Match.end)
               /\ meta' = <<line.number + 1, Match.at - line.start + 1>>
               /\ Pass /\ NoError /\ SameLine /\ UNCHANGED hasMeta
         [] OTHER -> Fail("UnexpectedMetaBegin")

MetaEnd ==
    /\ On("MetaEnd")
    /\ CASE cur.type = "Comment" -> Ignore
         [] cur.type = "MetaBlock" ->
               EndBlock(Match.end - 2) /\ hasMeta' = TRUE /\ UNCHANGED meta
         [] OTHER -> Fail("UnexpectedMetaEnd")

\* The end of the template.  Only raw and meta blocks must have been closed.
Finish ==
    /\ status = "running" /\ MatchOffsets(from) = {}
    /\ FinishCurrentLine(Size)
    /\ IF cur.type \in {"RawBlock", "MetaBlock"}
       THEN /\ status' = IF cur.type = "RawBlock" THEN "ExpectedRawEnd" ELSE "ExpectedMetaEnd"
            /\ errorAt' = Size
            /\ UNCHANGED <<blocks, cur>>
       ELSE /\ FinishCurrentBlock(Size, "RawText", Size)
            /\ cur' = [cur EXCEPT !.type = "RawText"]
            /\ status' = "done"
            /\ UNCHANGED errorAt
    /\ UNCHANGED <<text, setts, from, line>> /\ SameMeta

Next ==
    \/ OneBlock \/ Begin \/ NewLine \/ CommentBegin \/ CommentEnd \/ ExprBegin \/ ExprEnd
    \/ StmtBegin \/ StmtEnd \/ RawBegin \/ RawEnd \/ MetaBegin \/ MetaEnd \/ Finish

Spec == Init /\ [][Next]_vars
-----------------------------------------------------------------------------
(* Where an error is. *)

\* Line and column, from 1, of an offset; <<1, 1>> when no line has it, as for the
\* offset of a new line.
OffsetToLinePos(o) ==
    LET having == {i \in DOMAIN lines : lines[i].start <= o /\ o < lines[i].end}
        i == IF having # {} THEN Min(having) ELSE Len(lines)
    IN IF having # {} \/ (lines # <<>> /\ o = lines[i].end)
       THEN <<lines[i].number + 1, o - lines[i].start + 1>>
       ELSE <<1, 1>>

\* The column, from 0, of the caret in the second line of GetLocationDescr.
CaretColumn(pos) ==
    LET l == lines[pos[1]]
        col == pos[2] - 1
        prefix == Max({n \in 0 .. l.end - l.start :
                          \A k \in l.start .. l.start + n - 1 : IsSpace(Char(k))})
        head == IF col - prefix < 3 THEN col - prefix ELSE 3
        spaces == IF head = 3 THEN col - head - prefix ELSE 0
    IN IF col < prefix THEN col ELSE prefix + spaces + head
-----------------------------------------------------------------------------
(* Properties. *)

\* The delimiters of a block's kind are around it (an unclosed one ends with the template),
\* and none that would end it is inside, unless it is behind a quote or part of another.
Opener == [Expression |-> "ExprBegin", Statement |-> "StmtBegin", Comment |-> "CommentBegin",
           RawBlock |-> "RawBegin", MetaBlock |-> "MetaBegin"]
Closer == [Expression |-> "ExprEnd", Statement |-> "StmtEnd", Comment |-> "CommentEnd",
           RawBlock |-> "RawEnd", MetaBlock |-> "MetaEnd"]
IsDelimited(b) ==
    LET Skipped(o, e) == \A k \in o .. e - 1 : IsSpace(Char(k)) \/ Char(k) \in Signs
    IN b.type \in DOMAIN Opener =>
          /\ \E k \in 0 .. b.start : \E m \in MatchesAt(k) :
                m.type = Opener[b.type] /\ m.end <= b.start /\ Skipped(m.end, b.start)
          /\ \/ b.end >= Size - 1 /\ b.type \notin {"RawBlock", "MetaBlock"}
             \/ \E k \in b.end .. Size - 1 : \E m \in MatchesAt(k) :
                   m.type = Closer[b.type] /\ Skipped(b.end, m.at)
          /\ \A k \in b.start .. b.end - 1 : \A m \in MatchesAt(k) :
                m.type # Closer[b.type] \/ Char(k - 1) = "'" \/ MatchesAt(k - 1) # {}

OneSign(b) == b.start = b.end + 1 /\ Char(b.end) \in Signs

\* Blocks follow each other without overlap and none ends before it begins, so that the
\* lexer and the raw text renderers get proper ranges; except a block that is one sign,
\* {{-}}, whose start is behind the sign and whose end is before it (StartControlBlock
\* and FinishCurrentBlock both take it for theirs).  And each lies between delimiters of
\* its own kind.
BlocksInOrder ==
    \A i \in DOMAIN blocks :
        /\ blocks[i].start <= blocks[i].end
           \/ (blocks[i].type \in {"Expression", "Statement"} /\ OneSign(blocks[i]))
        /\ i > 1 => blocks[i - 1].end <= blocks[i].start
        /\ IsDelimited(blocks[i])

InBlock(o) == \E i \in DOMAIN blocks : blocks[i].start <= o /\ o < blocks[i].end
InDelimiter(o) ==
    \E k \in 0 .. Size - 1 : \E m \in MatchesAt(k) : m.type # "NewLine" /\ o \in m.at .. m.end - 1
MayStrip == setts.trimBlocks \/ setts.lstripBlocks \/ \E o \in 0 .. Size - 1 : Char(o) = "-"
EndsLineStatement(o) ==
    /\ Char(o) \in Signs \cup {"\n"}
    /\ \E b \in ToSet(blocks) : b.type = "LineStatement" /\ o \in b.end .. b.end + 1
AtOpenEnd(o) == o = Size - 1 /\ Last(blocks).type # "RawText"

\* What lies in no block when the template has been cut: delimiters and tags, signs next
\* to them, and white space; and white space only if the settings or a minus sign ask for
\* stripping.  So white space control loses no text.  (A line statement loses
\* its new line, and it or a block that is not closed a sign at its end.)
OnlyMarkupIsLost ==
    status = "done" =>
        \A o \in 0 .. Size - 1 :
            \/ InBlock(o)
            \/ InDelimiter(o)
            \/ Char(o) \in Signs /\ (InDelimiter(o - 1) \/ InDelimiter(o + 1) \/ AtOpenEnd(o))
            \/ IsSpace(Char(o)) /\ MayStrip
            \/ EndsLineStatement(o)

LinesBefore(o) == {k \in 0 .. o - 1 : Char(k) = "\n"}
TruePos(o) ==
    <<Cardinality(LinesBefore(o)) + 1,
      o - (IF LinesBefore(o) = {} THEN 0 ELSE Max(LinesBefore(o)) + 1) + 1>>
TagsOnOneLine ==
    \A k \in 0 .. Size - 1 : \A m \in MatchesAt(k) :
        m.type \in DOMAIN Tags => \A o \in m.at .. m.end - 1 : Char(o) # "\n"
Located(o) == OffsetToLinePos(o) = TruePos(o) /\ CaretColumn(TruePos(o)) = TruePos(o)[2] - 1

\* The place that an error message gives is the place of its token, and the caret is
\* under it: for each offset but that of a new line, in a template whose tags are each
\* on one line (the new lines in a tag are not counted).
LocationsAreRight ==
    TagsOnOneLine =>
        /\ status = "done" => \A o \in 0 .. Size - 1 : Char(o) = "\n" \/ Located(o)
        /\ status \in ErrorCodes => Located(errorAt)
        /\ hasMeta => \E k \in 0 .. Size - 1 : \E m \in MatchesAt(k) :
                          m.type = "MetaBegin" /\ meta = TruePos(k)
=============================================================================

----------------------------- MODULE StringFilters -----------------------------
(***************************************************************************)
(* The filters of strings (src/src/string_converter_filter.cpp), as         *)
(* operators on sequences of characters.  A filter that walks the string    *)
(* with a flag is a fold whose accumulator is the text so far and the flag. *)
(* Left out: wide strings, and letters outside the alphabet of Values.      *)
(***************************************************************************)
EXTENDS Values

-----------------------------------------------------------------------------
(* boost::algorithm: trim_all, trim_right, replace_first, replace_all.      *)

IsBlank(ch) == ch = " "
TrimRight(s) == SubSeq(s, 1, SelectLastInSeq(s, LAMBDA ch : ~IsBlank(ch)))
TrimLeft(s) == Reverse(TrimRight(Reverse(s)))
\* The blanks at both ends go, and one stays of those that follow each other.
TrimAll(s) ==
    LET t == TrimLeft(TrimRight(s))
        Squeeze(text, ch) ==
            IF IsBlank(ch) /\ text # <<>> /\ IsBlank(Last(text)) THEN text ELSE Append(text, ch)
    IN  FoldLeft(Squeeze, <<>>, t)

\* An empty text is found nowhere.
Occurrences(old, s) ==
    {i \in 1 .. Len(s) : old # <<>> /\ IsPrefix(old, SubSeq(s, i, Len(s)))}
FirstOf(S) == CHOOSE i \in S : \A j \in S : i <= j
Replaced(old, new, s, i) == SubSeq(s, 1, i - 1) \o new \o SubSeq(s, i + Len(old), Len(s))

ReplaceFirst(old, new, s) ==
    LET found == Occurrences(old, s)
    IN  IF found = {} THEN s ELSE Replaced(old, new, s, FirstOf(found))

RECURSIVE ReplaceEach(_, _, _), ReplaceTimes(_, _, _, _)
ReplaceEach(old, new, s) ==
    LET found == Occurrences(old, s)
        i == FirstOf(found)
    IN  IF found = {} THEN s
        ELSE SubSeq(s, 1, i - 1) \o new
             \o ReplaceEach(old, new, SubSeq(s, i + Len(old), Len(s)))

\* The next round starts again at the front: what it put in can be found as well.
ReplaceTimes(old, new, s, n) ==
    IF n <= 0 THEN s ELSE ReplaceTimes(old, new, ReplaceFirst(old, new, s), n - 1)

-----------------------------------------------------------------------------
(* Filters that look at each character.                                     *)

Walk(s, Step(_, _), flag) == FoldLeft(Step, [text |-> <<>>, flag |-> flag, count |-> 0], s)

Title(s) ==
    LET Step(acc, ch) ==
            IF acc.flag /\ IsAlpha(ch)
            THEN [acc EXCEPT !.text = Append(@, ToUpper(ch)), !.flag = FALSE]
            ELSE [acc EXCEPT !.text = Append(@, ch), !.flag = ~IsAlNum(ch)]
    IN  Walk(s, Step, TRUE).text

WordCount(s) ==
    LET Step(acc, ch) ==
            IF acc.flag /\ IsAlNum(ch) THEN [acc EXCEPT !.count = @ + 1, !.flag = FALSE]
            ELSE [acc EXCEPT !.flag = ~IsAlNum(ch)]
    IN  Walk(s, Step, TRUE).count

Capitalize(s) ==
    [i \in DOMAIN s |-> IF i = 1 THEN ToUpper(s[i]) ELSE ToLower(s[i])]

Entity(ch) ==
    CASE ch = "<" -> <<"&", "l", "t", ";">>
      [] ch = ">" -> <<"&", "g", "t", ";">>
      [] ch = "&" -> <<"&", "a", "m", "p", ";">>
      [] ch = "'" -> <<"&", "#", "3", "9", ";">>
      [] ch = "\"" -> <<"&", "#", "3", "4", ";">>
      [] OTHER -> <<ch>>

\* Mutant of EscapeHtml: the ampersand is written as it is.
EscapeTagsOnly(s) == FlattenSeq(MapChars(s, LAMBDA ch : IF ch = "&" THEN <<ch>> ELSE Entity(ch)))

EscapeHtml(s) == FlattenSeq(MapChars(s, Entity))

\* '%' and the byte; its two hexadecimal digits are left as the character here.
Escaped == ToSet(<<"+", "\"", "%", "-", "!", "#", "&", "'", "/", ";">>)
UrlEncode(s) ==
    FlattenSeq(MapChars(s, LAMBDA ch : IF ch = " " THEN <<"+">>
                                       ELSE IF ch \in Escaped THEN <<"%", ch>>
                                       ELSE <<ch>>))

-----------------------------------------------------------------------------
(* Striptags: the tags, then the blanks, then the entities one by one. The  *)
(* ampersand comes first, so that the text it leaves is looked at again.    *)

Apos == <<"&", "a", "p", "o", "s", ";">>
Quot == <<"&", "q", "u", "o", "t", ";">>
HtmlEntities ==
    <<<<Entity("&"), "&">>, <<Apos, "'">>, <<Entity(">"), ">">>, <<Entity("<"), "<">>,
      <<Quot, "\"">>, <<Entity("'"), "'">>, <<Entity("\""), "\"">>>>

CommentBegin == <<"<", "!", "-", "-">>
CommentEnd == <<"-", "-", ">">>

\* The length of the tag or comment s begins with, 0 when it begins with none: at
\* '<' the expression tries the shortest comment, then the shortest tag.
TagLength(s) ==
    LET ends == {i \in 5 .. Len(s) : IsPrefix(CommentBegin, s)
                                     /\ IsPrefix(CommentEnd, SubSeq(s, i, Len(s)))}
        closed == {i \in 2 .. Len(s) : s[1] = "<" /\ s[i] = ">"}
    IN  IF ends # {} THEN FirstOf(ends) + 2
        ELSE IF closed # {} THEN FirstOf(closed) ELSE 0

RECURSIVE RemoveTags(_)
RemoveTags(s) ==
    IF s = <<>> THEN <<>>
    ELSE IF TagLength(s) > 0 THEN RemoveTags(SubSeq(s, TagLength(s) + 1, Len(s)))
    ELSE <<s[1]>> \o RemoveTags(Tail(s))

Striptags(s) ==
    FoldLeft(LAMBDA text, e : ReplaceEach(e[1], <<e[2]>>, text),
             TrimAll(RemoveTags(s)), HtmlEntities)

-----------------------------------------------------------------------------
(* Truncate and center.                                                     *)

\* The number of characters ahead of p that belong to a word, at most n (all of
\* them when n is negative: the counter is only compared with zero).
RECURSIVE WordGoesOn(_, _, _), WordBegin(_, _)
WordGoesOn(s, p, n) ==
    IF n = 0 \/ p > Len(s) \/ ~IsAlNum(s[p]) THEN p ELSE WordGoesOn(s, p + 1, n - 1)
\* Back to the blank before the word, or to the front.
WordBegin(s, p) == IF p = 1 \/ ~IsAlNum(s[p]) THEN p ELSE WordBegin(s, p - 1)

TruncateAtWord(s, length, end, leeway) ==
    LET p == WordGoesOn(s, length + 1, leeway)
        cut == IF IsAlNum(s[p]) THEN WordBegin(s, p) ELSE p
    IN  IF leeway # 0 /\ p > Len(s) THEN s
        ELSE TrimRight(SubSeq(s, 1, cut - 1)) \o end

Truncate(s, length, killWords, end, leeway) ==
    IF Len(s) <= length THEN s
    ELSE IF ~killWords THEN TruncateAtWord(s, length, end, leeway)
    ELSE IF Len(s) > length + leeway THEN SubSeq(s, 1, length) \o end
    ELSE s

Blanks(n) == [i \in 1 .. n |-> " "]
Center(s, width) ==
    LET blanks == width - Len(s)
    IN  IF blanks <= 0 THEN s ELSE Blanks((blanks + 1) \div 2) \o s \o Blanks(blanks \div 2)

-----------------------------------------------------------------------------
(* StringConverter::Filter. What is no string comes out as the empty one, a *)
(* mode nobody wrote (camelize, wordwrap, ...) as well.  A negative length  *)
(* reaches in front of the string.                                          *)

OfString(name, s, args) ==
    CASE name = "trim" -> Str(TrimAll(s))
      [] name = "title" -> Str(Title(s))
      [] name = "wordcount" -> Integer(WordCount(s))
      [] name = "upper" -> Str(MapChars(s, ToUpper))
      [] name = "lower" -> Str(MapChars(s, ToLower))
      [] name = "capitalize" -> Str(Capitalize(s))
      [] name = "escape" -> Str(EscapeHtml(s))
      [] name = "urlencode" -> Str(UrlEncode(s))
      [] name = "striptags" -> Str(Striptags(s))
      [] name = "replace" ->
            LET old == AsString(args.old)
                new == AsString(args.new)
                n == ConvertToInt(args.count, 0)
            IN  Str(IF n = 0 THEN ReplaceEach(old, new, s) ELSE ReplaceTimes(old, new, s, n))
      [] name = "truncate" ->
            LET length == ConvertToInt(args.length, 0)
                killWords == ConvertToBool(args.killwords)
                leeway == ConvertToInt(args.leeway, 5)
            IN  IF length < 0 /\ (killWords => Len(s) > length + leeway) THEN Unknown
                ELSE Str(Truncate(s, length, killWords, AsString(args.end), leeway))
      [] name = "center" -> Str(Center(s, ConvertToInt(args.width, 0)))
      [] OTHER -> Str(<<>>)

StringConverter(name, val, args) ==
    CASE IsText(val) -> OfString(name, val.v, args)
      [] name = "wordcount" -> Integer(0)
      [] OTHER -> Str(<<>>)
=============================================================================

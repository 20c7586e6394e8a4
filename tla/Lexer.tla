---------------------------------- MODULE Lexer ----------------------------------
(***************************************************************************)
(* From the characters of a block to the tokens of its parser: the scanner *)
(* (generator in src/src/lexertk.h), the lexer that types its tokens       *)
(* (src/src/lexer.cpp) and the conversions it calls (RangeToNum in         *)
(* src/src/template_parser.h, CompileEscapes in src/src/helpers.h).        *)
(*                                                                         *)
(* Blocks follow each other on one thread.  All that stays from one to the *)
(* next is errno, which the conversion of a number looks at and nobody     *)
(* sets back.                                                              *)
(*                                                                         *)
(* An offset counts the characters before it.  A number is kept as it is   *)
(* written; what matters is whether it becomes an integer or a double, and *)
(* whether it is out of range, which here means more than MaxDigits digits.*)
(* It is copied into a buffer of fixed size to be converted, whatever its  *)
(* length: what a longer one becomes is undefined, here any type, any errno*)
(* or the end of the program.                                              *)
(***************************************************************************)
EXTENDS Naturals, SequencesExt

CONSTANTS
    Scripts,    \* what blocks are made of: records [chars, max] of characters and a length
    MaxDigits,  \* bound: digits an integer, or an exponent, has at most to be in range
    BufferSize  \* bound: size of the buffer a number is converted in, 35 in the code

ASSUME LexerAssumption == MaxDigits \in Nat /\ BufferSize \in Nat

VARIABLES
    text,       \* the block
    phase,      \* "writing", "scanning", "scanned", "done", "failed" or "crashed"
    at,         \* s_itr_
    scanned,    \* token_list_: records [type, from, to]
    tokens,     \* m_tokens of the lexer, with their values
    erange,     \* errno = ERANGE
    disturbed   \* history: a number of this thread was out of range, or did not fit

vars == <<text, phase, at, scanned, tokens, erange, disturbed>>

Digits == {"0", "1"}
Letters == {"e", "n", "t"}
Signs == {"+", "-"}
Quotes == {"'", "\""}
Operators == {"+", "-", "*", "/", "^", "<", ">", "=", ",", "!", "(", ")", "[", "]", "{", "}",
              "%", ":", "?", "&", "|", ";", "~"}
Pairs == {<<"<", "=">>, <<">", "=">>, <<"<", ">">>, <<"!", "=">>, <<"=", "=">>, <<":", "=">>,
          <<"<", "<">>, <<">", ">">>, <<"*", "*">>, <<"/", "/">>}
IsWord(c) == c \in Letters \union Digits \union {"_"}

IsEnd(i) == i >= Len(text)
Char(i) == text[i + 1]
Word(t) == SubSeq(text, t.from + 1, t.to)

Init ==
    /\ text = <<>> /\ phase = "writing" /\ at = 0
    /\ scanned = <<>> /\ tokens = <<>>
    /\ erange = FALSE /\ disturbed = FALSE

\* The author of the template goes on with the block.
Write(c) ==
    /\ phase = "writing"
    /\ \E script \in Scripts :
         /\ Len(text) < script.max
         /\ ToSet(text) \union {c} \subseteq script.chars
    /\ text' = Append(text, c)
    /\ UNCHANGED <<phase, at, scanned, tokens, erange, disturbed>>

\* InvokeParser hands the block to a new scanner.
Process ==
    /\ phase = "writing"
    /\ phase' = IF text = <<>> THEN "scanned" ELSE "scanning"
    /\ UNCHANGED <<text, at, scanned, tokens, erange, disturbed>>
-----------------------------------------------------------------------------
(* The scanner: each step skips white space and scans one token.            *)

Here == Min({i \in at .. Len(text) : IsEnd(i) \/ Char(i) # " "})
Begins(chars) == phase = "scanning" /\ ~IsEnd(Here) /\ Char(Here) \in chars

\* An error token ends the scan.
Push(type, from, to, next) ==
    /\ scanned' = Append(scanned, [type |-> type, from |-> from, to |-> to])
    /\ at' = next
    /\ phase' = CASE type = "error" -> "failed"
                  [] next >= Len(text) -> "scanned"
                  [] OTHER -> "scanning"
    /\ UNCHANGED <<text, tokens, erange, disturbed>>

SkipToEnd ==
    /\ phase = "scanning" /\ IsEnd(Here)
    /\ phase' = "scanned"
    /\ at' = Here
    /\ UNCHANGED <<text, scanned, tokens, erange, disturbed>>

\* Mutant of TypeOfPair: two stars are two operators.
TypeOfPairButStars(pair) == IF pair \in Pairs \ {<<"*", "*">>} THEN "pair" ELSE "none"

TypeOfPair(pair) == IF pair \in Pairs THEN "pair" ELSE "none"

\* A pair of characters, or one: the semicolon is the end of the block, and the
\* ampersand a symbol.
PushOperator ==
    LET c == Char(Here)
    IN  IF ~IsEnd(Here + 1) /\ TypeOfPair(<<c, Char(Here + 1)>>) = "pair"
        THEN Push("operator", Here, Here + 2, Here + 2)
        ELSE Push(CASE c = ";" -> "eof" [] c = "&" -> "symbol" [] OTHER -> "operator",
                  Here, Here + 1, Here + 1)

ScanOperator == Begins(Operators) /\ PushOperator

ScanSymbol ==
    /\ Begins(Letters \union {"_"})
    /\ LET end == Min({i \in Here .. Len(text) : IsEnd(i) \/ ~IsWord(Char(i))})
       IN  Push("symbol", Here, end, end)

\* Where a number ends when its characters have been seen as far as i, and whether
\* that is where it may end: a second point, a second sign and a letter e without
\* an exponent are errors.
RECURSIVE NumberEnd(_, _)
NumberEnd(i, seen) ==
    LET c == Char(i)
        GoOn(what) == NumberEnd(i + 1, seen \union {what})
        Wrong == [to |-> i, type |-> "error"]
    IN  CASE IsEnd(i) -> [to |-> i, type |-> "number"]
          [] c = "." -> IF "." \in seen THEN Wrong ELSE GoOn(".")
          [] c = "e" -> IF IsEnd(i + 1) THEN Wrong
                        ELSE IF Char(i + 1) \notin Signs \union Digits THEN Wrong
                        ELSE GoOn("e")
          [] "e" \in seen /\ "digit" \notin seen /\ c \in Signs ->
                IF "sign" \in seen THEN Wrong ELSE GoOn("sign")
          [] c \in Digits -> GoOn(IF "e" \in seen THEN "digit" ELSE "whole")
          [] OTHER -> [to |-> i, type |-> "number"]

\* A point that no digit follows is an operator, unless it is the last character.
ScanNumber ==
    /\ Begins(Digits \union {"."})
    /\ IF Char(Here) = "." /\ ~IsEnd(Here + 1) /\ Char(Here + 1) \notin Digits
       THEN PushOperator
       ELSE LET end == NumberEnd(Here, {}) IN Push(end.type, Here, end.to, end.to)

\* The quotes that end a string that begins behind offset i: those a backslash does
\* not escape.
RECURSIVE Escaped(_, _)
Escaped(from, i) == i > from /\ Char(i - 1) = "\\" /\ ~Escaped(from, i - 1)
Closing(i) == {k \in i + 1 .. Len(text) - 1 : Char(k) = Char(i) /\ ~Escaped(i + 1, k)}

\* Mutant of ScanString: the quote that ends the string is scanned again.
ScanStringToQuote ==
    /\ Begins(Quotes)
    /\ IF Closing(Here) = {} THEN Push("error", Here, Len(text), Len(text))
       ELSE Push("string", Here + 1, Min(Closing(Here)), Min(Closing(Here)))

ScanString ==
    /\ Begins(Quotes)
    /\ IF Closing(Here) = {} THEN Push("error", Here, Len(text), Len(text))
       ELSE Push("string", Here + 1, Min(Closing(Here)), Min(Closing(Here)) + 1)

\* Any other character is an error.
ScanOther ==
    /\ phase = "scanning" /\ ~IsEnd(Here)
    /\ Char(Here) \notin Operators \union Letters \union Digits \union Quotes \union {"_", "."}
    /\ Push("error", Here, Here + 2, Here + 1)
-----------------------------------------------------------------------------
(* The lexer: the scanned tokens get their types and values, up to the first *)
(* end of the block.                                                         *)

\* GetKeyword and the constants, spelt with two letters here.
TypeOfSymbol(word) == IF word = <<"n", "e">> THEN "None"
                      ELSE IF word = <<"t", "e">> THEN "True" ELSE "Identifier"

\* strtoll reads the digits in front, strtod reads the exponent as well: each leaves
\* ERANGE behind when it is out of range.
WholePart(word) == SelectInSeq(word, LAMBDA c : c \notin Digits)
IsWhole(word) == WholePart(word) = 0
DigitsFrom(word, i) ==
    LET ends == {k \in i .. Len(word) : word[k] \notin Digits}
    IN  (IF ends = {} THEN Len(word) + 1 ELSE Min(ends)) - i
IntegerTooBig(word) == DigitsFrom(word, 1) > MaxDigits
ExponentTooBig(word) ==
    \E k \in DOMAIN word :
        /\ word[k] = "e" /\ "e" \notin ToSet(SubSeq(word, 1, k - 1))
        /\ DigitsFrom(word, IF word[k + 1] \in Signs THEN k + 2 ELSE k + 1) > MaxDigits

\* The buffer has to take the zero behind the number as well.
Fits(word) == Len(word) < BufferSize
Disturbs(word) == ~Fits(word) \/ IntegerTooBig(word) \/ ExponentTooBig(word)
Undefined(word) == [type : {"integer", "double", "crash"}, word : {word}, erange : BOOLEAN]

\* Mutant of RangeToNum: digits are enough for an integer.
RangeToNumByDigits(word) ==
    IF Fits(word)
    THEN {[type |-> IF IsWhole(word) THEN "integer" ELSE "double", word |-> word,
           erange |-> erange \/ IntegerTooBig(word)]}
    ELSE Undefined(word)

\* What a number may become.  One that fits: an integer, unless something follows the
\* digits or errno says that a number was out of range: this one, or one before it.
RangeToNum(word) ==
    LET stuck == erange \/ IntegerTooBig(word)
        double == stuck \/ ~IsWhole(word)
    IN  IF Fits(word)
        THEN {[type |-> IF double THEN "double" ELSE "integer", word |-> word,
               erange |-> stuck \/ (double /\ ExponentTooBig(word))]}
        ELSE Undefined(word)

Meaning(c) == IF c = "n" THEN "\n" ELSE IF c = "t" THEN "\t" ELSE c

\* CompileEscapes: i reads and j writes the same string; what is left over is cut off.
RECURSIVE CompileFrom(_, _, _)
CompileFrom(s, i, j) ==
    IF i > Len(s) THEN SubSeq(s, 1, j - 1)
    ELSE IF s[i] # "\\" THEN CompileFrom([s EXCEPT ![j] = s[i]], i + 1, j + 1)
    ELSE IF s[i + 1] # "\\"
         THEN CompileFrom([s EXCEPT ![i + 1] = Meaning(s[i + 1])], i + 1, j)
    ELSE CompileFrom([s EXCEPT ![j] = "\\"], i + 2, j + 1)

CompileEscapes(s) == CompileFrom(s, 1, 1)

\* LexerHelper::GetAsValue and GetAsString: what a token may become.
Typed(t) ==
    LET Token(type, word) == {[type |-> type, word |-> word, erange |-> erange]}
    IN  CASE t.type = "number" -> RangeToNum(Word(t))
          [] t.type = "symbol" -> Token(TypeOfSymbol(Word(t)), Word(t))
          [] t.type = "string" -> Token("string", CompileEscapes(Word(t)))
          [] OTHER -> Token(t.type, Word(t))

Eof == [type |-> "eof", from |-> Len(text), to |-> Len(text)]
NextToken == IF Len(tokens) < Len(scanned) THEN scanned[Len(tokens) + 1] ELSE Eof

\* One round of Preprocess.
Preprocess ==
    /\ phase = "scanned"
    /\ \E t \in Typed(NextToken) :
         /\ tokens' = Append(tokens, [type |-> t.type, word |-> t.word, from |-> NextToken.from])
         /\ erange' = t.erange
         /\ phase' = CASE t.type = "crash" -> "crashed"
                       [] NextToken.type = "eof" -> "done"
                       [] OTHER -> "scanned"
    /\ disturbed' = (disturbed \/ (NextToken.type = "number" /\ Disturbs(Word(NextToken))))
    /\ UNCHANGED <<text, at, scanned>>

\* The next block of the thread, or of the next template; or of the next process.
NextBlock ==
    /\ phase \in {"done", "failed", "crashed"}
    /\ text' = <<>> /\ phase' = "writing" /\ at' = 0
    /\ scanned' = <<>> /\ tokens' = <<>>
    /\ erange' = (phase # "crashed" /\ erange)
    /\ disturbed' = (phase # "crashed" /\ disturbed)

Next ==
    \/ \E c \in UNION {script.chars : script \in Scripts} : Write(c)
    \/ Process
    \/ SkipToEnd \/ ScanOperator \/ ScanSymbol \/ ScanNumber \/ ScanString \/ ScanOther
    \/ Preprocess
    \/ NextBlock

Spec == Init /\ [][Next]_vars
-----------------------------------------------------------------------------
(* Properties. *)

\* What lies between the ends of two tokens: white space, and the quotes of a string.
Gap(from, t) ==
    LET begin == IF t.type = "string" THEN t.from - 1 ELSE t.from
    IN  /\ from <= begin
        /\ \A i \in from .. begin - 1 : Char(i) = " "
Behind(t) == IF t.type = "string" THEN t.to + 1 ELSE t.to

\* The scanner loses nothing and reads nothing twice (scan_token): tokens follow each
\* other with nothing but white space and quotes between them, a string is between
\* two quotes of a kind, and a scan that succeeds ends at the end of the block.
NothingSkipped ==
    /\ \A k \in DOMAIN scanned :
         LET t == scanned[k]
         IN  /\ t.type # "error" => Gap(IF k = 1 THEN 0 ELSE Behind(scanned[k - 1]), t)
             /\ t.type = "string" => Char(t.from - 1) \in Quotes /\ Char(t.to) = Char(t.from - 1)
    /\ phase \in {"scanned", "done"} =>
         \A i \in (IF scanned = <<>> THEN 0 ELSE Behind(Last(scanned))) .. Len(text) - 1 :
             Char(i) = " "

\* The numbers lexertk.h:684 lists, and the other words that are one token.
DecimalWords ==
    LET Whole(w) == w # <<>> /\ ToSet(w) \subseteq Digits
        Fraction(w) == Whole(w) \/ \E k \in DOMAIN w :
                         /\ w[k] = "."
                         /\ k = 1 \/ Whole(SubSeq(w, 1, k - 1))
                         /\ Whole(SubSeq(w, k + 1, Len(w)))
        Exponent(w) == Whole(w) \/ (w # <<>> /\ w[1] \in Signs /\ Whole(Tail(w)))
    IN  [w \in {SubSeq(text, i, j) : i, j \in 1 .. Len(text)} |->
            Fraction(w) \/ \E k \in DOMAIN w :
                w[k] = "e" /\ Fraction(SubSeq(w, 1, k - 1)) /\ Exponent(SubSeq(w, k + 1, Len(w)))]
IsName(w) == w[1] \notin Digits /\ \A k \in DOMAIN w : IsWord(w[k])

\* A token is the longest word that begins where it does (scan_operator, scan_symbol,
\* scan_number): no operator, name or number is read as two, whatever stands around it.
LongestToken ==
    \A k \in DOMAIN scanned :
        LET t == scanned[k]
        IN  t.type \in {"operator", "symbol", "number", "eof"} =>
            ~\E end \in t.to + 1 .. Len(text) :
                LET w == SubSeq(text, t.from + 1, end)
                IN  w \in Pairs \/ IsName(w) \/ DecimalWords[w]

\* A block is cut into its tokens as it is meant to be: they cover it in order, and
\* none could have gone on (the scanner, lexertk.h:574-846).
CutIntoTokens == NothingSkipped /\ LongestToken

\* Of the numbers that fit the buffer (RangeToNum): a string of digits in range is an
\* integer and everything else a double, unless a number before it on this thread was
\* out of range or did not fit.  Nothing is claimed of a number that does not fit, and
\* such a one alone ends the program.
NumbersAreTheirText ==
    \A k \in DOMAIN tokens :
        LET t == tokens[k]
        IN  /\ t.type = "crash" => ~Fits(t.word)
            /\ t.type = "integer" /\ Fits(t.word) => IsWhole(t.word) /\ ~IntegerTooBig(t.word)
            /\ t.type = "double" /\ Fits(t.word) =>
                   ~IsWhole(t.word) \/ disturbed

\* A string as the author means it, read from the left.
RECURSIVE Unescaped(_)
Unescaped(s) ==
    IF s = <<>> THEN <<>>
    ELSE IF s[1] = "\\" THEN <<Meaning(s[2])>> \o Unescaped(SubSeq(s, 3, Len(s)))
    ELSE <<s[1]>> \o Unescaped(Tail(s))

\* Rewriting a string in place gives what reading it does: no escape is read twice or
\* left over (CompileEscapes, after scan_string has found the quote that ends it).
StringsAreTheirText ==
    \A k \in DOMAIN tokens :
        tokens[k].type = "string" => tokens[k].word = Unescaped(Word(scanned[k]))

\* The values of literals are what their text says.
LiteralsAreTheirText == NumbersAreTheirText /\ StringsAreTheirText
=============================================================================

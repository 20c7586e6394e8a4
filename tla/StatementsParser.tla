-------------------------- MODULE StatementsParser --------------------------
(***************************************************************************)
(* The second pass of the template parser: TemplateParser::DoFineParsing   *)
(* walks the text blocks cut by the first pass and StatementsParser builds *)
(* the tree of renderers with the help of a stack, `statementsStack'.      *)
(*                                                                         *)
(* The code is src/src/template_parser.h (DoFineParsing, InvokeParser,     *)
(* StatementInfo) and src/src/template_parser.cpp (StatementsParser).      *)
(*                                                                         *)
(* A renderer is named by the number of the text block it was made from; 0 *)
(* is the root.  What the tokens of a statement say is abstracted to       *)
(* whether its header is well formed ("ok"), ill formed ("bad"), or well   *)
(* formed and followed by more tokens ("tail").                            *)
(***************************************************************************)
EXTENDS Naturals, SequencesExt

CONSTANTS
    MaxBlocks,     \* bound: the number of text blocks of a template
    Input,         \* the kinds of text block a template is made of
    Headers,       \* the forms of a statement's own tokens: "ok", "bad", "tail"
    BlockNames,    \* the names of {% block %} statements
    NoName,        \* stands for the name of any other statement
    HasEnv,        \* m_env # nullptr
    DoEnabled      \* m_settings.extensions.Do

ASSUME ParserAssumption ==
    /\ MaxBlocks \in Nat
    /\ NoName \notin BlockNames
    /\ Headers \subseteq {"ok", "bad", "tail"}
    /\ HasEnv \in BOOLEAN
    /\ DoEnabled \in BOOLEAN

Ids == 0..MaxBlocks
Root == 0

\* StatementInfo::Type, the statements that own a body.
StatementTypes == {"TemplateRoot", "If", "ElseIf", "For", "Set", "Extends",
                   "Block", "ParentBlock", "Macro", "MacroCall", "With", "Filter"}
\* The renderers without a body.
LeafTypes == {"RawText", "Expression", "SetLine", "Include", "Import", "Do"}
\* "None": no renderer was made from the block.
Kinds == StatementTypes \union LeafTypes \union {"None"}

\* What is wrong with a statement, one class for each group of ErrorCodes.
ErrorClasses == {"header",       \* its own tokens (ExpectedToken, UnexpectedToken, ...)
                 "statement",    \* UnexpectedStatement
                 "environment",  \* TemplateEnvAbsent
                 "extension",    \* ExtensionDisabled
                 "tail"}         \* ExpectedEndOfStatement

VARIABLES
    pos,       \* the number of text blocks handled
    kind,      \* the kind of the renderer made from each block
    name,      \* the name of a BlockStatement
    stack,     \* statementsStack, the ids of the open statements, top last
    comp,      \* StatementInfo::compositions[0], the body of each statement
    branches,  \* IfStatement::m_elseBranches, ForStatement::m_elseBody
    blocks,    \* ExtendsStatement::m_blocks; Root where a name is not bound
    errors,    \* the errors collected by DoFineParsing
    outcome    \* of DoFineParsing: "parsing", "renderer", "errors", "undefined"

tree == <<kind, name, comp, branches, blocks>>
vars == <<pos, kind, name, stack, comp, branches, blocks, errors, outcome>>

Here == pos + 1
KindOfTop == kind[Last(stack)]

Init ==
    /\ pos = 0
    /\ kind = [i \in Ids |-> IF i = Root THEN "TemplateRoot" ELSE "None"]
    /\ name = [i \in Ids |-> NoName]
    /\ stack = <<Root>>
    /\ comp = [i \in Ids |-> <<>>]
    /\ branches = [i \in Ids |-> <<>>]
    /\ blocks = [i \in Ids |-> [n \in BlockNames |-> Root]]
    /\ errors = <<>>
    /\ outcome = "parsing"
-----------------------------------------------------------------------------
(* What the handlers are made of. *)

\* The error blames the token of block b.
Report(class, b) == errors' = Append(errors, [class |-> class, block |-> b])

\* Mutant of Reject: the error blames the block after the one that is wrong.
RejectNext(class) ==
    /\ Report(class, Here + 1)
    /\ UNCHANGED <<tree, stack, outcome>>

\* A handler that fails before it has touched anything.
Reject(class) ==
    /\ Report(class, Here)
    /\ UNCHANGED <<tree, stack, outcome>>

\* Parse accepts a handler's success only at the end of the block; what the
\* handler has done stays done.
Conclude(header) ==
    \/ header = "ok" /\ UNCHANGED errors
    \/ header = "tail" /\ Report("tail", Here)

\* back() of an empty std::list: undefined behaviour, nothing is known after it.
Undefined ==
    /\ outcome' = "undefined"
    /\ UNCHANGED <<tree, stack, errors>>

\* A statement with a body is pushed on the stack.
Open(k, n, header) ==
    /\ kind' = [kind EXCEPT ![Here] = k]
    /\ name' = [name EXCEPT ![Here] = n]
    /\ stack' = Append(stack, Here)
    /\ Conclude(header)
    /\ UNCHANGED <<comp, branches, blocks, outcome>>

\* Mutant of AddLeaf: the composition of the statement closed last is kept and
\* used for what follows it.
AddLeafStale(k, header) ==
    IF stack = <<>> THEN Undefined
    ELSE LET body == comp[Last(stack)]
             stale == IF body # <<>> /\ kind[Last(body)] \in StatementTypes
                      THEN Last(body) ELSE Last(stack)
         IN /\ kind' = [kind EXCEPT ![Here] = k]
            /\ comp' = [comp EXCEPT ![stale] = Append(@, Here)]
            /\ Conclude(header)
            /\ UNCHANGED <<name, stack, branches, blocks, outcome>>

\* statementsStack.back().currentComposition->AddRenderer
AddLeaf(k, header) ==
    IF stack = <<>> THEN Undefined
    ELSE /\ kind' = [kind EXCEPT ![Here] = k]
         /\ comp' = [comp EXCEPT ![Last(stack)] = Append(@, Here)]
         /\ Conclude(header)
         /\ UNCHANGED <<name, stack, branches, blocks, outcome>>

\* The statement on top of st is complete: it is popped and becomes part of the
\* statement below it.
Attach(st, header) ==
    IF Len(st) = 1 THEN Undefined
    ELSE /\ stack' = Front(st)
         /\ comp' = [comp EXCEPT ![st[Len(st) - 1]] = Append(@, Last(st))]
         /\ Conclude(header)
         /\ UNCHANGED <<kind, name, blocks, outcome>>

\* ParseEndSet, ParseEndMacro, ParseEndCall, ParseEndWith, ParseEndFilter
Close(k, header) ==
    IF Len(stack) <= 1 \/ KindOfTop # k THEN Reject("statement")
    ELSE Attach(stack, header) /\ UNCHANGED branches
-----------------------------------------------------------------------------
(* The handlers of the statements, one for each keyword. *)

ParseFor(header) ==
    \/ header = "bad" /\ Reject("header")
    \/ Open("For", NoName, header)

\* Mutant of CloseWithBranches: the branches are popped but never set.
CloseWithoutBranches(i, header) ==
    Attach(SubSeq(stack, 1, i), header) /\ UNCHANGED branches

\* The statement at place i of the stack is closed, with the else branches that
\* have been popped from above it.
CloseWithBranches(i, header) ==
    /\ Attach(SubSeq(stack, 1, i), header)
    /\ branches' = IF 1 < i /\ i < Len(stack)
                   THEN [branches EXCEPT ![stack[i]] = SubSeq(stack, i + 1, Len(stack))]
                   ELSE branches

\* An else branch is popped before what is below it is looked at.
ParseEndFor(header) ==
    IF Len(stack) <= 1 THEN Reject("statement")
    ELSE LET i == IF KindOfTop = "ElseIf" THEN Len(stack) - 1 ELSE Len(stack)
         IN IF kind[stack[i]] = "For" THEN CloseWithBranches(i, header)
            ELSE /\ stack' = SubSeq(stack, 1, i)
                 /\ Report("statement", Here)
                 /\ UNCHANGED <<tree, outcome>>

ParseIf(header) ==
    \/ header = "bad" /\ Reject("header")
    \/ Open("If", NoName, header)

\* Nothing is asked of the statement the branch belongs to.
ParseElse(header) == Open("ElseIf", NoName, header)

ParseElIf(header) ==
    \/ header = "bad" /\ Reject("header")
    \/ Open("ElseIf", NoName, header)

\* The records above place i are else branches, the one at i is not; i = 0 when
\* the whole stack is else branches.
IsOwner(i) ==
    /\ i > 0 => kind[stack[i]] # "ElseIf"
    /\ \A j \in (i + 1)..Len(stack) : kind[stack[j]] = "ElseIf"

\* Mutant of ParseEndIf: the branches are collected in the order they are popped.
ParseEndIfReversed(header) ==
    IF Len(stack) <= 1 THEN Reject("statement")
    ELSE \E i \in 2..Len(stack) :
           /\ IsOwner(i)
           /\ kind[stack[i]] = "If"
           /\ Attach(SubSeq(stack, 1, i), header)
           /\ branches' = [branches EXCEPT ![stack[i]] =
                             Reverse(SubSeq(stack, i + 1, Len(stack)))]

\* Mutant of ParseEndIf: the record under the branches is taken for an if.
ParseEndIfUnchecked(header) ==
    IF Len(stack) <= 1 THEN Reject("statement")
    ELSE \E i \in 0..Len(stack) :
           /\ IsOwner(i)
           /\ IF i = 0 THEN Undefined ELSE CloseWithBranches(i, header)

\* The record found under the else branches has been popped too when its type is
\* looked at; an empty stack is popped again.
EndIfAt(i, header) ==
    IF i = 0 THEN Undefined
    ELSE IF kind[stack[i]] = "If" THEN CloseWithBranches(i, header)
    ELSE /\ stack' = SubSeq(stack, 1, i - 1)
         /\ Report("statement", IF i = Len(stack) THEN Here ELSE stack[i + 1])
         /\ UNCHANGED <<tree, outcome>>

\* The else branches are popped down to a record of another type.
ParseEndIf(header) ==
    IF Len(stack) <= 1 THEN Reject("statement")
    ELSE \E i \in 0..Len(stack) : IsOwner(i) /\ EndIfAt(i, header)

\* {% set x = e %} is a leaf; {% set x | f %} and {% set x %} open a body.
ParseSet(header) ==
    \/ header = "bad" /\ Reject("header")
    \/ AddLeaf("SetLine", header)
    \/ Open("Set", NoName, header)

ParseEndSet(header) == Close("Set", header)

\* Mutant of ParseBlock: any open {% extends %} makes the block an override, not
\* only the one on top of the stack.
ParseBlockAnyExtends(header) ==
    \/ header = "bad" /\ Reject("header")
    \/ /\ header # "bad"
       /\ IF stack = <<>> THEN Reject("statement")
          ELSE LET extends == \E x \in Range(stack) : kind[x] = "Extends"
               IN \/ extends /\ \E n \in BlockNames : Open("Block", n, header)
                  \/ ~extends /\ Open("ParentBlock", NoName, header)

\* A block of a template that extends another is kept by the ExtendsStatement on
\* top of the stack; any other block is rendered where it stands.
ParseBlock(header) ==
    \/ header = "bad" /\ Reject("header")
    \/ /\ header # "bad"
       /\ IF stack = <<>> THEN Reject("statement")
          ELSE \/ KindOfTop = "Extends" /\ \E n \in BlockNames : Open("Block", n, header)
               \/ KindOfTop # "Extends" /\ Open("ParentBlock", NoName, header)

\* The record is popped before its type is looked at.
ParseEndBlock(header) ==
    IF Len(stack) <= 1 THEN Reject("statement")
    ELSE \/ header = "bad" /\ Reject("header")
         \/ KindOfTop = "ParentBlock" /\ Attach(stack, header) /\ UNCHANGED branches
         \/ /\ KindOfTop = "Block"
            /\ stack' = Front(stack)
            /\ blocks' = [blocks EXCEPT ![stack[Len(stack) - 1]][name[Last(stack)]] = Last(stack)]
            /\ Conclude(header)
            /\ UNCHANGED <<kind, name, comp, branches, outcome>>
         \/ /\ KindOfTop \notin {"ParentBlock", "Block"}
            /\ header # "bad"
            /\ stack' = Front(stack)
            /\ Report("statement", Here)
            /\ UNCHANGED <<tree, outcome>>

\* The statement is added to the body it stands in at once, and stays open.
ParseExtends(header) ==
    IF stack = <<>> THEN Reject("statement")
    ELSE IF ~HasEnv THEN Reject("environment")
    ELSE \/ header = "bad" /\ Reject("header")
         \/ /\ kind' = [kind EXCEPT ![Here] = "Extends"]
            /\ comp' = [comp EXCEPT ![Last(stack)] = Append(@, Here)]
            /\ stack' = Append(stack, Here)
            /\ Conclude(header)
            /\ UNCHANGED <<name, branches, blocks, outcome>>

ParseMacro(header) ==
    IF stack = <<>> THEN Reject("statement")
    ELSE \/ header = "bad" /\ Reject("header")
         \/ Open("Macro", NoName, header)

ParseEndMacro(header) == Close("Macro", header)

ParseCall(header) ==
    IF stack = <<>> THEN Reject("statement")
    ELSE \/ header = "bad" /\ Reject("header")
         \/ Open("MacroCall", NoName, header)

ParseEndCall(header) == Close("MacroCall", header)

\* Without an environment only {% include x ignore missing %} is accepted.  The
\* handler refuses trailing tokens itself.
ParseInclude(header) ==
    IF stack = <<>> THEN Reject("statement")
    ELSE \/ header # "ok" /\ Reject("header")
         \/ /\ header = "ok"
            /\ \E ignoreMissing \in BOOLEAN :
                 IF ~HasEnv /\ ~ignoreMissing THEN Reject("environment")
                 ELSE AddLeaf("Include", header)

\* Refuses trailing tokens itself.
ParseImport(header) ==
    IF ~HasEnv THEN Reject("environment")
    ELSE \/ header # "ok" /\ Reject("header")
         \/ header = "ok" /\ AddLeaf("Import", header)

\* The errors made for trailing tokens at line 843 and 845 are not returned:
\* it is Parse that reports them, after the renderer has been added.
ParseFrom(header) ==
    IF ~HasEnv THEN Reject("environment")
    ELSE \/ header = "bad" /\ Reject("header")
         \/ header # "bad" /\ AddLeaf("Import", header)

ParseDo(header) ==
    IF ~DoEnabled THEN Reject("extension")
    ELSE \/ header = "bad" /\ Reject("header")
         \/ header # "bad" /\ AddLeaf("Do", header)

\* Refuses trailing tokens itself.
ParseWith(header) ==
    \/ header # "ok" /\ Reject("header")
    \/ header = "ok" /\ Open("With", NoName, header)

ParseEndWith(header) == Close("With", header)

ParseFilter(header) ==
    \/ header = "bad" /\ Reject("header")
    \/ Open("Filter", NoName, header)

ParseEndFilter(header) == Close("Filter", header)
-----------------------------------------------------------------------------
(* DoFineParsing: one text block after the other. *)

\* A block that cannot be tokenized, or that starts with no known keyword.
UnknownStatement(header) == Reject("header")

\* Raw text of a range that is not empty.
RawText == AddLeaf("RawText", "ok")

\* An empty range, a comment.
EmptyBlock == UNCHANGED <<tree, stack, errors, outcome>>

ExpressionBlock(header) ==
    \/ header # "ok" /\ Reject("header")
    \/ header = "ok" /\ AddLeaf("Expression", header)

\* The next text block is of kind k, and is consumed.
Consume(k) ==
    /\ outcome = "parsing"
    /\ pos < MaxBlocks
    /\ k \in Input
    /\ pos' = pos + 1

\* After the last block, any errors are the result; else the root's composition
\* is, whatever is still on the stack.
Finish ==
    /\ outcome = "parsing"
    /\ outcome' = IF errors = <<>> THEN "renderer" ELSE "errors"
    /\ UNCHANGED <<pos, tree, stack, errors>>

Next ==
    \/ Finish
    \/ Consume("text") /\ RawText
    \/ Consume("empty") /\ EmptyBlock
    \/ \E header \in Headers :
         \/ Consume("expression") /\ ExpressionBlock(header)
         \/ Consume("unknown") /\ UnknownStatement(header)
         \/ Consume("for") /\ ParseFor(header)
         \/ Consume("endfor") /\ ParseEndFor(header)
         \/ Consume("if") /\ ParseIf(header)
         \/ Consume("else") /\ ParseElse(header)
         \/ Consume("elif") /\ ParseElIf(header)
         \/ Consume("endif") /\ ParseEndIf(header)
         \/ Consume("set") /\ ParseSet(header)
         \/ Consume("endset") /\ ParseEndSet(header)
         \/ Consume("block") /\ ParseBlock(header)
         \/ Consume("endblock") /\ ParseEndBlock(header)
         \/ Consume("extends") /\ ParseExtends(header)
         \/ Consume("macro") /\ ParseMacro(header)
         \/ Consume("endmacro") /\ ParseEndMacro(header)
         \/ Consume("call") /\ ParseCall(header)
         \/ Consume("endcall") /\ ParseEndCall(header)
         \/ Consume("include") /\ ParseInclude(header)
         \/ Consume("import") /\ ParseImport(header)
         \/ Consume("from") /\ ParseFrom(header)
         \/ Consume("do") /\ ParseDo(header)
         \/ Consume("with") /\ ParseWith(header)
         \/ Consume("endwith") /\ ParseEndWith(header)
         \/ Consume("filter") /\ ParseFilter(header)
         \/ Consume("endfilter") /\ ParseEndFilter(header)

Spec == Init /\ [][Next]_vars
-----------------------------------------------------------------------------
(* What DoFineParsing promises. *)

\* Every variable keeps its shape.
TypeOK ==
    /\ pos \in Ids
    /\ kind \in [Ids -> Kinds]
    /\ name \in [Ids -> BlockNames \union {NoName}]
    /\ stack \in Seq(Ids)
    /\ comp \in [Ids -> Seq(Ids)]
    /\ branches \in [Ids -> Seq(Ids)]
    /\ blocks \in [Ids -> [BlockNames -> Ids]]
    /\ errors \in Seq([class : ErrorClasses, block : Ids])
    /\ outcome \in {"parsing", "renderer", "errors", "undefined"}

IsOpen(x) == x \in Range(stack)
IsRendered(x) == \E p \in Ids : x \in Range(comp[p])
IsBranch(x) == \E p \in Ids : x \in Range(branches[p])
IsOverride(x) == \E p \in Ids, n \in BlockNames : x # Root /\ blocks[p][n] = x
Increasing(s) == \A i, j \in 1..Len(s) : i < j => s[i] < s[j]

\* The order of rendering is the order of the source: the stack, every body and
\* every list of else branches are in the order of the text blocks, a body holds
\* only what follows the statement's opening, and what is added to an open
\* statement's body is added before the statement nested in it was opened.
DocumentOrder ==
    /\ Increasing(stack)
    /\ \A p \in Ids :
         /\ Increasing(comp[p])
         /\ Increasing(branches[p])
         /\ \A x \in Range(comp[p]) \union Range(branches[p]) : p < x /\ x <= pos
    /\ \A i \in 1..(Len(stack) - 1) :
         \A x \in Range(comp[stack[i]]) :
            x < stack[i + 1] \/ (x = stack[i + 1] /\ kind[x] = "Extends")

\* A renderer disappears only with an error: while there is none, whatever was
\* made from a text block is open, or has its place in the tree, or is a block
\* replaced by a later one of the same name (AddBlock keeps the last).
NothingLostSilently ==
    errors = <<>> =>
        \A x \in Ids : kind[x] # "None" /\ x # Root =>
            \/ IsOpen(x) \/ IsRendered(x) \/ IsBranch(x) \/ IsOverride(x)
            \/ /\ kind[x] = "Block"
               /\ \E p \in Ids : x < blocks[p][name[x]]

\* The unchecked casts of ParseEndBlock: a BlockStatement on the stack stands
\* directly on an ExtendsStatement, and only those have blocks.
BlockOnExtends ==
    /\ \A i \in 1..Len(stack) :
         kind[stack[i]] = "Block" => i > 1 /\ kind[stack[i - 1]] = "Extends"
    /\ \A p \in Ids, n \in BlockNames :
         blocks[p][n] # Root => kind[p] = "Extends" /\ kind[blocks[p][n]] = "Block"

\* As long as nothing is reported the root is at the bottom of the stack and
\* nowhere else: back() and pop_back() meet an empty list only in a template
\* that has been refused already.
CleanKeepsRoot ==
    /\ errors = <<>> => stack # <<>> /\ stack[1] = Root /\ outcome # "undefined"
    /\ outcome = "renderer" => errors = <<>> /\ stack[1] = Root
    /\ \A i \in 2..Len(stack) : stack[i] # Root

\* A statement that is not open any more is final: nothing is added to its body,
\* its branches or its blocks.
ClosedIsFinal ==
    [][\A x \in Ids : x <= pos /\ ~IsOpen(x) =>
          /\ comp'[x] = comp[x]
          /\ branches'[x] = branches[x]
          /\ blocks'[x] = blocks[x]
          /\ kind'[x] = kind[x]]_vars
=============================================================================

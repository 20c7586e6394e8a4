------------------------ MODULE MCStatementsParser ------------------------
(* Instances of StatementsParser for TLC: every statement in short templates, *)
(* and conditions, loops and inheritance in longer ones.                      *)
EXTENDS StatementsParser

\* Every kind of text block.
AllInput == {"text", "empty", "expression", "unknown", "for", "endfor", "if", "else",
             "elif", "endif", "set", "endset", "block", "endblock", "extends", "macro",
             "endmacro", "call", "endcall", "include", "import", "from", "do", "with",
             "endwith", "filter", "endfilter"}

AllHeaders == {"ok", "bad", "tail"}

\* Bound: the text blocks a template of any statements may have.
ShortBlocks == 4

\* So far without an error, and of text, conditions, loops and inheritance only.
IsNested ==
    /\ errors = <<>>
    /\ \A x \in 1..pos : kind[x] \in {"None", "RawText", "If", "ElseIf", "For", "Extends", "Block"}

\* Well formed text, conditions, loops and inheritance.
NestNext ==
    \/ Finish
    \/ Consume("text") /\ RawText
    \/ Consume("for") /\ ParseFor("ok")
    \/ Consume("endfor") /\ ParseEndFor("ok")
    \/ Consume("if") /\ ParseIf("ok")
    \/ Consume("else") /\ ParseElse("ok")
    \/ Consume("endif") /\ ParseEndIf("ok")
    \/ Consume("extends") /\ ParseExtends("ok")
    \/ Consume("block") /\ ParseBlock("ok")
    \/ Consume("endblock") /\ ParseEndBlock("ok")

\* Steps of Next only: a short template goes on with any statement, and what is
\* nested only goes on up to MaxBlocks.
MCNext ==
    \/ pos < ShortBlocks /\ Next
    \/ pos >= ShortBlocks /\ IsNested /\ NestNext
    \/ pos >= ShortBlocks /\ ~IsNested /\ Finish

MCSpec == Init /\ [][MCNext]_vars
=============================================================================

------------------------------- MODULE MCLexer -------------------------------
(* Lexer on all short blocks, and on longer blocks of numbers, of strings and *)
(* of operators.                                                              *)
EXTENDS Lexer

Script(set, max) == [chars |-> set, max |-> max]

MCScripts ==
    {Script({"1", "e", "n", ".", "+", "*", "=", "'", "\\", ";", " ", "$"}, 4),
     Script({"1", ".", "e", "+", " "}, 6),
     Script({"'", "\"", "\\", "n", "t"}, 6),
     Script({"<", ">", "=", "!", "*", "/", "&"}, 4),
     Script({"n", "e", "t", ".", " "}, 5)}
=============================================================================

---------------------------- MODULE MCRoughParser ----------------------------
EXTENDS RoughParser

Raw(word) == <<"{", "%", " ", word, " ", "%", "}">>
Plain == {<<"x">>, <<" ">>, <<"\n">>, <<"-">>, <<"'">>, <<"#">>}
Opening == {<<"{", "{">>, <<"{", "%">>, <<"{", "#">>, Raw("raw"), Raw("meta")}
Closing == {<<"}", "}">>, <<"%", "}">>, <<"#", "}">>, Raw("endraw"), Raw("endmeta")}
Lexemes == Plain \cup Opening \cup Closing

\* All sequences of up to n lexemes.
UpTo(n) == {FlattenSeq(s) : s \in BoundedSeq(Lexemes, n)}

\* One block between texts, with white space and signs around its delimiters.
SignOrNone == {<<>>, <<"-">>, <<"+">>}
Space == {<<>>, <<" ">>, <<"\n", " ">>, <<"x", " ">>, <<" ", "\n">>, <<"x", "\n", " ", " ">>}
Ends == <<  <<<<"{", "{">>, <<"}", "}">>>>, <<<<"{", "%">>, <<"%", "}">>>>,
            <<<<"{", "#">>, <<"#", "}">>>> >>
OneBlockIn ==
    {before \o Ends[i][1] \o s \o inside \o t \o Ends[i][2] \o after :
        i \in 1 .. 3, s \in SignOrNone, t \in SignOrNone,
        before \in Space, after \in Space, inside \in {<<>>, <<"x">>, <<" ", "'">>}}
RawBlockIn ==
    {before \o <<"{", "%">> \o s \o <<" ", "raw", " ">> \o t \o <<"%", "}">> \o inside \o
     <<"{", "%">> \o u \o <<" ", "endraw", " ">> \o v \o <<"%", "}">> \o after :
        s \in SignOrNone, t \in SignOrNone, u \in SignOrNone, v \in SignOrNone,
        before \in {<<"x", " ">>, <<"\n", " ">>}, after \in {<<" ", "\n">>, <<"x">>},
        inside \in {<<>>, <<"-", "x">>, <<" ", "\n", " ">>, <<"{", "{", " ", "}", "}">>}}
LineStatementIn ==
    {a \o b \o c : a \in {<<>>, <<"#", "x", "\n">>, <<"x", "\n">>, <<"\n">>},
                   b \in {<<"#", "x", "-", "\n">>, <<"#", "{", "{", "}", "}", "\n">>, <<"#", "\n">>},
                   c \in {<<>>, <<"#", "x">>, <<"x">>, <<"{", "{", "x", "}", "}">>, Raw("raw")}}

MCTemplates == UpTo(3) \cup OneBlockIn \cup RawBlockIn \cup LineStatementIn
MCSettings == [lineStatements : {FALSE}, trimBlocks : BOOLEAN, lstripBlocks : BOOLEAN]
              \cup {[lineStatements |-> TRUE, trimBlocks |-> FALSE, lstripBlocks |-> FALSE]}
=============================================================================

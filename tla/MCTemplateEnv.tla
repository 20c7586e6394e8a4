---------------------------- MODULE MCTemplateEnv ----------------------------
(* Instances of TemplateEnv: a few threads, one name, handlers on the *)
(* disk and in memory.                                                        *)
EXTENDS TemplateEnv

CONSTANTS t1, t2, a

TwoThreads == {t1, t2}
OneName == {a}

\* Every handler serves every name.
ServeAll == [h \in Handlers |-> Names]
\* The second text does not parse.
SecondBroken == {2}

=============================================================================

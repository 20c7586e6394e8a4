----------------------------- MODULE MCRenderTree -----------------------------
(* Instances of RenderTree: sets of up to three templates that extend, include, *)
(* import and call each other, some of them missing, and a definition of what   *)
(* templates that only extend each other render.                                *)
EXTENDS RenderTree

Text_(w) == [op |-> "text", word |-> w]
Show_(v) == [op |-> "show", var |-> v]
Set_(v, w) == [op |-> "set", var |-> v, words |-> <<w>>]
If_(branches) == [op |-> "if", branches |-> branches]
Capture_(target, filter, body) ==
    [op |-> "capture", target |-> target, filter |-> filter, body |-> body]
With_(v, w, body) == [op |-> "with", vars |-> (v :> w), body |-> body]
Macro_(m, params, body) == [op |-> "macro", name |-> m, params |-> params, body |-> body]
Invoke_(path, args) == [op |-> "invoke", path |-> path, args |-> args]
Call_(m, args, body) ==
    [op |-> "call", callee |-> m, args |-> args, name |-> "$call$", params |-> <<>>,
     body |-> body]
Block_(b, scoped, body) == [op |-> "block", name |-> b, scoped |-> scoped, body |-> body]
Extends_(f, blocks) == [op |-> "extends", isPath |-> TRUE, file |-> f, blocks |-> blocks]
Include_(fs, ignore, with) ==
    [op |-> "include", files |-> fs, ignoreMissing |-> ignore, withContext |-> with]
Import_(id, f, ns, names, with) ==
    [op |-> "import", id |-> id, file |-> f, namespace |-> ns, names |-> names,
     withContext |-> with]

Super == Invoke_(<<"super">>, <<>>)
Caller_ == Invoke_(<<"caller">>, <<>>)
NoBlocks == Empty

Files == {"main", "a", "b"}
\* Every choice of a template for each file; a template <<>> is a file that is missing.
Combine(mains, as, bs) ==
    {LET all == [main |-> m, a |-> x, b |-> y]
     IN [f \in {g \in Files : all[g] # <<>>} |-> all[f]] : m \in mains, x \in as, y \in bs}
-----------------------------------------------------------------------------
(* Templates that extend each other: main extends a, a extends b. *)

Inner(scoped) == Block_("y", scoped, <<Text_("y")>>)
Roots ==
    { <<Text_("b"), Block_("x", s, <<Text_("x")>>), Block_("y", t, <<Show_("p")>>)>> :
        s \in BOOLEAN, t \in BOOLEAN }
    \union { <<Block_("x", s, <<Text_("x"), Inner(t)>>), Text_("b")>> :
        s \in BOOLEAN, t \in BOOLEAN }
Overrides(word) ==
    { <<Text_(word)>>, <<Super, Text_(word)>> }
Middles ==
    { <<Extends_("b", "x" :> o)>> : o \in Overrides("ax") }
    \union { <<Extends_("b", "x" :> o @@ "y" :> <<Text_("ay")>>)>> : o \in Overrides("ax") }
    \union { <<Extends_("b", "x" :> <<Text_("ax"), Inner(s), Super>>)>> : s \in BOOLEAN }
    \union { <<Text_("a"), Block_("x", FALSE, <<Text_("ax")>>), Block_("y", TRUE, <<>>)>> }
Derived ==
    { <<Text_("m"), Extends_("a", NoBlocks)>> }
    \union { <<Extends_("a", "x" :> o)>> : o \in Overrides("mx") }
    \union { <<Extends_("a", "y" :> o)>> : o \in Overrides("my") }
    \union { <<Extends_("a", "x" :> o @@ "y" :> q)>> : o \in Overrides("mx"), q \in Overrides("my") }
Inheritance == Combine(Derived, Middles \union {<<>>}, Roots \union {<<>>})

\* seen: whether the values given to Render are seen here.
RECURSIVE Rendered(_, _, _, _)
Rendered(body, super, overrides, seen) ==
    IF body = <<>> THEN <<>> ELSE
    LET n == Head(body)
        found == IF n.op = "block"
                 THEN SelectSeq(overrides, LAMBDA o : n.name \in DOMAIN o) ELSE <<>>
        words == CASE n.op = "text" -> <<n.word>>
                   [] n.op = "show" -> IF seen THEN WordsOf(Params[n.var]) ELSE <<>>
                   [] n.op = "invoke" -> Rendered(super, <<>>, overrides, seen)
                   [] n.op = "block" /\ found = <<>> ->
                        Rendered(n.body, super, overrides, seen)
                   [] OTHER ->
                        Rendered(Head(found)[n.name], n.body, overrides, seen /\ n.scoped)
    IN words \o Rendered(Tail(body), super, overrides, seen)

RECURSIVE Page(_, _, _)
Page(fs, f, overrides) ==
    LET last == Last(fs[f])
    IN IF last.op = "extends"
       THEN Rendered(Front(fs[f]), <<>>, overrides, TRUE)
              \o Page(fs, last.file, <<last.blocks>> \o overrides)
       ELSE Rendered(fs[f], <<>>, overrides, TRUE)

\* What templates that extend each other render is the text of the last of them, in
\* which each block is the one of the nearest template that overrides it, super the
\* block overridden, and the values given to Render are seen only where every block
\* around is scoped.  (Where two templates override one block, Python's Jinja2 takes
\* the farthest.)
RendersInheritance ==
    (status = "done" /\ files \in Inheritance) => out[1] = Page(files, Main, <<>>)
-----------------------------------------------------------------------------
(* Templates that include, import and call. *)

Data_(w) == Data(<<w>>)
ParamValues == [p |-> Data_("p"), fileA |-> Data_("a"), fileB |-> Data_("b")]
GlobalValues == [g |-> Data_("g")]

Plain ==
    << Set_("v", "1"),
       With_("w", "v", <<Set_("v", "2"), Show_("w"), Show_("v")>>),
       Capture_("v", FALSE, <<Set_("p", "3"), Show_("p"), Show_("v")>>), Show_("v"),
       Capture_("v", TRUE, <<Show_("v")>>), Capture_("none", TRUE, <<Show_("p")>>),
       If_(<<[cond |-> "none", body |-> <<Text_("no")>>], [cond |-> "v", body |-> <<Set_("z", "4")>>]>>),
       If_(<<[cond |-> "none", body |-> <<>>]>>),
       If_(<<[cond |-> "none", body |-> <<>>], [cond |-> "else", body |-> <<Show_("z")>>]>>),
       [op |-> "extends", isPath |-> FALSE, file |-> "v", blocks |-> NoBlocks] >>

Shared(with) == Include_(<<"a">>, TRUE, with)
Includes ==
    { <<Set_("v", "0"), Shared(w1), Show_("v"), Shared(w2), Block_("x", s, <<Text_("own")>>)>> :
        w1 \in BOOLEAN, w2 \in BOOLEAN, s \in BOOLEAN }
    \union { <<Include_(<<"fileA", "b">>, i, w), Show_("v")>> : i \in BOOLEAN, w \in BOOLEAN }
    \union { <<Macro_("m", <<"q">>, <<Set_("u", "1"), Shared(w), Show_("q"), Show_("v")>>),
               Invoke_(<<"m">>, <<"p">>), Call_("m", <<>>, <<Text_("c")>>), Show_("v")>> :
        w \in BOOLEAN }
Imports_ ==
    { <<Set_("q", "0"), Import_("i", "a", "n", Empty, w), Invoke_(<<"n", "f">>, <<"p">>),
        Invoke_(<<"n", "v">>, <<>>)>> : w \in BOOLEAN }
    \union { <<Import_("i", "a", "none", names, w), Invoke_(<<"f2">>, <<"p">>),
               Call_("f2", <<"g">>, <<Show_("v")>>), Show_("v")>> :
        names \in {"f" :> "f2", "f" :> "f2" @@ "v" :> "v", "f" :> "f2" @@ "h" :> "h"},
        w \in BOOLEAN }
    \union { <<Macro_("m", <<"file">>, <<Import_("i", e, "none", "f" :> "f", FALSE),
                                         Invoke_(<<"f">>, <<"p">>)>>),
               Invoke_(<<"m">>, <<"fileA">>), Invoke_(<<"m">>, <<"fileB">>)>> :
        e \in {"fileA", "fileB"} }
Calls_ ==
    { <<Macro_("inner", <<>>, <<Text_("i"), Caller_>>),
        Macro_("outer", <<"name">>, <<Call_("inner", <<>>, body), Caller_>>),
        Call_("outer", <<"p">>, <<Text_("c")>>), Call_("gone", <<>>, <<>>), Caller_>> :
        body \in {<<Text_("d")>>, <<Show_("name")>>, <<Caller_>>} }

Macros(f) == << Set_("v", "9"), Macro_("_k", <<>>, <<Text_("k")>>),
                Macro_("h", <<"v">>, <<Show_("v")>>), Macro_("f", <<"q">>, f) >>
ModuleBodies ==
    { <<Show_("q"), Show_("v"), Invoke_(<<"_k">>, <<>>)>>, <<Invoke_(<<"h">>, <<"q">>), Caller_>>,
      <<Block_("x", FALSE, <<Text_("x")>>), Set_("r", "5"), Include_(<<"b">>, TRUE, TRUE)>> }
As ==
    { Macros(f) : f \in ModuleBodies }
    \union { <<>>, <<Text_("a"), Extends_("gone", NoBlocks)>>, <<Text_("a"), Extends_("b", NoBlocks)>>,
             <<Extends_("b", "x" :> <<Text_("ax"), Super>>)>>,
             <<Set_("v", "3"), Include_(<<"b">>, FALSE, TRUE), Show_("v")>>,
             <<Import_("j", "b", "n", Empty, FALSE),
               Macro_("f", <<"q">>, <<Invoke_(<<"n", "f">>, <<"q">>)>>)>>,
             <<Import_("j", "b", "none", "f" :> "f", TRUE)>> }
Bs ==
    { <<>>, Macros(<<Show_("q")>>),
      <<Set_("v", "6"), Block_("x", FALSE, <<Text_("bx")>>), Invoke_(<<"self", "x">>, <<>>)>>,
      <<Set_("self", "7"), Block_("x", TRUE, <<Text_("bx")>>)>> }
Composition == Combine({Plain} \union Includes \union Imports_ \union Calls_, As, Bs)

AllPrograms == Inheritance \union Composition

RECURSIVE Within(_)
Within(body) ==
    LET parts == UNION {Parts(body[i]) : i \in DOMAIN body}
    IN parts \union UNION {Within(part) : part \in parts}
AllBodies ==
    UNION {Within(body) : body \in UNION {Range(program) : program \in AllPrograms}}
=============================================================================

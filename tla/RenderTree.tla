------------------------------ MODULE RenderTree ------------------------------
(***************************************************************************)
(* One rendering: the statements of src/src/statements.cpp that open scopes, *)
(* make contexts, call other bodies and other templates, and the            *)
(* RenderContext they do it with.  (The loop is in module ForLoop.)         *)
(*                                                                         *)
(* The C++ call stack is `stack': a frame for each body being rendered and  *)
(* for each handler that waits for one; `end' says which handler goes on    *)
(* when the body is done.  A RenderContext that a handler makes lives in     *)
(* `ctxs' as long as its frame; so do the strings in `out'.                 *)
(*                                                                         *)
(* A template is a sequence of statements, records with a field op.  Data   *)
(* are sequences of words, strings that do not end up in numbers.  Only the *)
(* last statement of a template can be an extends: the parser puts whatever *)
(* follows into it, and no statement around it can be closed any more.  The *)
(* arguments of a call are for the first parameters; the other ways to      *)
(* match them (ParseCallParams) are in module CallParams.                   *)
(*                                                                         *)
(* `before', `depth' and `args' of a frame, and `copied', are history.      *)
(***************************************************************************)
EXTENDS Naturals, SequencesExt

CONSTANTS
    Programs,   \* functions from file names to templates; what is not there is missing
    Bodies,     \* the bodies of the statements in them
    Main,       \* the file that is rendered
    Params,     \* the values given to Render
    Globals,    \* the values of the environment
    Private,    \* the names that begin with an underscore
    MaxDepth    \* bound: the frames the C++ stack has room for

VARIABLES
    files,      \* the templates
    kept,       \* ImportStatement::m_renderer, by the statement's id
    stack, ctxs, out,
    renderers,  \* how many ParentTemplateRenderers have been made
    copied,     \* history: the renderers an include has copied a pointer to
    status      \* "running", "done", an error code, "crashed" or "overflow"

vars == <<files, kept, stack, ctxs, out, renderers, copied, status>>

\* The bodies a statement holds, and what the parser sees to: a body is never a
\* template's, and extends is the last statement of one.
Parts(node) ==
    CASE node.op = "if" -> {node.branches[i].body : i \in DOMAIN node.branches}
      [] node.op \in {"capture", "with", "macro", "call", "block"} -> {node.body}
      [] node.op = "extends" -> Range(node.blocks)
      [] OTHER -> {}

IsStatement(node) ==
    /\ Parts(node) \subseteq Bodies
    /\ node.op = "if" => node.branches \in Seq(Range(node.branches))
IsBody(body) == \A i \in DOMAIN body : body[i].op # "extends" /\ IsStatement(body[i])
IsTemplate(body) ==
    \A i \in DOMAIN body : (body[i].op = "extends" => i = Len(body)) /\ IsStatement(body[i])

ASSUME ProgramsAssumption ==
    /\ \A body \in Bodies : body \in Seq(Range(body)) /\ IsBody(body)
    /\ \A program \in Programs :
         /\ Main \in DOMAIN program
         /\ \A file \in DOMAIN program :
              program[file] \in Seq(Range(program[file])) /\ IsTemplate(program[file])

ASSUME ValuesAssumption ==
    /\ \A v \in DOMAIN Params : Params[v].k = "data"
    /\ \A v \in DOMAIN Globals : Globals[v].k = "data"

ErrorCodes == {"FileNotFound", "TemplateNotFound", "UnexpectedException"}
Empty == [v \in {} |-> {}]
\* A map of one name, and a map laid over another.
Single(v, x) == [w \in {v} |-> x]
Merge(f, g) == [v \in DOMAIN f \union DOMAIN g |-> IF v \in DOMAIN f THEN f[v] ELSE g[v]]
ParentTemplate == "$$__parent_template"
-----------------------------------------------------------------------------
(* Values: data, macros, imported macros, super, blocks of self, maps, lists *)
(* of renderers, and what import keeps of a template (a module).             *)

NoValue == [k |-> "none"]
Data(words) == [k |-> "data", words |-> words]
MapOf(vals) == [k |-> "map", vals |-> vals]
MacroOf(node) == [k |-> "macro", node |-> node, live |-> TRUE]

IsMacro(v) == v.k \in {"macro", "imported"}
IsCallable(v) == IsMacro(v) \/ v.k \in {"super", "block"}
IsTrue(v) == v.k = "data" /\ v.words # <<>>
WordsOf(v) == IF v.k = "data" THEN v.words ELSE <<>>

\* What std::move leaves behind: an empty string, function, map, list or pointer.
MovedFrom(v) ==
    CASE v.k = "data" -> Data(<<>>)
      [] IsMacro(v) -> [v EXCEPT !.live = FALSE]
      [] v.k = "map" -> MapOf(Empty)
      [] v.k = "renderers" -> [v EXCEPT !.list = <<>>]
      [] v.k = "module" -> [k |-> "null"]
      [] OTHER -> v
-----------------------------------------------------------------------------
(* RenderContext. *)

NewContext(ext) == [bound |-> <<>>, scopes |-> <<Single("self", MapOf(Empty))>>, ext |-> ext]
Clone(c, includeCurrent) == IF includeCurrent THEN c ELSE NewContext(Empty)
EnterScope(c, scope) == [c EXCEPT !.scopes = Append(@, scope)]
ExitScope(c) == [c EXCEPT !.scopes = Front(@)]
CurrentScope(c) == Last(c.scopes)
PutAll(c, scope) == [c EXCEPT !.scopes[Len(c.scopes)] = Merge(scope, @)]
Put(c, v, x) == PutAll(c, Single(v, x))
Erase(c, v) ==
    [c EXCEPT !.scopes[Len(c.scopes)] = [w \in DOMAIN @ \ {v} |-> @[w]]]

\* The maps FindValue looks into, in its order.
Chain(c) == c.bound \o Reverse(c.scopes) \o <<c.ext, Globals>>

\* Mutant of FindValue: the outermost value is found.
FindOuter(c, v) ==
    LET found == {i \in DOMAIN Chain(c) : v \in DOMAIN Chain(c)[i]}
    IN IF found = {} THEN NoValue ELSE Chain(c)[Max(found)][v]
FindValue(c, v) ==
    LET found == {i \in DOMAIN Chain(c) : v \in DOMAIN Chain(c)[i]}
    IN IF found = {} THEN NoValue ELSE Chain(c)[Min(found)][v]

\* name, or name.member
Evaluate(c, path) ==
    LET v == FindValue(c, Head(path))
    IN CASE Len(path) = 1 -> v
         [] v.k = "map" /\ path[2] \in DOMAIN v.vals -> v.vals[path[2]]
         [] OTHER -> NoValue

\* A file's name, or a variable that holds it.
NameOf(c, e) == IF e \in DOMAIN Params THEN Head(WordsOf(FindValue(c, e))) ELSE e
-----------------------------------------------------------------------------
(* The stack. *)

Top == Last(stack)
Node == Head(Top.todo)
Context == ctxs[Top.ctx]
Caller == stack[Len(stack) - 1]

Running == status = "running" /\ Len(stack) < MaxDepth
IsNext(op) == Running /\ Top.todo # <<>> /\ Node.op = op
Ends(op) == Running /\ Top.todo = <<>> /\ Top.end.op = op

Frame(cs, todo, ctx, os, end) ==
    [todo |-> todo, ctx |-> ctx, os |-> os, end |-> end,
     base |-> Len(ctxs), streams |-> Len(out),
     depth |-> Len(cs[ctx].scopes), before |-> Context.scopes]

Advance == [stack EXCEPT ![Len(stack)].todo = Tail(@)]
Write(os, words) == [out EXCEPT ![os] = @ \o words]

Step(cs, outs) == stack' = Advance /\ ctxs' = cs /\ out' = outs
Skip == Step(ctxs, out)
Run(cs, outs, frames) == stack' = Advance \o frames /\ ctxs' = cs /\ out' = outs

\* The frame on top goes on with another body.
Become(cs, todo, ctx, end) ==
    /\ stack' = Append(Front(stack),
           [Top EXCEPT !.todo = todo, !.ctx = ctx, !.end = end,
                       !.depth = Len(cs[ctx].scopes), !.before = ctxs[Caller.ctx].scopes])
    /\ ctxs' = cs
    /\ UNCHANGED out

\* The handler returns, and with it go the contexts and strings it made.
ReturnFrom(n, cs, outs) ==
    /\ stack' = SubSeq(stack, 1, n - 1)
    /\ ctxs' = SubSeq(cs, 1, stack[n].base)
    /\ out' = SubSeq(outs, 1, stack[n].streams)
Return(cs, outs) == ReturnFrom(Len(stack), cs, outs)

Quiet == UNCHANGED <<files, kept, renderers, copied, status>>
Stop(s) == status' = s /\ UNCHANGED <<files, kept, stack, ctxs, out, renderers, copied>>

\* An error thrown: the innermost include takes FileNotFound, nothing takes the others.
Raise(code) ==
    LET catching == {n \in DOMAIN stack : stack[n].end.op = "include"}
    IN IF code = "FileNotFound" /\ catching # {}
       THEN LET n == Max(catching)
            IN /\ stack' = SubSeq(stack, 1, n)
               /\ ctxs' = SubSeq(ctxs, 1, stack[n].base)
               /\ out' = SubSeq(out, 1, stack[n].streams)
               /\ Quiet
       ELSE Stop(code)

Init ==
    /\ files \in Programs
    /\ kept = Empty
    /\ ctxs = <<NewContext(Params)>>
    /\ out = << <<>> >>
    /\ stack = << [todo |-> files[Main], ctx |-> 1, os |-> 1, end |-> [op |-> "main"],
                   base |-> 1, streams |-> 1, depth |-> 1, before |-> <<>>] >>
    /\ renderers = 0
    /\ copied = {}
    /\ status = "running"
-----------------------------------------------------------------------------
(* Statements that stay in their template. *)

Text ==
    /\ IsNext("text")
    /\ Step(ctxs, Write(Top.os, <<Node.word>>))
    /\ Quiet

Show ==
    /\ IsNext("show")
    /\ Step(ctxs, Write(Top.os, WordsOf(FindValue(Context, Node.var))))
    /\ Quiet

Set ==
    /\ IsNext("set")
    /\ Step([ctxs EXCEPT ![Top.ctx] = Put(@, Node.var, Data(Node.words))], out)
    /\ Quiet

\* The first branch whose condition holds; an else branch has none.
If ==
    /\ IsNext("if")
    /\ LET chosen == {i \in DOMAIN Node.branches :
                        LET c == Node.branches[i].cond
                        IN c = "else" \/ IsTrue(FindValue(Context, c))}
       IN IF chosen = {}
          THEN Skip
          ELSE Run(ctxs, out, <<Frame(ctxs, Node.branches[Min(chosen)].body, Top.ctx, Top.os,
                                      [op |-> "plain"])>>)
    /\ Quiet

EndPlain == Ends("plain") /\ Return(ctxs, out) /\ Quiet

\* {% set v %}, {% set v | f %} and {% filter f %}, whose target is "none"; a filter
\* is some function of the words.
Capture ==
    /\ IsNext("capture")
    /\ LET cs == Append(ctxs, Clone(Context, TRUE))
           outs == Append(out, <<>>)
       IN Run(cs, outs, <<Frame(cs, Node.body, Len(cs), Len(outs),
                                [op |-> "capture", node |-> Node])>>)
    /\ Quiet

Captured == IF Top.end.node.filter THEN <<"filtered">> \o out[Top.os] ELSE out[Top.os]

EndSet ==
    /\ Ends("capture") /\ Top.end.node.target # "none"
    /\ Return([ctxs EXCEPT ![Caller.ctx] = Put(@, Top.end.node.target, Data(Captured))], out)
    /\ Quiet

EndFilter ==
    /\ Ends("capture") /\ Top.end.node.target = "none"
    /\ Return(ctxs, Write(Caller.os, Captured))
    /\ Quiet

\* Mutant of With: no context and no scope of its own.
WithInPlace ==
    /\ IsNext("with")
    /\ LET scope == [v \in DOMAIN Node.vars |-> FindValue(Context, Node.vars[v])]
           cs == [ctxs EXCEPT ![Top.ctx] = PutAll(@, scope)]
       IN Run(cs, out, <<Frame(cs, Node.body, Top.ctx, Top.os, [op |-> "with"])>>)
    /\ Quiet

\* The values are evaluated outside the new scope.
With ==
    /\ IsNext("with")
    /\ LET scope == [v \in DOMAIN Node.vars |-> FindValue(Context, Node.vars[v])]
           cs == Append(ctxs, EnterScope(Clone(Context, TRUE), scope))
       IN Run(cs, out, <<Frame(cs, Node.body, Len(cs), Top.os, [op |-> "with"])>>)
    /\ Quiet

EndWith == Ends("with") /\ Return(ctxs, out) /\ Quiet
-----------------------------------------------------------------------------
(* Calls.  A frame that ends with "callee" is about to call `fn'. *)

Callee(cs, fn, args) ==
    Frame(cs, <<>>, Top.ctx, Top.os, [op |-> "callee", fn |-> fn, args |-> args])
Arguments(c, names) == [i \in DOMAIN names |-> FindValue(c, names[i])]
Calls(kind) == Ends("callee") /\ Top.end.fn.k = kind
Live == IsMacro(Top.end.fn) => Top.end.fn.live

\* MacroStatement::Render
DefineMacro ==
    /\ IsNext("macro")
    /\ Step([ctxs EXCEPT ![Top.ctx] = Put(@, Node.name, MacroOf(Node))], out)
    /\ Quiet

\* {{ f(x) }}, {{ m.f(x) }}, {{ super() }}, {{ self.b() }}, {{ caller() }}
Invoke ==
    /\ IsNext("invoke")
    /\ LET fn == Evaluate(Context, Node.path)
       IN IF IsCallable(fn)
          THEN Run(ctxs, out, <<Callee(ctxs, fn, Arguments(Context, Node.args))>>)
          ELSE Skip
    /\ Quiet

\* {% call f(x) %} body {% endcall %}
Call ==
    /\ IsNext("call")
    /\ LET fn == FindValue(Context, Node.callee)
           prev == IF "caller" \in DOMAIN CurrentScope(Context)
                   THEN CurrentScope(Context)["caller"] ELSE NoValue
           cs == [ctxs EXCEPT ![Top.ctx] = Put(@, "caller", MacroOf(Node))]
       IN IF IsCallable(fn)
          THEN Run(cs, out, << Frame(cs, <<>>, Top.ctx, Top.os, [op |-> "call", prev |-> prev]),
                               Callee(cs, fn, Arguments(cs[Top.ctx], Node.args)) >>)
          ELSE Skip
    /\ Quiet

EndCall ==
    /\ Ends("call")
    /\ Return([ctxs EXCEPT ![Top.ctx] = IF Top.end.prev = NoValue
                                        THEN Erase(@, "caller")
                                        ELSE Put(@, "caller", Top.end.prev)], out)
    /\ Quiet

\* An empty std::function throws bad_function_call.
CallEmpty == Ends("callee") /\ ~Live /\ Raise("UnexpectedException")

\* The names every macro body has; they are set after the parameters.
MacroNames == {"kwargs", "varargs", "name", "arguments", "defaults"}

MacroScope(node, args) ==
    LET filled == DOMAIN node.params \cap DOMAIN args
        given == [p \in {node.params[i] : i \in filled} |->
                    args[CHOOSE i \in filled : node.params[i] = p]]
    IN Merge([v \in MacroNames |-> Data(<<node.name>>)], given)

\* MacroStatement::InvokeMacroRenderer, also for the body of a call
EnterMacro ==
    /\ Calls("macro") /\ Live
    /\ LET node == Top.end.fn.node
           cs == [ctxs EXCEPT ![Top.ctx] = EnterScope(@, MacroScope(node, Top.end.args))]
       IN Become(cs, node.body, Top.ctx, [op |-> "macro", node |-> node, args |-> Top.end.args])
    /\ Quiet

EndMacro ==
    /\ Ends("macro")
    /\ Return([ctxs EXCEPT ![Top.ctx] = ExitScope(@)], out)
    /\ Quiet

\* ImportedMacroRenderer::InvokeMacro: the callee is looked up in the context of the
\* call, and its template's names go before all scopes.
EnterImported ==
    /\ Calls("imported") /\ Live
    /\ LET module == FindValue(Context, Top.end.fn.scope)
           c == [Clone(Context, module.withContext) EXCEPT !.bound = <<module.vars>>]
           cs == Append(ctxs, c)
       IN CASE module.k = "module" ->
                 Become(cs, <<>>, Len(cs), [Top.end EXCEPT !.fn = Top.end.fn.fn]) /\ Quiet
            [] module.k = "null" -> Stop("crashed")
            [] OTHER -> Return(ctxs, out) /\ Quiet

EnterSuper ==
    /\ Calls("super")
    /\ Become(ctxs, Top.end.fn.node.body, Top.ctx, [op |-> "plain"])
    /\ Quiet
-----------------------------------------------------------------------------
(* Blocks and extends. *)

Block ==
    /\ IsNext("block")
    /\ Run(ctxs, out, <<Callee(ctxs, [k |-> "block", node |-> Node], <<>>)>>)
    /\ Quiet

Parents(c) == LET v == FindValue(c, ParentTemplate)
              IN IF v.k = "renderers" THEN v.list ELSE <<>>
Overriding(c, name) == {i \in DOMAIN Parents(c) : name \in DOMAIN Parents(c)[i].blocks}

\* ParentBlockStatement::Render: no renderer has the block
RenderOwnBody ==
    /\ Calls("block")
    /\ Overriding(Context, Top.end.fn.node.name) = {}
    /\ Become(ctxs, Top.end.fn.node.body, Top.ctx, [op |-> "plain"])
    /\ Quiet

\* the first that has it renders it
RenderOverride ==
    /\ Calls("block")
    /\ LET node == Top.end.fn.node
           found == Overriding(Context, node.name)
           super == Single("super", [k |-> "super", node |-> node])
           list == IF node.scoped THEN Empty
                   ELSE Single(ParentTemplate, [k |-> "renderers", list |-> Parents(Context)])
           cs == Append(ctxs, EnterScope(Clone(Context, node.scoped), Merge(super, list)))
       IN /\ found # {}
          /\ Become(cs, Parents(Context)[Min(found)].blocks[node.name], Len(cs),
                    [op |-> "override", node |-> node])
    /\ Quiet

\* The block is put into self, of the outermost scope; that may be no map any more.
EndOverride ==
    /\ Ends("override")
    /\ LET self == ctxs[Caller.ctx].scopes[1]["self"]
           name == Top.end.node.name
           block == [k |-> "block", node |-> Top.end.node]
       IN IF self.k = "map"
          THEN /\ Return([ctxs EXCEPT ![Caller.ctx].scopes[1]["self"].vals =
                            Merge(@, Single(name, block))], out)
               /\ Quiet
          ELSE Stop("crashed")

\* A renderer lives in ExtendsStatement::Render; whoever asks it later asks freed
\* memory.  RenderOwnBody and RenderOverride are what happens if nothing is there yet.
Alive == {stack[n].end.id : n \in {m \in DOMAIN stack : stack[m].end.op = "extends"}}
AskDead ==
    /\ Calls("block")
    /\ LET asked == Parents(Context)
           found == Overriding(Context, Top.end.fn.node.name)
       IN \E i \in DOMAIN asked : (\A j \in found : i <= j) /\ asked[i].id \notin Alive
    /\ Stop("crashed")

\* A name instead of a path is not implemented.
ExtendsName == IsNext("extends") /\ ~Node.isPath /\ Skip /\ Quiet

ExtendsMissing ==
    /\ IsNext("extends") /\ Node.isPath /\ Node.file \notin DOMAIN files
    /\ Raise("FileNotFound")

\* Mutant of Extends: the new renderer goes last.
ExtendsLast ==
    /\ IsNext("extends") /\ Node.isPath /\ Node.file \in DOMAIN files
    /\ LET r == [id |-> renderers + 1, blocks |-> Node.blocks]
           list == [k |-> "renderers", list |-> Append(Parents(Context), r)]
           cs == [ctxs EXCEPT ![Top.ctx] = Put(@, ParentTemplate, list)]
       IN Run(cs, out, <<Frame(cs, files[Node.file], Top.ctx, Top.os,
                               [op |-> "extends", id |-> r.id])>>)
    /\ renderers' = renderers + 1
    /\ UNCHANGED <<files, kept, copied, status>>

\* ParentTemplateRenderer::Render: the new renderer goes before those of templates
\* that extend this one.
Extends ==
    /\ IsNext("extends") /\ Node.isPath /\ Node.file \in DOMAIN files
    /\ LET r == [id |-> renderers + 1, blocks |-> Node.blocks]
           list == [k |-> "renderers", list |-> <<r>> \o Parents(Context)]
           cs == [ctxs EXCEPT ![Top.ctx] = Put(@, ParentTemplate, list)]
       IN Run(cs, out, <<Frame(cs, files[Node.file], Top.ctx, Top.os,
                               [op |-> "extends", id |-> r.id])>>)
    /\ renderers' = renderers + 1
    /\ UNCHANGED <<files, kept, copied, status>>

EndExtends == Ends("extends") /\ Return(ctxs, out) /\ Quiet
-----------------------------------------------------------------------------
(* Include and import. *)

Include ==
    /\ IsNext("include")
    /\ Run(ctxs, out, <<Frame(ctxs, <<>>, Top.ctx, Top.os,
             [op |-> "include", node |-> Node,
              names |-> [i \in DOMAIN Node.files |-> NameOf(Context, Node.files[i])]])>>)
    /\ Quiet

NextName == [stack EXCEPT ![Len(stack)].end.names = Tail(@)]

TryMissing ==
    /\ Ends("include") /\ Top.end.names # <<>>
    /\ Head(Top.end.names) \notin DOMAIN files
    /\ stack' = NextName
    /\ UNCHANGED <<ctxs, out>> /\ Quiet

\* Mutant of TryFile: without context, the includer's own context is used.
TryFileInPlace ==
    /\ Ends("include") /\ Top.end.names # <<>>
    /\ Head(Top.end.names) \in DOMAIN files
    /\ LET with == Top.end.node.withContext
           cs == IF with THEN Append(ctxs, EnterScope(Context, Empty)) ELSE ctxs
           ctx == IF with THEN Len(cs) ELSE Top.ctx
       IN /\ stack' = Append(NextName, Frame(cs, files[Head(Top.end.names)], ctx, Top.os,
                                             [op |-> "included", withContext |-> with]))
          /\ ctxs' = cs
    /\ UNCHANGED out /\ Quiet

\* IncludedTemplateRenderer::Render
TryFile ==
    /\ Ends("include") /\ Top.end.names # <<>>
    /\ Head(Top.end.names) \in DOMAIN files
    /\ LET with == Top.end.node.withContext
           c == Clone(Context, with)
           cs == Append(ctxs, IF with THEN EnterScope(c, Empty) ELSE c)
       IN /\ stack' = Append(NextName, Frame(cs, files[Head(Top.end.names)], Len(cs), Top.os,
                                             [op |-> "included", withContext |-> with]))
          /\ ctxs' = cs
    /\ UNCHANGED out /\ Quiet

RenderersIn(scope) ==
    UNION {IF scope[v].k = "renderers" THEN {r.id : r \in Range(scope[v].list)} ELSE {} :
             v \in DOMAIN scope}

\* The names the included template has set go into the includer's scope.
EndIncluded ==
    /\ Ends("included")
    /\ LET scope == IF Top.end.withContext THEN CurrentScope(Context) ELSE Empty
       IN /\ ReturnFrom(Len(stack) - 1,
                        [ctxs EXCEPT ![Caller.ctx] = PutAll(@, scope)], out)
          /\ copied' = copied \union RenderersIn(scope)
    /\ UNCHANGED <<files, kept, renderers, status>>

NoneRendered ==
    /\ Ends("include") /\ Top.end.names = <<>>
    /\ IF Top.end.node.ignoreMissing
       THEN Return(ctxs, out) /\ Quiet
       ELSE Raise("TemplateNotFound")

ImportMissing ==
    /\ IsNext("import")
    /\ Node.id \notin DOMAIN kept /\ NameOf(Context, Node.file) \notin DOMAIN files
    /\ Raise("FileNotFound")

\* The template of the first name is kept; the new name names the scope.
Import ==
    /\ IsNext("import")
    /\ Node.id \in DOMAIN kept \/ NameOf(Context, Node.file) \in DOMAIN files
    /\ kept' = Merge(kept, Single(Node.id, NameOf(Context, Node.file)))
    /\ LET newContext == EnterScope(Clone(Context, Node.withContext), Empty)
           cs == ctxs \o <<newContext, EnterScope(newContext, Empty)>>
           outs == Append(out, <<>>)
       IN Run(cs, outs, <<Frame(cs, files[kept'[Node.id]], Len(cs), Len(outs),
                [op |-> "import", node |-> Node, scope |-> NameOf(Context, Node.file)])>>)
    /\ UNCHANGED <<files, renderers, copied, status>>

\* Mutant of Imports: private names are taken as well.
ImportsPrivate(node, scope) ==
    {v \in DOMAIN scope :
        /\ node.namespace # "none" \/ v \in DOMAIN node.names
        /\ IsCallable(scope[v]) => IsMacro(scope[v])}

\* ImportStatement::ImportNames, which moves the values out of the imported scope.
Imports(node, scope) ==
    {v \in DOMAIN scope \ Private :
        /\ node.namespace # "none" \/ v \in DOMAIN node.names
        /\ IsCallable(scope[v]) => IsMacro(scope[v])}

\* What they are called, and the macros among them in macros of their own.
Named(node, scope, scopeName) ==
    LET taken == Imports(node, scope)
        alias(v) == IF node.namespace = "none" THEN node.names[v] ELSE v
        imported(v) == IF IsMacro(scope[v])
                       THEN [k |-> "imported", fn |-> scope[v], scope |-> scopeName, live |-> TRUE]
                       ELSE scope[v]
    IN [a \in {alias(v) : v \in taken} |-> imported(CHOOSE v \in taken : alias(v) = a)]

\* What is kept of the scope.
Module(node, scope) ==
    LET taken == Imports(node, scope)
    IN [k |-> "module", withContext |-> node.withContext,
        vars |-> [v \in DOMAIN scope |->
                    IF v \in taken THEN MovedFrom(scope[v]) ELSE scope[v]]]

EndImport ==
    /\ Ends("import")
    /\ LET node == Top.end.node
           scope == CurrentScope(Context)
           scopeName == "$$_imported_" \o Top.end.scope
           named == Named(node, scope, scopeName)
           new == IF node.namespace = "none" THEN named ELSE Single(node.namespace, MapOf(named))
           module == Single(scopeName, Module(node, scope))
       IN /\ Return([ctxs EXCEPT ![Caller.ctx] = PutAll(@, Merge(module, new))], out)
          /\ copied' = copied \union RenderersIn(scope)
    /\ UNCHANGED <<files, kept, renderers, status>>
-----------------------------------------------------------------------------
Finish == Ends("main") /\ Stop("done")

\* The C++ stack is used up.
Overflow == status = "running" /\ Len(stack) >= MaxDepth /\ Stop("overflow")

Next ==
    \/ Text \/ Show \/ Set \/ If \/ EndPlain
    \/ Capture \/ EndSet \/ EndFilter \/ With \/ EndWith
    \/ DefineMacro \/ Invoke \/ Call \/ EndCall \/ CallEmpty \/ EnterMacro \/ EndMacro
    \/ EnterImported \/ EnterSuper
    \/ Block \/ RenderOwnBody \/ RenderOverride \/ EndOverride \/ AskDead
    \/ ExtendsName \/ ExtendsMissing \/ Extends \/ EndExtends
    \/ Include \/ TryMissing \/ TryFile \/ EndIncluded \/ NoneRendered
    \/ ImportMissing \/ Import \/ EndImport
    \/ Finish \/ Overflow

Spec == Init /\ [][Next]_vars
-----------------------------------------------------------------------------
(* Properties. *)

OwnScopes == {"macro", "with", "capture", "override", "include", "included", "import"}

\* A statement that renders its body in scopes of its own (macro, with, set, filter,
\* an overridden block, include, import) leaves the scopes it was called in as they
\* were as long as the body runs, all but self: what the body sets, calls or throws
\* is not seen outside until the statement hands it out.  And every body goes on in
\* as many scopes as it began with, whatever has been thrown and caught below it.
Undisturbed ==
    /\ Len(Context.scopes) = Top.depth
    /\ \A n \in DOMAIN stack : stack[n].end.op \in OwnScopes =>
         LET before == stack[n].before
             now == ctxs[stack[n - 1].ctx].scopes
         IN \A i \in DOMAIN before :
              \A v \in (DOMAIN before[i] \union DOMAIN now[i]) \ {"self"} :
                 /\ v \in DOMAIN before[i] /\ v \in DOMAIN now[i]
                 /\ before[i][v] = now[i][v]

\* A block asks a renderer whose extends statement has returned only where an include
\* or import has copied the pointer out of the template that extends; all others that
\* blocks ask are there.
DeadOnlyIfCopied ==
    (Top.end.op = "callee" /\ Top.end.fn.k = "block") =>
        {r.id : r \in Range(Parents(Context))} \subseteq Alive \union copied

\* A macro's body sees the arguments it was given, unless the parameter has one of
\* the five names every macro body has, or the macro was imported and its template
\* has a name of its own like it: that one is found first.
ArgumentsAreSeen ==
    Top.end.op = "macro" =>
        \A i \in DOMAIN Top.end.node.params \cap DOMAIN Top.end.args :
            LET p == Top.end.node.params[i]
            IN \/ p \in MacroNames
               \/ \E module \in Range(Context.bound) : p \in DOMAIN module
               \/ FindValue(Context, p) = Top.end.args[i]

\* A macro that is called is empty only where an imported macro runs and calls one
\* that the import has taken as well: ImportNames leaves those that begin with an
\* underscore in the template's own names (src/test/import_test.cpp:20 calls one), and
\* nothing outside the imported template ever finds an empty one.
EmptyOnlyIfTaken ==
    Top.end.op = "callee" /\ ~Live =>
        /\ Context.bound # <<>>
        /\ Top.end.fn.k = "macro" => Top.end.fn.node.name \notin Private
=============================================================================

----------------------------- MODULE TemplateObject -----------------------------
(***************************************************************************)
(* One TemplateImpl (src/src/template_impl.h), which all copies of a        *)
(* Template and the environment's cache share, and the globals of the       *)
(* environment, which a rendering reads.                                    *)
(*                                                                         *)
(* Users call Load, Render, GetMetadata, AddGlobal and RemoveGlobal.  What   *)
(* points into memory of another owner is modelled by the number of what it  *)
(* points to: a renderer and a metadata view by the number of the call of    *)
(* Load whose text they were made from, a metadata map by the number of its  *)
(* JSON document, a value of a global by the number of the call of AddGlobal *)
(* that stored it.  It dangles when its owner has another number.            *)
(*                                                                         *)
(* Either the calls on the template follow each other (`serial'), or, as for *)
(* a template out of the cache of an environment, it has been loaded once    *)
(* and any number of calls but Load overlap.  Calls on the environment       *)
(* overlap with everything, for they are documented as thread-safe.          *)
(***************************************************************************)
EXTENDS Naturals, FiniteSets, Sequences

CONSTANTS
    Users,      \* the threads that use the template and its environment
    Names,      \* the names of globals
    NoUser,
    MaxLoads,   \* bound: calls of Load
    MaxDocs,    \* bound: calls of GetMetadata that find metadata
    MaxValues   \* bound: calls of AddGlobal

ASSUME ObjectAssumption ==
    /\ NoUser \notin Users
    /\ MaxLoads \in Nat /\ MaxDocs \in Nat /\ MaxValues \in Nat

VARIABLES
    serial,     \* whether calls on the template follow each other
    env,        \* whether the template has an environment
    loads,      \* history: what the texts given to Load hold
    source,     \* m_template
    renderer,   \* m_renderer
    metaInfo,   \* m_metadataInfo.metadata
    doc,        \* m_metadataJson
    imported,   \* whether the import statement in the tree has its m_renderer
    globals,    \* m_globalValues
    values,     \* how many values have been added
    sharing,    \* who holds m_guard shared
    owner,      \* who holds it uniquely
    pc,         \* where a user is
    name,       \* the name a user adds or removes, and the value
    seen,       \* extParams of a rendering
    map,        \* the document of the map that a user got from GetMetadata
    answer,     \* what the last Load or LoadFromFile said
    \* History:
    missing,    \* whether the last LoadFromFile found no file
    moment,     \* the globals when a rendering got the lock
    replaced    \* the globals added or removed since then

impl == <<loads, source, renderer, metaInfo, doc, imported, answer, missing>>
lock == <<globals, values, sharing, owner>>
local == <<name, seen, map, moment, replaced>>
vars == <<serial, env, impl, lock, pc, local>>

MetaKinds == {"none", "good", "bad"}
NoValue == [id |-> 0, view |-> FALSE]
\* A string, a list or a map is used by a view of it; a number is copied.
GlobalValues == {NoValue} \cup [id : 1 .. MaxValues, view : BOOLEAN]
Current == Len(loads)
-----------------------------------------------------------------------------
Init ==
    /\ serial \in BOOLEAN /\ env \in BOOLEAN
    /\ loads = <<>> /\ source = 0 /\ renderer = 0 /\ metaInfo = 0
    /\ doc = 0 /\ imported = FALSE /\ answer = "none" /\ missing = FALSE
    /\ globals = [g \in Names |-> NoValue] /\ values = 0
    /\ sharing = {} /\ owner = NoUser
    /\ pc = [u \in Users |-> "idle"]
    /\ name = [u \in Users |-> <<>>]
    /\ seen = [u \in Users |-> <<>>]
    /\ map = [u \in Users |-> 0]
    /\ moment = [u \in Users |-> globals]
    /\ replaced = [u \in Users |-> {}]

At(places) == {u \in Users : pc[u] \in places}
Renders == {"rendering", "importing"}
OnTemplate == At({"parsing", "checked", "converting", "reading"} \cup Renders)
\* A user may begin a call on the template that only reads it, or one that loads it.
MayUse(u) == pc[u] = "idle" /\ (serial \/ Current > 0) /\ (serial => OnTemplate = {})
             /\ \A v \in Users : pc[v] # "parsing"
MayLoad(u) == pc[u] = "idle" /\ OnTemplate = {} /\ (serial \/ Current = 0) /\ Current < MaxLoads

Goto(u, place) == pc' = [pc EXCEPT ![u] = place]
-----------------------------------------------------------------------------
(* Load. *)

\* The source is replaced, and the text that the old renderer shows is gone.
Load(u) ==
    /\ MayLoad(u)
    /\ \E parses \in BOOLEAN, meta \in MetaKinds :
          loads' = Append(loads, [parses |-> parses, meta |-> meta])
    /\ source' = Current + 1
    /\ Goto(u, "parsing")
    /\ UNCHANGED <<serial, env, renderer, metaInfo, doc, imported, answer, missing, lock, local>>

\* Mutant of Parsed: the renderer is replaced, the metadata is not.
ForgetMetadata(u) ==
    /\ pc[u] = "parsing"
    /\ answer' = "success" /\ renderer' = source /\ imported' = FALSE
    /\ missing' = FALSE
    /\ Goto(u, "idle")
    /\ UNCHANGED <<serial, env, loads, source, metaInfo, doc, lock, local>>
\* On an error the renderer and the metadata are those of the last text that was parsed.
Parsed(u) ==
    /\ pc[u] = "parsing"
    /\ IF loads[Current].parses
       THEN /\ renderer' = source /\ imported' = FALSE
            /\ metaInfo' = IF loads[Current].meta = "none" THEN 0 ELSE source
            /\ answer' = "success"
       ELSE answer' = "error" /\ UNCHANGED <<renderer, imported, metaInfo>>
    /\ missing' = FALSE
    /\ Goto(u, "idle")
    /\ UNCHANGED <<serial, env, loads, source, doc, lock, local>>

\* Mutant of LoadMissingFile: the text is cleared before the file is opened.
ClearFirst(u) ==
    /\ MayLoad(u)
    /\ loads' = Append(loads, [parses |-> TRUE, meta |-> "none"])
    /\ source' = Current + 1
    /\ answer' = "success" /\ missing' = TRUE
    /\ UNCHANGED <<serial, env, renderer, metaInfo, doc, imported, lock, pc, local>>
\* LoadFromFile calls Load when it can open the file; else it does nothing and says so
\* to nobody.
LoadMissingFile(u) ==
    /\ MayLoad(u)
    /\ answer' = "success" /\ missing' = TRUE
    /\ UNCHANGED <<serial, env, loads, source, renderer, metaInfo, doc, imported, lock, pc, local>>
-----------------------------------------------------------------------------
(* Render. *)

\* A template that was never parsed cannot be rendered: TemplateNotParsed, no step.
Render(u) ==
    /\ MayUse(u)
    /\ renderer # 0
    /\ Goto(u, IF env THEN "checked" ELSE "rendering")
    /\ seen' = [seen EXCEPT ![u] = [g \in {} |-> NoValue]]
    /\ UNCHANGED <<serial, env, impl, lock, name, map, moment, replaced>>

\* ApplyGlobals takes the lock ...
ApplyGlobals(u) ==
    /\ pc[u] = "checked" /\ owner = NoUser
    /\ sharing' = sharing \cup {u}
    /\ moment' = [moment EXCEPT ![u] = globals]
    /\ replaced' = [replaced EXCEPT ![u] = {}]
    /\ Goto(u, "converting")
    /\ UNCHANGED <<serial, env, impl, globals, values, owner, name, seen, map>>

\* ... converts the values one by one ...
Present == {g \in Names : globals[g] # NoValue}
ConvertGlobal(u) ==
    /\ pc[u] = "converting"
    /\ \E g \in Present \ DOMAIN seen[u] :
          seen' = [seen EXCEPT ![u] = [h \in DOMAIN @ \cup {g} |-> IF h = g THEN globals[g] ELSE @[h]]]
    /\ UNCHANGED <<serial, env, impl, lock, pc, name, map, moment, replaced>>

\* Mutant of EndApply: the lock is let go before the last value.
EndEarly(u) ==
    /\ pc[u] = "converting"
    /\ sharing' = sharing \ {u}
    /\ Goto(u, "rendering")
    /\ UNCHANGED <<serial, env, impl, globals, values, owner, local>>
\* ... and lets the lock go.
EndApply(u) ==
    /\ pc[u] = "converting"
    /\ Present \subseteq DOMAIN seen[u]
    /\ sharing' = sharing \ {u}
    /\ Goto(u, "rendering")
    /\ UNCHANGED <<serial, env, impl, globals, values, owner, local>>

\* The first rendering of an import statement stores what it has loaded, with no lock.
ImportStatement(u) ==
    /\ pc[u] = "rendering" /\ ~imported
    /\ Goto(u, "importing")
    /\ UNCHANGED <<serial, env, impl, lock, local>>

EndImport(u) ==
    /\ pc[u] = "importing"
    /\ imported' = TRUE
    /\ Goto(u, "rendering")
    /\ UNCHANGED <<serial, env, loads, source, renderer, metaInfo, doc, answer, missing, lock, local>>

EndRender(u) ==
    /\ pc[u] = "rendering"
    /\ Goto(u, "idle")
    /\ seen' = [seen EXCEPT ![u] = <<>>]
    /\ moment' = [moment EXCEPT ![u] = [g \in Names |-> NoValue]]
    /\ replaced' = [replaced EXCEPT ![u] = {}]
    /\ UNCHANGED <<serial, env, impl, lock, name, map>>
-----------------------------------------------------------------------------
(* GetMetadata puts a new document into the template, and a map of it into the *)
(* caller's hands unless the text is no JSON.                                  *)

GetMetadata(u) ==
    /\ MayUse(u)
    /\ metaInfo # 0 /\ doc < MaxDocs
    /\ doc' = doc + 1
    /\ Goto(u, "reading")
    /\ UNCHANGED <<serial, env, loads, source, renderer, metaInfo, imported, answer, missing, lock, local>>

EndGetMetadata(u) ==
    /\ pc[u] = "reading"
    /\ map' = [map EXCEPT ![u] = IF loads[metaInfo].meta = "good" THEN doc ELSE @]
    /\ Goto(u, "idle")
    /\ UNCHANGED <<serial, env, impl, lock, name, seen, moment, replaced>>
-----------------------------------------------------------------------------
(* AddGlobal and RemoveGlobal. *)

\* Mutant of ChangeGlobal: a shared lock will do.
ChangeShared(u) ==
    /\ pc[u] = "idle" /\ owner = NoUser
    /\ \E g \in Names, view \in BOOLEAN :
          values < MaxValues /\ name' = [name EXCEPT ![u] = <<g, [id |-> values + 1, view |-> view]>>]
    /\ owner' = u /\ values' = values + 1
    /\ Goto(u, "changing")
    /\ UNCHANGED <<serial, env, impl, globals, sharing, seen, map, moment, replaced>>
ChangeGlobal(u) ==
    /\ pc[u] = "idle" /\ owner = NoUser /\ sharing = {}
    /\ owner' = u
    /\ \/ \E g \in Names, view \in BOOLEAN :
             /\ values < MaxValues /\ values' = values + 1
             /\ name' = [name EXCEPT ![u] = <<g, [id |-> values + 1, view |-> view]>>]
       \/ \E g \in Present : name' = [name EXCEPT ![u] = <<g, NoValue>>] /\ UNCHANGED values
    /\ Goto(u, "changing")
    /\ UNCHANGED <<serial, env, impl, globals, sharing, seen, map, moment, replaced>>

EndChange(u) ==
    /\ pc[u] = "changing"
    /\ globals' = [globals EXCEPT ![name[u][1]] = name[u][2]]
    /\ replaced' = [v \in Users |-> IF pc[v] \in Renders THEN replaced[v] \cup {name[u][1]} ELSE {}]
    /\ owner' = NoUser
    /\ Goto(u, "idle")
    /\ name' = [name EXCEPT ![u] = <<>>]
    /\ UNCHANGED <<serial, env, impl, values, sharing, seen, map, moment>>
-----------------------------------------------------------------------------
Next ==
    \E u \in Users :
        \/ Load(u) \/ Parsed(u) \/ LoadMissingFile(u)
        \/ Render(u) \/ ApplyGlobals(u) \/ ConvertGlobal(u) \/ EndApply(u)
        \/ ImportStatement(u) \/ EndImport(u) \/ EndRender(u)
        \/ GetMetadata(u) \/ EndGetMetadata(u)
        \/ ChangeGlobal(u) \/ EndChange(u)

Spec == Init /\ [][Next]_vars
-----------------------------------------------------------------------------
(* Who reads and who writes what, when calls overlap. *)

Writers == [m_template |-> At({"parsing"}), m_renderer |-> At({"parsing"}),
            m_metadataInfo |-> At({"parsing"}), m_metadataJson |-> At({"reading"}),
            import |-> At({"importing"}), m_globalValues |-> At({"changing"})]
Readers == [m_template |-> At(Renders \cup {"reading"}), m_renderer |-> At(Renders),
            m_metadataInfo |-> At({"reading"}),
            m_metadataJson |-> {u \in Users : map[u] # 0},
            import |-> At(Renders), m_globalValues |-> At({"converting"})]
Conflict(field) ==
    \E w \in Writers[field] : (Writers[field] \cup Readers[field]) \ {w} # {}

\* The values in the map of globals: a rendering goes on reading those it has a view of
\* when ApplyGlobals has let the lock go.
ValueWriters(g) == {u \in At({"changing"}) : name[u][1] = g}
ValueReaders(g) == {u \in At({"converting"} \cup Renders) : g \in DOMAIN seen[u] /\ seen[u][g].view}

\* The values of globals that a rendering uses and that are not there any more.
Dangling(u) ==
    {g \in DOMAIN seen[u] : seen[u][g].view /\ seen[u][g] # globals[g]}
-----------------------------------------------------------------------------
(* Properties. *)

\* What a rendering or GetMetadata reads of the template is in memory, and is the text last
\* given to Load; unless that text could not be parsed, for Load has then replaced the text
\* under the renderer and the metadata it keeps.
TextIsAlive ==
    \A u \in Users :
        /\ pc[u] \in Renders => renderer = source \/ ~loads[source].parses
        /\ pc[u] = "reading" => metaInfo = source \/ ~loads[source].parses

\* When Load has said that all is well, the template is the one that was given to it, with its
\* metadata; except after LoadFromFile of a file that is not there.
SuccessMeansLoaded ==
    answer = "success" /\ ~missing /\ At({"parsing"}) = {} =>
        /\ renderer = Current /\ loads[Current].parses
        /\ metaInfo = IF loads[Current].meta = "none" THEN 0 ELSE Current

\* Calls that overlap disturb each other in three places only: the metadata, which each
\* GetMetadata writes; import statements, which the first rendering writes; and the values
\* of globals (GlobalsAreSafe).  What Load writes is not read or written meanwhile, nor is
\* the map of globals.  When calls on the template follow each other, import statements
\* are not disturbed either, and the metadata has one writer, but maps from earlier calls.
RacesAreKnown ==
    /\ \A field \in DOMAIN Writers \ {"m_metadataJson", "import"} : ~Conflict(field)
    /\ serial => /\ ~Conflict("import")
                 /\ \A u, v \in Writers.m_metadataJson : u = v

\* AddGlobal and RemoveGlobal do not write a value that a rendering reads: "Method is
\* thread-safe" (src/include/jinja2cpp/template_env.h:179 and 193).
GlobalsAreSafe == \A g \in Names : ValueWriters(g) = {} \/ ValueReaders(g) = {}

\* The globals a rendering sees are those of one moment, however many threads change them
\* meanwhile; and a value it has no copy of is gone only if it has been added again or
\* removed during the rendering.
GlobalsOfOneMoment ==
    \A u \in Users : env /\ pc[u] \in {"converting"} \cup Renders =>
        /\ \A g \in DOMAIN seen[u] : seen[u][g] = moment[u][g]
        /\ pc[u] # "converting" => DOMAIN seen[u] = {g \in Names : moment[u][g] # NoValue}
        /\ Dangling(u) \subseteq replaced[u]
=============================================================================

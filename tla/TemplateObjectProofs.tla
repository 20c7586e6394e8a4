------------------------- MODULE TemplateObjectProofs -------------------------
(* What holds of a TemplateImpl for any number of threads, names and calls.    *)
(*                                                                             *)
(* The argument is mutual exclusion twice.  A call of Load is alone on the     *)
(* template, and so is every call where they follow each other: this is what   *)
(* the callers owe (MayUse, MayLoad).  AddGlobal and RemoveGlobal exclude      *)
(* ApplyGlobals, which is what m_guard gives.  On the first rests what         *)
(* renderers point to, on the second what a rendering sees of the globals.     *)
EXTENDS TemplateObject, SequenceTheorems, TLAPS

Loads == [parses : BOOLEAN, meta : MetaKinds]
Places == {"idle", "parsing", "checked", "converting", "rendering", "importing", "reading",
           "changing"}
NoneParses == \A u \in Users : pc[u] # "parsing"
\* Where a user is between the beginning and the end of a call on the template.
Using == {"parsing", "checked", "converting", "reading", "rendering", "importing"}

ObjectTypeOK ==
    /\ serial \in BOOLEAN /\ env \in BOOLEAN
    /\ loads \in Seq(Loads)
    /\ source \in Nat /\ renderer \in Nat /\ metaInfo \in Nat
    /\ globals \in [Names -> GlobalValues] /\ values \in 0 .. MaxValues
    /\ sharing \subseteq Users /\ owner \in Users \cup {NoUser}
    /\ pc \in [Users -> Places]
    /\ DOMAIN name = Users /\ DOMAIN seen = Users /\ DOMAIN moment = Users
    /\ DOMAIN replaced = Users /\ DOMAIN map = Users

\* A call of Load is the only one on the template, and so is any call on a template whose
\* calls follow each other.
LoadsAlone ==
    \A u, v \in Users :
        (serial \/ pc[u] = "parsing") /\ pc[u] \in Using /\ pc[v] \in Using => u = v

\* m_guard: a change is made by its owner, who shares it with nobody.
Guarded ==
    /\ \A u \in Users : pc[u] = "changing" <=> owner = u
    /\ \A u \in Users : pc[u] = "converting" <=> u \in sharing
    /\ owner # NoUser => sharing = {}
    /\ \A u \in Users : pc[u] = "changing" => name[u][1] \in Names /\ name[u][2] \in GlobalValues

\* The renderer and the metadata are of the source, unless it could not be parsed.
Loaded ==
    /\ source = Current
    /\ ~NoneParses => Current > 0
    /\ NoneParses /\ Current = 0 => renderer = 0 /\ metaInfo = 0
    /\ NoneParses /\ Current > 0 /\ loads[Current].parses =>
          /\ renderer = Current
          /\ metaInfo = IF loads[Current].meta = "none" THEN 0 ELSE Current
    /\ NoneParses /\ answer = "success" /\ ~missing => Current > 0 /\ loads[Current].parses
    /\ \A u \in Users : pc[u] = "reading" => metaInfo # 0
    /\ \A u \in Users : pc[u] \in {"checked", "converting"} \cup Renders => renderer # 0

\* What a rendering has copied of the globals, and what it has missed since.
SeenBy(u) ==
    /\ pc[u] = "checked" => DOMAIN seen[u] = {}
    /\ pc[u] = "converting" => moment[u] = globals /\ DOMAIN seen[u] \subseteq Present
    /\ pc[u] \in Renders =>
          /\ DOMAIN seen[u] = {g \in Names : moment[u][g] # NoValue}
          /\ \A g \in Names : moment[u][g] # globals[g] => g \in replaced[u]
    /\ pc[u] \in {"converting"} \cup Renders =>
          \A g \in DOMAIN seen[u] : seen[u][g] = moment[u][g]
Seen == env => \A u \in Users : SeenBy(u)

\* Inductive.
ObjectInv == ObjectTypeOK /\ LoadsAlone /\ Guarded /\ Loaded /\ Seen
-----------------------------------------------------------------------------
(* Each part of the invariant is kept by each step of a user. *)

Step(u) ==
    \/ Load(u) \/ Parsed(u) \/ LoadMissingFile(u)
    \/ Render(u) \/ ApplyGlobals(u) \/ ConvertGlobal(u) \/ EndApply(u)
    \/ ImportStatement(u) \/ EndImport(u) \/ EndRender(u)
    \/ GetMetadata(u) \/ EndGetMetadata(u)
    \/ ChangeGlobal(u) \/ EndChange(u)

\* A user goes to a place; the others stay.
LEMMA GotoFacts ==
    ASSUME ObjectTypeOK, NEW u \in Users, NEW place \in Places, Goto(u, place)
    PROVE  /\ pc' \in [Users -> Places]
           /\ pc'[u] = place
           /\ \A v \in Users : v # u => pc'[v] = pc[v]
BY DEF ObjectTypeOK, Goto

\* The texts given to Load are kept.
LEMMA LoadFacts ==
    ASSUME ObjectTypeOK, NEW t \in Loads, loads' = Append(loads, t)
    PROVE  /\ loads' \in Seq(Loads)
           /\ Len(loads) \in Nat /\ Len(loads') = Len(loads) + 1
BY AppendProperties, LenProperties DEF ObjectTypeOK

\* Every step keeps the types.
LEMMA TypeKept ==
    ASSUME ObjectInv, NEW u \in Users, Step(u)
    PROVE  ObjectTypeOK'
<1>1. ObjectTypeOK /\ Guarded /\ Loaded
  BY DEF ObjectInv
<1>2. CASE Load(u)
  <2>1. PICK t \in Loads : loads' = Append(loads, t)
    BY <1>2 DEF Load, Loads
  <2>2. loads' \in Seq(Loads) /\ source' \in Nat
    BY <1>1, <1>2, <2>1, LoadFacts DEF Load, Current
  <2> QED BY <1>1, <1>2, <2>2, GotoFacts DEF Load, ObjectTypeOK, lock, local, Places
<1>3. CASE Parsed(u)
  <2>1. renderer' \in Nat /\ metaInfo' \in Nat
    BY <1>1, <1>3 DEF Parsed, ObjectTypeOK
  <2> QED BY <1>1, <1>3, <2>1, GotoFacts DEF Parsed, ObjectTypeOK, lock, local, Places
<1>4. CASE LoadMissingFile(u)
  BY <1>1, <1>4 DEF LoadMissingFile, ObjectTypeOK, lock, local
<1>5. CASE Render(u)
  <2>1. pc' \in [Users -> Places]
    BY <1>1, <1>5, GotoFacts DEF Render, Places
  <2> QED BY <1>1, <1>5, <2>1 DEF Render, ObjectTypeOK, impl, lock
<1>6. CASE ApplyGlobals(u)
  BY <1>1, <1>6, GotoFacts DEF ApplyGlobals, ObjectTypeOK, impl, Places
<1>7. CASE ConvertGlobal(u)
  BY <1>1, <1>7 DEF ConvertGlobal, ObjectTypeOK, impl, lock
<1>8. CASE EndApply(u)
  BY <1>1, <1>8, GotoFacts DEF EndApply, ObjectTypeOK, impl, local, Places
<1>9. CASE ImportStatement(u)
  BY <1>1, <1>9, GotoFacts DEF ImportStatement, ObjectTypeOK, impl, lock, local, Places
<1>10. CASE EndImport(u)
  BY <1>1, <1>10, GotoFacts DEF EndImport, ObjectTypeOK, lock, local, Places
<1>11. CASE EndRender(u)
  BY <1>1, <1>11, GotoFacts DEF EndRender, ObjectTypeOK, impl, lock, Places
<1>12. CASE GetMetadata(u)
  BY <1>1, <1>12, GotoFacts DEF GetMetadata, ObjectTypeOK, lock, local, Places
<1>13. CASE EndGetMetadata(u)
  BY <1>1, <1>13, GotoFacts DEF EndGetMetadata, ObjectTypeOK, impl, lock, Places
<1>14. CASE ChangeGlobal(u)
  <2>1. values' \in 0 .. MaxValues /\ DOMAIN name' = Users
    BY <1>1, <1>14, ObjectAssumption DEF ChangeGlobal, ObjectTypeOK
  <2> QED BY <1>1, <1>14, <2>1, GotoFacts DEF ChangeGlobal, ObjectTypeOK, impl, Places
<1>15. CASE EndChange(u)
  <2>1. globals' \in [Names -> GlobalValues]
    BY <1>1, <1>15 DEF EndChange, ObjectTypeOK, Guarded
  <2> QED BY <1>1, <1>15, <2>1, GotoFacts DEF EndChange, ObjectTypeOK, impl, Places
<1> QED BY <1>2, <1>3, <1>4, <1>5, <1>6, <1>7, <1>8, <1>9, <1>10, <1>11, <1>12, <1>13,
           <1>14, <1>15 DEF Step

\* A step begins a call on the template only where no Load is running, and no call at all
\* where they follow each other; and Load only where no call is.
LEMMA AloneKept ==
    ASSUME ObjectInv, NEW u \in Users, Step(u)
    PROVE  LoadsAlone'
<1> USE DEF Using, Places, OnTemplate, At, Renders
<1>1. ObjectTypeOK /\ LoadsAlone
  BY DEF ObjectInv
<1>2. UNCHANGED serial
  BY DEF Step, Load, Parsed, LoadMissingFile, Render, ApplyGlobals, ConvertGlobal, EndApply,
         ImportStatement, EndImport, EndRender, GetMetadata, EndGetMetadata, ChangeGlobal,
         EndChange
<1>3. CASE Load(u)
  <2>1. Goto(u, "parsing") /\ \A v \in Users : pc[v] \notin Using
    BY <1>3 DEF Load, MayLoad
  <2> QED BY <1>1, <2>1, GotoFacts DEF LoadsAlone
<1>4. CASE Parsed(u) \/ EndRender(u) \/ EndGetMetadata(u) \/ EndChange(u)
  <2>1. Goto(u, "idle")
    BY <1>4 DEF Parsed, EndRender, EndGetMetadata, EndChange
  <2> QED BY <1>1, <1>2, <2>1, GotoFacts DEF LoadsAlone
<1>5. CASE LoadMissingFile(u) \/ ConvertGlobal(u)
  BY <1>1, <1>2, <1>5 DEF LoadMissingFile, ConvertGlobal, LoadsAlone
<1>6. CASE Render(u) \/ GetMetadata(u)
  <2>1. PICK place \in Places : Goto(u, place) /\ place # "parsing"
    BY <1>6 DEF Render, GetMetadata
  <2>2. /\ \A v \in Users : pc[v] # "parsing"
        /\ serial => \A v \in Users : pc[v] \notin Using
    BY <1>6 DEF Render, GetMetadata, MayUse
  <2> QED BY <1>1, <1>2, <2>1, <2>2, GotoFacts DEF LoadsAlone
<1>7. CASE ApplyGlobals(u) \/ EndApply(u) \/ ImportStatement(u) \/ EndImport(u)
  <2>1. PICK place \in Places : Goto(u, place) /\ place # "parsing"
    BY <1>7 DEF ApplyGlobals, EndApply, ImportStatement, EndImport
  <2>2. pc[u] \in Using
    BY <1>7 DEF ApplyGlobals, EndApply, ImportStatement, EndImport
  <2> QED BY <1>1, <1>2, <2>1, <2>2, GotoFacts DEF LoadsAlone
<1>8. CASE ChangeGlobal(u)
  <2>1. Goto(u, "changing")
    BY <1>8 DEF ChangeGlobal
  <2> QED BY <1>1, <1>2, <2>1, GotoFacts DEF LoadsAlone
<1> QED BY <1>3, <1>4, <1>5, <1>6, <1>7, <1>8 DEF Step

\* m_guard is taken shared by ApplyGlobals only, uniquely by a change only, and let go by
\* whoever has it.
LEMMA GuardKept ==
    ASSUME ObjectInv, NEW u \in Users, Step(u)
    PROVE  Guarded'
<1> USE ObjectAssumption
<1>1. ObjectTypeOK /\ Guarded
  BY DEF ObjectInv
<1>2. ASSUME NEW place \in Places \ {"converting", "changing"}, Goto(u, place),
             pc[u] \notin {"converting", "changing"}, UNCHANGED <<name, sharing, owner>>
      PROVE  Guarded'
  BY <1>1, <1>2, GotoFacts DEF Guarded
<1>3. CASE Load(u) \/ Parsed(u) \/ Render(u) \/ ImportStatement(u) \/ EndImport(u)
           \/ EndRender(u) \/ GetMetadata(u) \/ EndGetMetadata(u)
  <2>1. PICK place \in Places \ {"converting", "changing"} :
           Goto(u, place) /\ UNCHANGED <<name, sharing, owner>>
    BY <1>3 DEF Load, Parsed, Render, ImportStatement, EndImport, EndRender, GetMetadata,
                EndGetMetadata, lock, local, Places
  <2>2. pc[u] \notin {"converting", "changing"}
    BY <1>3 DEF Load, Parsed, Render, ImportStatement, EndImport, EndRender, GetMetadata,
                EndGetMetadata, MayLoad, MayUse
  <2> QED BY <1>2, <2>1, <2>2
<1>4. CASE LoadMissingFile(u) \/ ConvertGlobal(u)
  BY <1>1, <1>4 DEF LoadMissingFile, ConvertGlobal, Guarded, lock, local
<1>5. CASE ApplyGlobals(u)
  BY <1>1, <1>5, GotoFacts DEF ApplyGlobals, Guarded, Places
<1>6. CASE EndApply(u)
  BY <1>1, <1>6, GotoFacts DEF EndApply, Guarded, Places, local
<1>7. CASE ChangeGlobal(u)
  <2>1. name'[u][1] \in Names /\ name'[u][2] \in GlobalValues
    BY <1>1, <1>7 DEF ChangeGlobal, ObjectTypeOK, GlobalValues, Present
  <2>2. \A v \in Users : pc[v] # "changing" /\ v \notin sharing
    BY <1>1, <1>7 DEF ChangeGlobal, Guarded
  <2>3. owner' = u /\ sharing' = {} /\ Goto(u, "changing")
    BY <1>7 DEF ChangeGlobal
  <2> QED BY <1>1, <2>1, <2>2, <2>3, GotoFacts DEF Guarded, Places
<1>8. CASE EndChange(u)
  <2>1. owner = u /\ owner' = NoUser /\ Goto(u, "idle") /\ UNCHANGED sharing
        /\ u # NoUser
    BY <1>1, <1>8 DEF EndChange, Guarded
  <2>2. \A v \in Users : pc'[v] # "changing"
    BY <1>1, <2>1, GotoFacts DEF Guarded, Places
  <2> QED BY <1>1, <1>8, <2>1, <2>2, GotoFacts DEF EndChange, Guarded, Places
<1> QED BY <1>3, <1>4, <1>5, <1>6, <1>7, <1>8 DEF Step

\* Only Load changes the text, and only where nobody uses the template; Parsed brings the
\* renderer and the metadata up to it, unless it could not be parsed.
LEMMA LoadedKept ==
    ASSUME ObjectInv, NEW u \in Users, Step(u)
    PROVE  Loaded'
<1>1. ObjectTypeOK /\ LoadsAlone /\ Loaded /\ Len(loads) \in Nat
  BY LenProperties DEF ObjectInv, ObjectTypeOK
<1>2. CASE Load(u)
  <2>1. PICK t \in Loads : loads' = Append(loads, t)
    BY <1>2 DEF Load, Loads
  <2>2. Current' = Current + 1 /\ source' = Current'
    BY <1>1, <1>2, <2>1, LoadFacts DEF Load, Current
  <2>3. \A v \in Users : pc[v] \notin Using
    BY <1>2 DEF Load, MayLoad, OnTemplate, At, Using, Renders
  <2>4. /\ pc'[u] = "parsing"
        /\ \A v \in Users : v # u => pc'[v] \notin Using
    BY <1>1, <1>2, <2>3, GotoFacts DEF Load, Places
  <2>5. ~NoneParses' /\ Current' > 0
    BY <1>1, <2>2, <2>4 DEF NoneParses, Current
  <2>6. \A v \in Users : pc'[v] \notin {"reading", "checked", "converting"} \cup Renders
    BY <2>4 DEF Using, Renders
  <2> QED BY <2>2, <2>5, <2>6 DEF Loaded
<1>3. CASE Parsed(u)
  <2>1. \A v \in Users : v # u => pc[v] \notin Using
    <3>1. pc[u] = "parsing" /\ pc[u] \in Using
      BY <1>3 DEF Parsed, Using
    <3> QED BY <1>1, <3>1 DEF LoadsAlone
  <2>2. \A v \in Users : pc'[v] \notin Using
    BY <1>1, <1>3, <2>1, GotoFacts DEF Parsed, Places, Using
  <2>3. source = Current /\ Current > 0 /\ UNCHANGED <<loads, source>>
    BY <1>1, <1>3 DEF Parsed, Loaded, NoneParses
  <2>4. IF loads[Current].parses
        THEN /\ renderer' = source
             /\ metaInfo' = IF loads[Current].meta = "none" THEN 0 ELSE source
             /\ answer' = "success"
        ELSE answer' = "error"
    BY <1>3 DEF Parsed
  <2>5. Current' = Current /\ Current \in Nat
    BY <1>1, <2>3 DEF Current
  <2>6. \A v \in Users : pc'[v] \notin {"reading", "checked", "converting"} \cup Renders
    BY <2>2 DEF Using, Renders
  <2> QED BY <2>3, <2>4, <2>5, <2>6 DEF Loaded
<1>4. CASE LoadMissingFile(u)
  BY <1>1, <1>4 DEF LoadMissingFile, Loaded, NoneParses, Current
<1>5. ASSUME UNCHANGED <<loads, source, renderer, metaInfo, answer, missing>>,
             NEW place \in Places \ {"parsing"}, Goto(u, place), pc[u] # "parsing",
             place = "reading" => metaInfo # 0,
             place \in {"checked", "converting"} \cup Renders => renderer # 0
      PROVE  Loaded'
  <2>1. NoneParses' <=> NoneParses
    BY <1>1, <1>5, GotoFacts DEF NoneParses
  <2>2. \A v \in Users : pc'[v] = "reading" => metaInfo # 0
    BY <1>1, <1>5, GotoFacts DEF Loaded
  <2>3. \A v \in Users : pc'[v] \in {"checked", "converting"} \cup Renders => renderer # 0
    BY <1>1, <1>5, GotoFacts DEF Loaded
  <2> QED BY <1>1, <1>5, <2>1, <2>2, <2>3 DEF Loaded, Current
<1>6. CASE Render(u) \/ GetMetadata(u)
  <2>1. PICK place \in Places \ {"parsing"} :
           /\ Goto(u, place) /\ UNCHANGED <<loads, source, renderer, metaInfo, answer, missing>>
           /\ place = "reading" => metaInfo # 0
           /\ place # "reading" => renderer # 0
    BY <1>6 DEF Render, GetMetadata, Places, impl
  <2>2. pc[u] # "parsing"
    BY <1>6 DEF Render, GetMetadata, MayUse
  <2> QED BY <1>5, <2>1, <2>2 DEF Renders
<1>7. CASE ApplyGlobals(u) \/ EndApply(u) \/ ImportStatement(u) \/ EndImport(u)
  <2>1. PICK place \in Places \ {"parsing", "reading"} :
           /\ Goto(u, place) /\ UNCHANGED <<loads, source, renderer, metaInfo, answer, missing>>
    BY <1>7 DEF ApplyGlobals, EndApply, ImportStatement, EndImport, Places, impl
  <2>2. pc[u] # "parsing" /\ pc[u] \in {"checked", "converting"} \cup Renders
    BY <1>7 DEF ApplyGlobals, EndApply, ImportStatement, EndImport, Renders
  <2>3. renderer # 0
    BY <1>1, <2>2 DEF Loaded
  <2> QED BY <1>5, <2>1, <2>2, <2>3
<1>8. CASE EndRender(u) \/ EndGetMetadata(u) \/ ChangeGlobal(u) \/ EndChange(u)
  <2>1. PICK place \in {"idle", "changing"} :
           /\ Goto(u, place) /\ UNCHANGED <<loads, source, renderer, metaInfo, answer, missing>>
    BY <1>8 DEF EndRender, EndGetMetadata, ChangeGlobal, EndChange, impl
  <2>2. pc[u] # "parsing"
    BY <1>8 DEF EndRender, EndGetMetadata, ChangeGlobal, EndChange
  <2> QED BY <1>5, <2>1, <2>2 DEF Places, Renders
<1>9. CASE ConvertGlobal(u)
  BY <1>1, <1>9 DEF ConvertGlobal, Loaded, NoneParses, Current, impl
<1> QED BY <1>2, <1>3, <1>4, <1>6, <1>7, <1>8, <1>9 DEF Step

\* The globals change only where no rendering converts them, and every rendering that is
\* past that notes the change.
LEMMA SeenKept ==
    ASSUME ObjectInv, NEW u \in Users, Step(u)
    PROVE  Seen'
<1> SUFFICES ASSUME env, env'
             PROVE  Seen'
  BY DEF Step, Load, Parsed, LoadMissingFile, Render, ApplyGlobals, ConvertGlobal, EndApply,
         ImportStatement, EndImport, EndRender, GetMetadata, EndGetMetadata, ChangeGlobal,
         EndChange, Seen
<1>1. ObjectTypeOK /\ Guarded /\ Seen
  BY DEF ObjectInv
<1>2. \* The user that acts has what it should, and nothing of the others changes.
       ASSUME UNCHANGED globals, NEW place \in Places, Goto(u, place), SeenBy(u)',
              \A v \in Users : v # u => /\ seen'[v] = seen[v] /\ moment'[v] = moment[v]
                                        /\ replaced'[v] = replaced[v]
       PROVE  Seen'
  <2>1. ASSUME NEW v \in Users, v # u
        PROVE  SeenBy(v)'
    <3>1. pc'[v] = pc[v] /\ Present' = Present
      BY <1>1, <1>2, <2>1, GotoFacts DEF Present
    <3> QED BY <1>1, <1>2, <2>1, <3>1 DEF Seen, SeenBy
  <2> QED BY <1>2, <2>1 DEF Seen
<1>3. \* A user that has no globals in its hands, or goes on rendering.
      ASSUME UNCHANGED globals, NEW place \in Places, Goto(u, place),
             \/ place \notin {"checked", "converting"} \cup Renders
             \/ place \in Renders /\ pc[u] \in Renders /\ UNCHANGED <<seen, moment, replaced>>,
             \A v \in Users : v # u => /\ seen'[v] = seen[v] /\ moment'[v] = moment[v]
                                       /\ replaced'[v] = replaced[v]
      PROVE  Seen'
  <2>1. SeenBy(u)'
    BY <1>1, <1>3, GotoFacts DEF Seen, SeenBy, Renders
  <2> QED BY <1>3, <1>2, <2>1
<1>4. CASE Load(u) \/ Parsed(u) \/ GetMetadata(u) \/ EndGetMetadata(u) \/ ChangeGlobal(u)
  <2>1. PICK place \in Places \ ({"checked", "converting"} \cup Renders) :
           Goto(u, place) /\ UNCHANGED <<globals, seen, moment, replaced>>
    BY <1>4 DEF Load, Parsed, GetMetadata, EndGetMetadata, ChangeGlobal, Places, Renders,
                lock, local
  <2> QED BY <1>3, <2>1
<1>5. CASE LoadMissingFile(u)
  BY <1>1, <1>5 DEF LoadMissingFile, Seen, SeenBy, Present, lock, local
<1>6. CASE ImportStatement(u) \/ EndImport(u)
  <2>1. PICK place \in Renders :
           Goto(u, place) /\ UNCHANGED <<globals, seen, moment, replaced>> /\ pc[u] \in Renders
    BY <1>6 DEF ImportStatement, EndImport, Renders, lock, local
  <2> QED BY <1>3, <2>1 DEF Places, Renders
<1>7. CASE Render(u)
  <2>1. /\ Goto(u, "checked") /\ UNCHANGED <<globals, moment, replaced>>
        /\ DOMAIN seen'[u] = {}
        /\ \A v \in Users : v # u => seen'[v] = seen[v]
    BY <1>1, <1>7 DEF Render, lock, ObjectTypeOK
  <2>2. SeenBy(u)'
    BY <1>1, <2>1, GotoFacts DEF SeenBy, Places, Renders
  <2> QED BY <1>2, <2>1, <2>2 DEF Places
<1>8. CASE EndRender(u)
  <2>1. Goto(u, "idle") /\ UNCHANGED globals
        /\ \A v \in Users : v # u => /\ seen'[v] = seen[v] /\ moment'[v] = moment[v]
                                     /\ replaced'[v] = replaced[v]
    BY <1>1, <1>8 DEF EndRender, lock, ObjectTypeOK
  <2> QED BY <1>3, <2>1 DEF Places, Renders
<1>9. CASE ApplyGlobals(u)
  <2>1. /\ Goto(u, "converting") /\ UNCHANGED <<globals, seen>> /\ pc[u] = "checked"
        /\ moment'[u] = globals
        /\ \A v \in Users : v # u => moment'[v] = moment[v] /\ replaced'[v] = replaced[v]
    BY <1>1, <1>9 DEF ApplyGlobals, ObjectTypeOK
  <2>2. DOMAIN seen'[u] = {}
    BY <1>1, <2>1 DEF Seen, SeenBy
  <2>3. SeenBy(u)'
    BY <1>1, <2>1, <2>2, GotoFacts DEF SeenBy, Places, Renders
  <2> QED BY <1>2, <2>1, <2>3 DEF Places
<1>10. CASE ConvertGlobal(u)
  <2>1. PICK g \in Present \ DOMAIN seen[u] :
           seen' = [seen EXCEPT ![u] = [h \in DOMAIN @ \cup {g} |->
                                           IF h = g THEN globals[g] ELSE @[h]]]
    BY <1>10 DEF ConvertGlobal
  <2>2. /\ DOMAIN seen'[u] = DOMAIN seen[u] \cup {g}
        /\ \A h \in DOMAIN seen'[u] :
              seen'[u][h] = IF h = g THEN globals[g] ELSE seen[u][h]
        /\ \A v \in Users : v # u => seen'[v] = seen[v]
    BY <1>1, <2>1 DEF ObjectTypeOK
  <2>3. pc[u] = "converting" /\ UNCHANGED <<pc, globals, moment, replaced>>
    BY <1>10 DEF ConvertGlobal, lock
  <2>4. /\ moment[u] = globals /\ DOMAIN seen[u] \subseteq Present
        /\ \A h \in DOMAIN seen[u] : seen[u][h] = moment[u][h]
    BY <1>1, <2>3 DEF Seen, SeenBy
  <2>5. SeenBy(u)'
    BY <2>2, <2>3, <2>4 DEF SeenBy, Present, Renders
  <2>6. ASSUME NEW v \in Users, v # u
        PROVE  SeenBy(v)'
    BY <1>1, <2>2, <2>3, <2>6 DEF Seen, SeenBy, Present
  <2> QED BY <2>5, <2>6 DEF Seen
<1>11. CASE EndApply(u)
  <2>1. /\ Goto(u, "rendering") /\ UNCHANGED <<globals, seen, moment, replaced>>
        /\ pc[u] = "converting" /\ Present \subseteq DOMAIN seen[u]
    BY <1>11 DEF EndApply, local
  <2>2. /\ moment[u] = globals /\ DOMAIN seen[u] \subseteq Present
        /\ \A h \in DOMAIN seen[u] : seen[u][h] = moment[u][h]
    BY <1>1, <2>1 DEF Seen, SeenBy
  <2>3. DOMAIN seen[u] = {g \in Names : moment[u][g] # NoValue}
    BY <2>1, <2>2 DEF Present
  <2>4. SeenBy(u)'
    BY <1>1, <2>1, <2>2, <2>3, GotoFacts DEF SeenBy, Places, Renders
  <2> QED BY <1>2, <2>1, <2>4 DEF Places
<1>12. CASE EndChange(u)
  <2>1. /\ Goto(u, "idle") /\ UNCHANGED <<seen, moment>>
        /\ globals' = [globals EXCEPT ![name[u][1]] = name[u][2]]
        /\ \A v \in Users : pc[v] \in Renders => replaced'[v] = replaced[v] \cup {name[u][1]}
    BY <1>12 DEF EndChange
  <2>2. \A v \in Users : pc[v] # "converting"
    BY <1>1, <1>12, ObjectAssumption DEF EndChange, Guarded
  <2>3. ASSUME NEW v \in Users
        PROVE  SeenBy(v)'
    <3>1. CASE v = u
      BY <1>1, <2>1, <3>1, GotoFacts DEF SeenBy, Places, Renders
    <3>2. CASE v # u
      <4>1. pc'[v] = pc[v]
        BY <1>1, <2>1, <3>2, GotoFacts DEF Places
      <4>2. CASE pc[v] \in Renders
        <5>1. /\ DOMAIN seen[v] = {g \in Names : moment[v][g] # NoValue}
              /\ \A g \in Names : moment[v][g] # globals[g] => g \in replaced[v]
              /\ \A g \in DOMAIN seen[v] : seen[v][g] = moment[v][g]
          BY <1>1, <4>2 DEF Seen, SeenBy
        <5>2. \A g \in Names : g # name[u][1] => globals'[g] = globals[g]
          BY <1>1, <2>1 DEF ObjectTypeOK
        <5>3. \A g \in Names : moment[v][g] # globals'[g] => g \in replaced'[v]
          BY <2>1, <4>2, <5>1, <5>2
        <5> QED BY <2>1, <4>1, <4>2, <5>1, <5>3 DEF SeenBy, Renders
      <4>3. CASE pc[v] \notin Renders
        BY <1>1, <2>1, <2>2, <4>1, <4>3 DEF Seen, SeenBy
      <4> QED BY <4>2, <4>3
    <3> QED BY <3>1, <3>2
  <2> QED BY <2>3 DEF Seen
<1> QED BY <1>4, <1>5, <1>6, <1>7, <1>8, <1>9, <1>10, <1>11, <1>12 DEF Step

\* What Init makes is as it should be.
LEMMA InitObject ==
    ASSUME Init
    PROVE  ObjectInv
<1> USE ObjectAssumption
<1>1. ObjectTypeOK
  BY DEF Init, ObjectTypeOK, Places, GlobalValues
<1>2. LoadsAlone
  BY DEF Init, LoadsAlone, Using
<1>3. Guarded /\ Seen
  BY DEF Init, Guarded, Seen, SeenBy, Renders
<1>4. Loaded
  BY DEF Init, Loaded, NoneParses, Current, Renders
<1> QED BY <1>1, <1>2, <1>3, <1>4 DEF ObjectInv

\* The invariant is inductive, for any number of users.
THEOREM ObjectInvariant == Spec => []ObjectInv
<1>1. Init => ObjectInv
  BY InitObject
<1>2. ObjectInv /\ [Next]_vars => ObjectInv'
  <2>1. ASSUME ObjectInv, UNCHANGED vars
        PROVE  ObjectInv'
    <3>1. UNCHANGED <<serial, env, loads, source, renderer, metaInfo, answer, missing, globals,
                      values, sharing, owner, pc, name, seen, map, moment, replaced>>
      BY <2>1 DEF vars, impl, lock, local
    <3> QED BY <2>1, <3>1 DEF ObjectInv, ObjectTypeOK, LoadsAlone, Guarded, Loaded, Seen,
                              SeenBy, NoneParses, Present, Current
  <2>2. ASSUME ObjectInv, Next
        PROVE  ObjectInv'
    BY <2>2, TypeKept, AloneKept, GuardKept, LoadedKept, SeenKept DEF Next, Step, ObjectInv
  <2> QED BY <2>1, <2>2
<1> QED BY <1>1, <1>2, PTL DEF Spec

\* What a rendering or GetMetadata reads is in memory: Load replaces the text under the
\* renderer only where nobody renders, and then the renderer.
THEOREM TextStaysAlive == Spec => []TextIsAlive
<1>1. ASSUME ObjectInv
      PROVE  TextIsAlive
  <2>1. LoadsAlone /\ Loaded /\ Len(loads) \in Nat
    BY <1>1, LenProperties DEF ObjectInv, ObjectTypeOK
  <2> SUFFICES ASSUME NEW u \in Users, pc[u] \in Renders \cup {"reading"}
               PROVE  /\ pc[u] \in Renders => renderer = source \/ ~loads[source].parses
                      /\ pc[u] = "reading" => metaInfo = source \/ ~loads[source].parses
    BY DEF TextIsAlive
  <2>2. NoneParses
    BY <2>1 DEF LoadsAlone, NoneParses, Using, Renders
  <2>3. source = Current /\ Current \in Nat
    BY <2>1 DEF Loaded, Current
  <2>4. pc[u] \in Renders => renderer # 0
    BY <2>1 DEF Loaded
  <2>5. pc[u] = "reading" => metaInfo # 0
    BY <2>1 DEF Loaded
  <2>6. Current > 0
    BY <2>1, <2>2, <2>3, <2>4, <2>5 DEF Loaded, Renders
  <2> QED BY <2>1, <2>2, <2>3, <2>5, <2>6 DEF Loaded
<1> QED BY <1>1, ObjectInvariant, PTL

\* After Load has said that all is well the renderer and the metadata are of its text.
THEOREM SuccessIsLoaded == Spec => []SuccessMeansLoaded
<1>1. ASSUME ObjectInv
      PROVE  SuccessMeansLoaded
  <2>1. At({"parsing"}) = {} => NoneParses
    BY DEF At, NoneParses
  <2> QED BY <1>1, <2>1 DEF ObjectInv, Loaded, SuccessMeansLoaded
<1> QED BY <1>1, ObjectInvariant, PTL

\* Of the members of the template and the map of globals, calls that overlap conflict on the
\* metadata and on import statements only, however many there are; and calls on the
\* template that follow each other, on the metadata of earlier calls only.  (Nothing is
\* said of the values of globals, which renderings read without the lock.)
THEOREM OnlyKnownRaces == Spec => []RacesAreKnown
<1>1. ASSUME ObjectInv
      PROVE  RacesAreKnown
  <2>1. LoadsAlone /\ Guarded
    BY <1>1 DEF ObjectInv
  <2>2. \A u \in At({"parsing"}) : \A v \in At({"parsing", "reading"} \cup Renders) : u = v
    BY <2>1 DEF At, LoadsAlone, Using, Renders
  <2>3. ~Conflict("m_template") /\ ~Conflict("m_renderer") /\ ~Conflict("m_metadataInfo")
    BY <2>2 DEF Conflict, Writers, Readers, At, Renders
  <2>4. ~Conflict("m_globalValues")
    <3>1. \A u \in At({"changing"}) : \A v \in At({"changing", "converting"}) : u = v
      BY <2>1, ObjectAssumption DEF At, Guarded
    <3> QED BY <3>1 DEF Conflict, Writers, Readers, At
  <2>5. DOMAIN Writers = {"m_template", "m_renderer", "m_metadataInfo", "m_metadataJson",
                          "import", "m_globalValues"}
    BY DEF Writers
  <2>6. ASSUME serial
        PROVE  ~Conflict("import") /\ \A u, v \in Writers.m_metadataJson : u = v
    <3>1. \A u, v \in At({"reading"} \cup Renders) : u = v
      BY <2>1, <2>6 DEF At, LoadsAlone, Using, Renders
    <3>2. ~Conflict("import")
      BY <3>1 DEF Conflict, Writers, Readers, At, Renders
    <3>3. \A u, v \in Writers.m_metadataJson : u = v
      BY <3>1 DEF Writers, At
    <3> QED BY <3>2, <3>3
  <2> QED BY <2>3, <2>4, <2>5, <2>6 DEF RacesAreKnown
<1> QED BY <1>1, ObjectInvariant, PTL

\* A rendering sees the globals of the moment at which ApplyGlobals got m_guard.
THEOREM GlobalsAreOfOneMoment == Spec => []GlobalsOfOneMoment
<1>1. ASSUME ObjectInv
      PROVE  GlobalsOfOneMoment
  <2> SUFFICES ASSUME NEW u \in Users, env, pc[u] \in {"converting"} \cup Renders
               PROVE  /\ \A g \in DOMAIN seen[u] : seen[u][g] = moment[u][g]
                      /\ pc[u] # "converting" => DOMAIN seen[u] = {g \in Names : moment[u][g] # NoValue}
                      /\ Dangling(u) \subseteq replaced[u]
    BY DEF GlobalsOfOneMoment
  <2>1. SeenBy(u)
    BY <1>1 DEF ObjectInv, Seen
  <2>2. \A g \in DOMAIN seen[u] : seen[u][g] = moment[u][g]
    BY <2>1 DEF SeenBy
  <2>3. pc[u] # "converting" => DOMAIN seen[u] = {g \in Names : moment[u][g] # NoValue}
    BY <2>1 DEF SeenBy
  <2>4. ASSUME NEW g \in Dangling(u)
        PROVE  g \in replaced[u]
    <3>1. g \in DOMAIN seen[u] /\ moment[u][g] # globals[g]
      BY <2>2, <2>4 DEF Dangling
    <3>2. pc[u] # "converting"
      BY <2>1, <3>1 DEF SeenBy
    <3>3. g \in Names
      BY <2>3, <3>1, <3>2
    <3> QED BY <2>1, <3>1, <3>2, <3>3 DEF SeenBy
  <2> QED BY <2>2, <2>3, <2>4
<1> QED BY <1>1, ObjectInvariant, PTL
=============================================================================

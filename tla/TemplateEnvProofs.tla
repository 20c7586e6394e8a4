--------------------------- MODULE TemplateEnvProofs ---------------------------
(***************************************************************************)
(* TemplateEnv implements Loader, for any threads, names, handlers, files   *)
(* and settings.                                                            *)
(***************************************************************************)
EXTENDS TemplateEnv, TLAPS

\* A handler in memory keeps its files.
Stays(h, n) == h \notin RealHandlers => content[h][n] # Absent

\* The handler of an entry is one, and in memory it still has the file.
EntriesStay ==
    \A n \in Names : Cached(n) => cache[n].handler \in Handlers /\ Stays(cache[n].handler, n)

\* Files that have been there all the time are there.
StillThere == \A t \in Threads : \A h \in past[t].there : Has(h, job[t].name)

\* A call that asks the handlers has not passed one that has had the file all the time;
\* one that has read a file knows where.
Knows(t) ==
    LET j == job[t]
    IN  /\ j.pc = "open" => j.handler \in 1..(HandlerCount + 1)
                            /\ \A g \in past[t].there : j.handler <= g
        /\ j.pc \in {"stat", "store"} => j.handler \in Handlers /\ Stays(j.handler, j.name)

CallsKnow == \A t \in Threads : Knows(t)

IInv == TypeOK /\ EntriesStay /\ StillThere /\ CallsKnow

-----------------------------------------------------------------------------
(* The types of the variables. *)

LEMMA InitType == Init => TypeOK
BY EnvAssumption DEF Init, TypeOK, Handlers, Versions, Absent, NoDate, Seconds, NoEntry, Outcomes,
    EntryType, JobType, PastType

\* The bounds are numbers.
LEMMA Zeros ==
    /\ 0 \in 0..HandlerCount /\ 0 \in 0..(HandlerCount + 1)
    /\ 0 \in 0..MaxVersion /\ 0 \in 0..MaxClock
BY EnvAssumption

LEMMA NewJobType ==
    ASSUME NEW n \in Names
    PROVE  [pc |-> "lookup", name |-> n, handler |-> 0, tpl |-> Absent, stamp |-> NoDate,
            outcome |-> "none"] \in JobType
BY Zeros DEF JobType, Outcomes, Absent, NoDate

LEMMA ReturnType ==
    ASSUME job \in [Threads -> JobType], NEW t \in Threads, NEW outcome \in Outcomes,
           NEW h \in 0..(HandlerCount + 1), NEW v \in 0..MaxVersion, Return(t, outcome, h, v)
    PROVE  job' \in [Threads -> JobType]
<1> DEFINE r == [job[t] EXCEPT !.pc = "idle", !.outcome = outcome, !.handler = h, !.tpl = v]
<1>1. job[t] \in JobType
  OBVIOUS
<1>2. r \in JobType
  BY <1>1 DEF JobType
<1>3. job' = [job EXCEPT ![t] = r]
  BY DEF Return
<1> QED
  BY <1>2, <1>3

\* What an action that changes no more than its calls and the cache has to keep.
LEMMA FilesType ==
    ASSUME TypeOK, UNCHANGED files, cache' \in [Names -> EntryType],
           job' \in [Threads -> JobType], past' \in [Threads -> PastType]
    PROVE  TypeOK'
BY DEF TypeOK, files, settings

LEMMA CallType ==
    ASSUME TypeOK, NEW t \in Threads, NEW n \in Names, Call(t, n)
    PROVE  TypeOK'
<1>1. job' \in [Threads -> JobType]
  BY NewJobType DEF TypeOK, Call
<1>2. [there |-> {h \in Handlers : Has(h, n)}, current |-> Absent, asked |-> NoDate] \in PastType
  BY Zeros DEF PastType, Absent, NoDate
<1>3. past' \in [Threads -> PastType]
  BY <1>2 DEF TypeOK, Call
<1> QED
  BY <1>1, <1>3, FilesType DEF TypeOK, Call

LEMMA LookupType ==
    ASSUME TypeOK, EntriesStay, NEW t \in Threads, Lookup(t)
    PROVE  TypeOK'
<1> DEFINE n == job[t].name
           e == cache[n]
<1>1. job[t] \in JobType /\ past[t] \in PastType /\ n \in Names
  BY DEF TypeOK, JobType
<1>2. e \in EntryType
  BY <1>1 DEF TypeOK
<1>3. e.handler \in 0..HandlerCount /\ e.tpl \in 0..MaxVersion /\ e.asked \in 0..MaxClock
  BY <1>2 DEF EntryType
<1>4. e.handler \in 0..(HandlerCount + 1)
  BY <1>3, EnvAssumption
<1>5. UNCHANGED files /\ cache' \in [Names -> EntryType]
  BY DEF Lookup, TypeOK
<1>6. ASSUME Return(t, "cached", e.handler, e.tpl), Cached(n),
             past' = [past EXCEPT ![t].current = content[e.handler][n], ![t].asked = e.asked]
      PROVE  TypeOK'
  <2>1. content[e.handler][n] \in 0..MaxVersion
    BY <1>1, <1>6 DEF TypeOK, EntriesStay
  <2>2. [past[t] EXCEPT !.current = content[e.handler][n], !.asked = e.asked] \in PastType
    BY <1>1, <1>3, <2>1 DEF PastType
  <2>3. past' = [past EXCEPT ![t] = [past[t] EXCEPT !.current = content[e.handler][n],
                                                    !.asked = e.asked]]
    BY <1>6
  <2>4. past' \in [Threads -> PastType]
    BY <2>2, <2>3 DEF TypeOK
  <2>5. job' \in [Threads -> JobType]
    BY <1>3, <1>4, <1>6, ReturnType DEF TypeOK, Outcomes
  <2> QED
    BY <1>5, <2>4, <2>5, FilesType
<1>7. ASSUME Return(t, "throws", e.handler, Absent), UNCHANGED past
      PROVE  TypeOK'
  <2>1. job' \in [Threads -> JobType]
    BY <1>4, <1>7, Zeros, ReturnType DEF TypeOK, Outcomes, Absent
  <2> QED
    BY <1>5, <1>7, <2>1, FilesType DEF TypeOK
<1>8. ASSUME job' = [job EXCEPT ![t].pc = "open", ![t].handler = 1], UNCHANGED past
      PROVE  TypeOK'
  <2> 1 \in 0..(HandlerCount + 1)
    BY EnvAssumption
  <2>1. [job[t] EXCEPT !.pc = "open", !.handler = 1] \in JobType
    BY <1>1 DEF JobType
  <2>2. job' = [job EXCEPT ![t] = [job[t] EXCEPT !.pc = "open", !.handler = 1]]
    BY <1>8
  <2>3. job' \in [Threads -> JobType]
    BY <2>1, <2>2 DEF TypeOK
  <2> QED
    BY <1>5, <1>8, <2>3, FilesType DEF TypeOK
<1> QED
  BY <1>6, <1>7, <1>8 DEF Lookup

LEMMA OpenType ==
    ASSUME TypeOK, NEW t \in Threads, Open(t)
    PROVE  TypeOK'
<1> DEFINE h == job[t].handler
           n == job[t].name
<1>1. job[t] \in JobType /\ h \in 0..(HandlerCount + 1) /\ n \in Names
  BY DEF TypeOK, JobType
<1>2. CASE SkipHandler(t)
  <2>1. h + 1 \in 0..(HandlerCount + 1)
    BY <1>1, <1>2, EnvAssumption DEF SkipHandler, Handlers
  <2>2. [job[t] EXCEPT !.handler = h + 1] \in JobType
    BY <1>1, <2>1 DEF JobType
  <2>3. job' = [job EXCEPT ![t] = [job[t] EXCEPT !.handler = h + 1]]
    BY <1>2 DEF SkipHandler
  <2>4. job' \in [Threads -> JobType]
    BY <2>2, <2>3 DEF TypeOK
  <2> QED
    BY <2>4, FilesType DEF TypeOK, Open
<1>3. CASE h \in Handlers /\ Has(h, n) /\ Parse(t, content[h][n])
  <2> DEFINE v == content[h][n]
  <2>1. v \in 0..MaxVersion
    BY <1>1, <1>3 DEF TypeOK
  <2>2. CASE v \in Broken
    <3>1. Return(t, "parse error", h, Absent)
      BY <1>3, <2>2 DEF Parse
    <3>2. job' \in [Threads -> JobType]
      BY <1>1, <3>1, Zeros, ReturnType DEF TypeOK, Outcomes, Absent
    <3> QED
      BY <3>2, FilesType DEF TypeOK, Open
  <2>3. CASE v \notin Broken /\ cacheSize = 0
    <3>1. Return(t, "loaded", h, v)
      BY <1>3, <2>3 DEF Parse
    <3>2. job' \in [Threads -> JobType]
      BY <1>1, <2>1, <3>1, ReturnType DEF TypeOK, Outcomes
    <3> QED
      BY <3>2, FilesType DEF TypeOK, Open
  <2>4. CASE v \notin Broken /\ cacheSize # 0
    <3>1. job' = [job EXCEPT ![t] = [job[t] EXCEPT !.pc = "stat", !.tpl = v]]
      BY <1>3, <2>4 DEF Parse
    <3>2. [job[t] EXCEPT !.pc = "stat", !.tpl = v] \in JobType
      BY <1>1, <2>1 DEF JobType
    <3>3. job' \in [Threads -> JobType]
      BY <3>1, <3>2 DEF TypeOK
    <3> QED
      BY <3>3, FilesType DEF TypeOK, Open
  <2> QED
    BY <2>2, <2>3, <2>4
<1>4. CASE h \notin Handlers /\ Return(t, "missing", 0, Absent)
  <2>1. job' \in [Threads -> JobType]
    BY <1>4, Zeros, ReturnType DEF TypeOK, Outcomes, Absent
  <2> QED
    BY <2>1, FilesType DEF TypeOK, Open
<1> QED
  BY <1>2, <1>3, <1>4 DEF Open

LEMMA StatType ==
    ASSUME TypeOK, NEW t \in Threads, Stat(t), job[t].handler \in Handlers
    PROVE  TypeOK'
<1> DEFINE h == job[t].handler
           n == job[t].name
           date == LastModificationDate(h, n)
<1>1. job[t] \in JobType /\ past[t] \in PastType /\ h \in 0..(HandlerCount + 1) /\ n \in Names
  BY DEF TypeOK, JobType
<1>2. CASE DateThrows(h, n)
  <2>1. Return(t, "throws", h, Absent) /\ UNCHANGED past
    BY <1>2 DEF Stat
  <2>2. job' \in [Threads -> JobType]
    BY <1>1, <2>1, Zeros, ReturnType DEF TypeOK, Outcomes, Absent
  <2> QED
    BY <2>1, <2>2, FilesType DEF TypeOK, Stat
<1>3. CASE ~DateThrows(h, n)
  <2>1. date \in 0..MaxClock /\ clock \in 0..MaxClock
    BY <1>1, Zeros, EnvAssumption DEF LastModificationDate, TypeOK, Seconds, NoDate
  <2>2. job' = [job EXCEPT ![t] = [job[t] EXCEPT !.pc = "store", !.stamp = date]]
    BY <1>3 DEF Stat
  <2>3. [job[t] EXCEPT !.pc = "store", !.stamp = date] \in JobType
    BY <1>1, <2>1 DEF JobType
  <2>4. past' = [past EXCEPT ![t] = [past[t] EXCEPT !.asked = clock]]
    BY <1>3 DEF Stat
  <2>5. [past[t] EXCEPT !.asked = clock] \in PastType
    BY <1>1, <2>1 DEF PastType
  <2>6. job' \in [Threads -> JobType] /\ past' \in [Threads -> PastType]
    BY <2>2, <2>3, <2>4, <2>5 DEF TypeOK
  <2> QED
    BY <2>6, FilesType DEF TypeOK, Stat
<1> QED
  BY <1>2, <1>3

LEMMA StoreType ==
    ASSUME TypeOK, NEW t \in Threads, Store(t), job[t].handler \in Handlers
    PROVE  TypeOK'
<1> DEFINE j == job[t]
           e == [tpl |-> j.tpl, handler |-> j.handler, stamp |-> j.stamp, asked |-> past[t].asked]
<1>1. j \in JobType /\ past[t] \in PastType
  BY DEF TypeOK
<1>2. /\ j.handler \in 0..HandlerCount /\ j.handler \in 0..(HandlerCount + 1)
      /\ j.tpl \in 0..MaxVersion /\ j.stamp \in 0..MaxClock /\ j.name \in Names
      /\ past[t].asked \in 0..MaxClock
  BY <1>1, EnvAssumption DEF JobType, PastType, Handlers
<1>3. e \in EntryType
  BY <1>2 DEF EntryType
<1>4. cache' \in [Names -> EntryType]
  BY <1>2, <1>3 DEF Store, TypeOK
<1>5. Return(t, "loaded", j.handler, j.tpl)
  BY DEF Store
<1>6. job' \in [Threads -> JobType]
  BY <1>2, <1>5, ReturnType DEF TypeOK, Outcomes
<1> QED
  BY <1>4, <1>6, FilesType DEF TypeOK, Store

LEMMA WriteType ==
    ASSUME TypeOK, NEW h \in Handlers, NEW n \in Names, Write(h, n)
    PROVE  TypeOK'
<1>1. written + 1 \in 0..MaxVersion /\ clock \in 0..MaxClock
  BY EnvAssumption DEF TypeOK, Write, Seconds
<1> QED
  BY <1>1 DEF TypeOK, Write, settings

LEMMA DeleteType ==
    ASSUME TypeOK, NEW h \in Handlers, NEW n \in Names, Delete(h, n)
    PROVE  TypeOK'
<1>1. content' \in [Handlers -> [Names -> 0..MaxVersion]]
  BY Zeros DEF TypeOK, Delete, Absent
<1>2. ASSUME NEW t \in Threads PROVE [past[t] EXCEPT !.there = @ \ {h}] \in PastType
  BY DEF TypeOK, PastType
<1>3. past' \in [Threads -> PastType]
  BY <1>2 DEF TypeOK, Delete
<1> QED
  BY <1>1, <1>3 DEF TypeOK, Delete, settings

LEMMA TickType ==
    ASSUME TypeOK, Tick
    PROVE  TypeOK'
BY EnvAssumption DEF TypeOK, Tick, Seconds, settings
-----------------------------------------------------------------------------
(* The invariant. *)

LEMMA InitInvariant == Init => IInv
<1> SUFFICES ASSUME Init PROVE IInv
  OBVIOUS
<1>1. EntriesStay
  BY DEF Init, EntriesStay, Cached
<1>2. StillThere
  BY DEF Init, StillThere
<1>3. CallsKnow
  BY DEF Init, CallsKnow, Knows
<1> QED
  BY <1>1, <1>2, <1>3, InitType DEF IInv

\* What Return leaves in a call.
LEMMA ReturnFields ==
    ASSUME IInv, NEW t \in Threads, NEW outcome, NEW h, NEW v, Return(t, outcome, h, v)
    PROVE  /\ \A s \in Threads : s # t => job'[s] = job[s]
              /\ job'[t] = [job[t] EXCEPT !.pc = "idle", !.outcome = outcome, !.handler = h, !.tpl = v]
           /\ job'[t].pc = "idle" /\ job'[t].name = job[t].name
           /\ job'[t].outcome = outcome /\ job'[t].handler = h /\ job'[t].tpl = v
<1>1. job[t] \in JobType /\ job \in [Threads -> JobType]
  BY DEF IInv, TypeOK
<1> QED
  BY <1>1 DEF Return, JobType

\* A call that has returned, with whatever, is idle, and the others go on.
LEMMA ReturnCall ==
    ASSUME IInv, NEW t \in Threads, \E o, h, v : Return(t, o, h, v)
    PROVE  /\ job'[t].pc = "idle" /\ job'[t].name = job[t].name
           /\ \A s \in Threads : s # t => job'[s] = job[s]
<1>1. job[t] \in JobType /\ job \in [Threads -> JobType]
  BY DEF IInv, TypeOK
<1>2. PICK o, h, v : Return(t, o, h, v)
  OBVIOUS
<1> QED BY <1>1, <1>2 DEF Return, JobType

\* A step of a call keeps what is known of the others.
LEMMA OneCall ==
    ASSUME IInv, NEW t \in Threads, UNCHANGED content,
           \A s \in Threads : s # t => job'[s] = job[s],
           job'[t].name = job[t].name,
           \A s \in Threads : past'[s].there = past[s].there,
           Knows(t)'
    PROVE  StillThere' /\ CallsKnow'
<1>1. \A s \in Threads : job'[s].name = job[s].name
  OBVIOUS
<1>2. StillThere'
  BY <1>1 DEF IInv, StillThere, Has
<1>3. ASSUME NEW s \in Threads, s # t PROVE Knows(s)'
  BY <1>3 DEF IInv, CallsKnow, Knows, Stays
<1> QED
  BY <1>2, <1>3 DEF CallsKnow

LEMMA CallInvariant ==
    ASSUME IInv, NEW t \in Threads, NEW n \in Names, Call(t, n)
    PROVE  IInv'
<1>1. TypeOK'
  BY CallType DEF IInv
<1>2. EntriesStay'
  BY DEF IInv, EntriesStay, Call, files, Cached, Stays
<1>3. StillThere'
  BY DEF IInv, TypeOK, StillThere, Call, files, Has
<1>4. CallsKnow'
  BY DEF IInv, TypeOK, CallsKnow, Knows, Call, files, Stays
<1> QED
  BY <1>1, <1>2, <1>3, <1>4 DEF IInv

LEMMA LookupInvariant ==
    ASSUME IInv, NEW t \in Threads, Lookup(t)
    PROVE  IInv'
<1>1. TypeOK'
  BY LookupType DEF IInv
<1>2. EntriesStay'
  BY DEF IInv, EntriesStay, Lookup, files, Cached, Stays
<1>3. \A s \in Threads : past'[s].there = past[s].there
  BY DEF IInv, TypeOK, PastType, Lookup
<1>4. UNCHANGED content
  BY DEF Lookup, files
<1>5. CASE \E o, h, v : Return(t, o, h, v)
  <2>1. job'[t].pc = "idle" /\ job'[t].name = job[t].name
        /\ \A s \in Threads : s # t => job'[s] = job[s]
    BY <1>5, ReturnCall
  <2>2. Knows(t)'
    BY <2>1 DEF Knows
  <2> QED
    BY <1>1, <1>2, <1>3, <1>4, <2>1, <2>2, OneCall DEF IInv
<1>6. CASE job' = [job EXCEPT ![t].pc = "open", ![t].handler = 1]
  <2>1. /\ \A s \in Threads : s # t => job'[s] = job[s]
        /\ job'[t].name = job[t].name /\ job'[t].handler = 1 /\ job'[t].pc = "open"
    BY <1>6 DEF IInv, TypeOK, JobType
  <2>2. past'[t].there \subseteq Handlers
    BY <1>3 DEF IInv, TypeOK, PastType
  <2>3. Knows(t)'
    BY <2>1, <2>2, EnvAssumption DEF Knows, Handlers
  <2> QED
    BY <1>1, <1>2, <1>3, <1>4, <2>1, <2>3, OneCall DEF IInv
<1> QED
  BY <1>5, <1>6 DEF Lookup

LEMMA OpenInvariant ==
    ASSUME IInv, NEW t \in Threads, Open(t)
    PROVE  IInv'
<1>1. TypeOK'
  BY OpenType DEF IInv
<1>2. EntriesStay'
  BY DEF IInv, EntriesStay, Open, files, Cached, Stays
<1>3. \A s \in Threads : past'[s].there = past[s].there
  BY DEF Open
<1>4. UNCHANGED content
  BY DEF Open, files
<1>5. CASE \E o, h, v : Return(t, o, h, v)
  <2>1. job'[t].pc = "idle" /\ job'[t].name = job[t].name
        /\ \A s \in Threads : s # t => job'[s] = job[s]
    BY <1>5, ReturnCall
  <2>2. Knows(t)'
    BY <2>1 DEF Knows
  <2> QED
    BY <1>1, <1>2, <1>3, <1>4, <2>1, <2>2, OneCall DEF IInv
<1>6. CASE SkipHandler(t)
  <2> DEFINE h == job[t].handler
  <2>1. /\ \A s \in Threads : s # t => job'[s] = job[s]
        /\ job'[t].name = job[t].name /\ job'[t].handler = h + 1 /\ job'[t].pc = "open"
    BY <1>6 DEF IInv, TypeOK, JobType, SkipHandler, Open
  <2>2. /\ h \in Handlers /\ ~Has(h, job[t].name)
    BY <1>6 DEF SkipHandler
  <2>3. h \notin past[t].there
    BY <2>2 DEF IInv, StillThere
  <2>4. \A g \in past[t].there : h <= g /\ g \in Handlers
    BY DEF IInv, TypeOK, PastType, CallsKnow, Knows, Open
  <2>5. \A g \in past'[t].there : h + 1 <= g
    BY <1>3, <2>2, <2>3, <2>4, EnvAssumption DEF Handlers
  <2>6. Knows(t)'
    BY <2>1, <2>2, <2>5, EnvAssumption DEF Knows, Handlers
  <2> QED
    BY <1>1, <1>2, <1>3, <1>4, <2>1, <2>6, OneCall DEF IInv
<1>7. CASE /\ job[t].handler \in Handlers /\ Has(job[t].handler, job[t].name)
           /\ \E v : job' = [job EXCEPT ![t].pc = "stat", ![t].tpl = v]
  <2>1. /\ \A s \in Threads : s # t => job'[s] = job[s]
        /\ job'[t].name = job[t].name /\ job'[t].handler = job[t].handler /\ job'[t].pc = "stat"
    BY <1>7 DEF IInv, TypeOK, JobType
  <2>2. Knows(t)'
    BY <1>4, <1>7, <2>1 DEF Knows, Stays, Has
  <2> QED
    BY <1>1, <1>2, <1>3, <1>4, <2>1, <2>2, OneCall DEF IInv
<1> QED
  BY <1>5, <1>6, <1>7 DEF Open, Parse

LEMMA StatInvariant ==
    ASSUME IInv, NEW t \in Threads, Stat(t)
    PROVE  IInv'
<1>1. TypeOK'
  BY StatType DEF IInv, CallsKnow, Knows, Stat
<1>2. EntriesStay'
  BY DEF IInv, EntriesStay, Stat, files, Cached, Stays
<1>3. \A s \in Threads : past'[s].there = past[s].there
  BY DEF IInv, TypeOK, PastType, Stat
<1>4. UNCHANGED content
  BY DEF Stat, files
<1>5. CASE \E o, h, v : Return(t, o, h, v)
  <2>1. job'[t].pc = "idle" /\ job'[t].name = job[t].name
        /\ \A s \in Threads : s # t => job'[s] = job[s]
    BY <1>5, ReturnCall
  <2>2. Knows(t)'
    BY <2>1 DEF Knows
  <2> QED
    BY <1>1, <1>2, <1>3, <1>4, <2>1, <2>2, OneCall DEF IInv
<1>6. CASE \E date : job' = [job EXCEPT ![t].pc = "store", ![t].stamp = date]
  <2>1. /\ \A s \in Threads : s # t => job'[s] = job[s]
        /\ job'[t].name = job[t].name /\ job'[t].handler = job[t].handler /\ job'[t].pc = "store"
    BY <1>6 DEF IInv, TypeOK, JobType
  <2>2. Knows(t)'
    BY <1>4, <2>1 DEF IInv, CallsKnow, Knows, Stays, Stat
  <2> QED
    BY <1>1, <1>2, <1>3, <1>4, <2>1, <2>2, OneCall DEF IInv
<1> QED
  BY <1>5, <1>6 DEF Stat

LEMMA StoreInvariant ==
    ASSUME IInv, NEW t \in Threads, Store(t)
    PROVE  IInv'
<1>1. TypeOK'
  BY StoreType DEF IInv, CallsKnow, Knows, Store
<1>2. EntriesStay'
  BY DEF IInv, TypeOK, EntriesStay, CallsKnow, Knows, Store, files, Cached, NoEntry, Stays
<1>3. StillThere'
  BY DEF IInv, TypeOK, StillThere, Store, Return, files, Has
<1>4. CallsKnow'
  BY DEF IInv, TypeOK, CallsKnow, Knows, Store, Return, files, Stays
<1> QED
  BY <1>1, <1>2, <1>3, <1>4 DEF IInv

LEMMA WriteInvariant ==
    ASSUME IInv, NEW h \in Handlers, NEW n \in Names, Write(h, n)
    PROVE  IInv'
<1>1. TypeOK'
  BY WriteType DEF IInv
<1>2. written + 1 # Absent
  BY EnvAssumption DEF IInv, TypeOK, Absent
<1>3. \A g \in Handlers, m \in Names : content[g][m] # Absent => content'[g][m] # Absent
  BY <1>2 DEF IInv, TypeOK, Write
<1>4. EntriesStay'
  BY <1>3 DEF IInv, EntriesStay, Write, Cached, Stays
<1>5. StillThere'
  BY <1>3 DEF IInv, TypeOK, PastType, JobType, StillThere, Write, Has
<1>6. CallsKnow'
  BY <1>3 DEF IInv, TypeOK, JobType, CallsKnow, Knows, Write, Stays
<1> QED
  BY <1>1, <1>4, <1>5, <1>6 DEF IInv

LEMMA DeleteInvariant ==
    ASSUME IInv, NEW h \in Handlers, NEW n \in Names, Delete(h, n)
    PROVE  IInv'
<1>1. TypeOK'
  BY DeleteType DEF IInv
<1>2. \A g \in Handlers, m \in Names : g # h \/ m # n => content'[g][m] = content[g][m]
  BY DEF IInv, TypeOK, Delete
<1>3. h \in RealHandlers
  BY DEF Delete
<1>4. EntriesStay'
  BY <1>2, <1>3 DEF IInv, EntriesStay, Delete, Cached, Stays
<1>5. \A t \in Threads : /\ past'[t].there = IF job[t].name = n THEN past[t].there \ {h}
                                             ELSE past[t].there
                         /\ past[t].there \subseteq Handlers /\ job[t].name \in Names
  BY DEF IInv, TypeOK, PastType, JobType, Delete
<1>6. StillThere'
  BY <1>2, <1>5 DEF IInv, StillThere, Delete, Has
<1>7. CallsKnow'
  BY <1>2, <1>3, <1>5 DEF IInv, CallsKnow, Knows, Delete, Stays
<1> QED
  BY <1>1, <1>4, <1>6, <1>7 DEF IInv

LEMMA TickInvariant ==
    ASSUME IInv, Tick
    PROVE  IInv'
<1>1. TypeOK'
  BY TickType DEF IInv
<1> QED
  BY <1>1 DEF IInv, EntriesStay, StillThere, CallsKnow, Knows, Tick, Cached, Stays, Has

\* IInv holds in every state.
THEOREM Invariant == Spec => []IInv
<1>1. IInv /\ [Next]_vars => IInv'
  <2> SUFFICES ASSUME IInv, [Next]_vars PROVE IInv'
    OBVIOUS
  <2>1. CASE UNCHANGED vars
    BY <2>1 DEF vars, settings, IInv, TypeOK, EntriesStay, StillThere, CallsKnow, Knows, Cached, Stays, Has
  <2>2. CASE Next
    BY <2>2, CallInvariant, LookupInvariant, OpenInvariant, StatInvariant, StoreInvariant,
       WriteInvariant, DeleteInvariant, TickInvariant DEF Next, Step
  <2> QED
    BY <2>1, <2>2
<1> QED
  BY <1>1, InitInvariant, PTL DEF Spec
-----------------------------------------------------------------------------
(* The refinement. *)

LEMMA SameCall ==
    ASSUME NEW s \in Threads, job'[s] = job[s], past'[s].there = past[s].there
    PROVE  LoaderCall(s)' = LoaderCall(s)
BY DEF LoaderCall

\* A step of one call is a step of one call of Loader.
LEMMA OneLoaderCall ==
    ASSUME NEW t \in Threads, NEW c,
           \A s \in Threads : s # t => job'[s] = job[s],
           \A s \in Threads : s # t => past'[s].there = past[s].there,
           LoaderCall(t)' = c
    PROVE  LoaderCalls' = [LoaderCalls EXCEPT ![t] = c]
<1>1. \A s \in Threads : s # t => LoaderCall(s)' = LoaderCall(s)
  BY SameCall
<1> QED
  BY <1>1 DEF LoaderCalls

\* To return is to answer.
LEMMA ReturnAnswers ==
    ASSUME IInv, NEW t \in Threads, NEW outcome, NEW h, NEW v, Return(t, outcome, h, v),
           \A s \in Threads : past'[s].there = past[s].there
    PROVE  L!Answer(t, outcome, h, v)
<1> DEFINE c == [phase |-> "idle", name |-> job[t].name, there |-> past[t].there,
                 handler |-> h, text |-> v, outcome |-> outcome]
<1>1. job[t] \in JobType /\ job \in [Threads -> JobType]
  BY DEF IInv, TypeOK
<1>2. /\ \A s \in Threads : s # t => job'[s] = job[s]
      /\ job'[t].pc = "idle" /\ job'[t].name = job[t].name
      /\ job'[t].outcome = outcome /\ job'[t].handler = h /\ job'[t].tpl = v
  BY <1>1 DEF Return, JobType
<1>3. LoaderCall(t)' = c
  BY <1>2 DEF LoaderCall, Phase
<1>4. LoaderCalls' = [LoaderCalls EXCEPT ![t] = c]
  <2> HIDE DEF c
  <2> QED
    BY <1>2, <1>3, OneLoaderCall
<1>5. LoaderCalls[t].name = job[t].name /\ LoaderCalls[t].there = past[t].there
  BY DEF LoaderCalls, LoaderCall
<1> QED
  BY <1>4, <1>5 DEF L!Answer

\* What a call is in Loader.
LEMMA LoaderCallFields ==
    ASSUME NEW t \in Threads
    PROVE  /\ LoaderCalls[t].phase = Phase(job[t].pc)
           /\ LoaderCalls[t].name = job[t].name
           /\ LoaderCalls[t].there = past[t].there
           /\ Phase(job[t].pc) # "called" => LoaderCalls[t].handler = job[t].handler
           /\ LoaderCalls[t].text = job[t].tpl
BY DEF LoaderCalls, LoaderCall

LEMMA KeptFields ==
    ASSUME IInv, NEW n \in Names, Cached(n)
    PROVE  /\ Kept[n].text = cache[n].tpl /\ Kept[n].handler = cache[n].handler
           /\ Kept[n] # L!NothingKept
<1>1. cache[n].handler # 0
  BY EnvAssumption DEF IInv, EntriesStay, Handlers
<1> QED
  BY <1>1 DEF Kept, L!NothingKept

LEMMA CallStep ==
    ASSUME IInv, NEW t \in Threads, NEW n \in Names, Call(t, n)
    PROVE  L!Call(t, n)
<1> DEFINE c == [phase |-> "called", name |-> n, there |-> {h \in Handlers : Has(h, n)},
                 handler |-> 0, text |-> Absent, outcome |-> "none"]
<1>1. LoaderCalls[t].phase = "idle"
  BY LoaderCallFields DEF Call, Phase
<1>2. LoaderCall(t)' = c
  BY DEF IInv, TypeOK, Call, LoaderCall, Phase
<1>3. /\ \A s \in Threads : s # t => job'[s] = job[s]
      /\ \A s \in Threads : s # t => past'[s].there = past[s].there
  BY DEF IInv, TypeOK, Call
<1>4. LoaderCalls' = [LoaderCalls EXCEPT ![t] = c]
  <2> HIDE DEF c
  <2> QED
    BY <1>2, <1>3, OneLoaderCall
<1>5. UNCHANGED <<autoReload, content, Kept>>
  BY DEF Call, files, settings, Kept
<1>6. {h \in Handlers : Has(h, n)} = {h \in Handlers : L!Serves(h, n)}
  BY DEF Has, L!Serves
<1> QED
  BY <1>1, <1>4, <1>5, <1>6 DEF L!Call

LEMMA LookupStep ==
    ASSUME IInv, NEW t \in Threads, Lookup(t)
    PROVE  L!Hit(t) \/ L!Throw(t) \/ UNCHANGED L!vars
<1> DEFINE n == job[t].name
           e == cache[n]
<1>1. n \in Names
  BY DEF IInv, TypeOK, JobType
<1>2. LoaderCalls[t].phase = "called" /\ LoaderCalls[t].name = n
  BY LoaderCallFields DEF Lookup, Phase
<1>3. UNCHANGED <<autoReload, content, Kept>>
  BY DEF Lookup, files, settings, Kept
<1>4. \A s \in Threads : past'[s].there = past[s].there
  BY DEF IInv, TypeOK, PastType, Lookup
<1>5. ASSUME Cached(n), UpToDate(n), Return(t, "cached", e.handler, e.tpl)
      PROVE  L!Hit(t)
  <2>1. L!Answer(t, "cached", e.handler, e.tpl)
    BY <1>4, <1>5, ReturnAnswers
  <2>2. Kept[n] # L!NothingKept /\ Kept[n].text = e.tpl /\ Kept[n].handler = e.handler
    BY <1>1, <1>5, KeptFields
  <2>3. autoReload => content[e.handler][n] # Absent
    BY <1>1, <1>5 DEF IInv, EntriesStay, Stays, UpToDate, DateThrows
  <2> QED
    BY <1>2, <1>3, <2>1, <2>2, <2>3 DEF L!Hit
<1>6. ASSUME Cached(n), autoReload, DateThrows(e.handler, n), Return(t, "throws", e.handler, Absent)
      PROVE  L!Throw(t)
  <2>1. L!Answer(t, "throws", e.handler, Absent)
    BY <1>4, <1>6, ReturnAnswers
  <2>2. Kept[n] # L!NothingKept /\ Kept[n].handler = e.handler
    BY <1>1, <1>6, KeptFields
  <2>3. content[e.handler][n] = Absent
    BY <1>6 DEF DateThrows
  <2> QED
    BY <1>2, <1>3, <1>6, <2>1, <2>2, <2>3 DEF L!Throw
<1>7. ASSUME job' = [job EXCEPT ![t].pc = "open", ![t].handler = 1]
      PROVE  UNCHANGED L!vars
  <2>1. /\ job'[t].pc = "open" /\ job'[t].name = n
        /\ job'[t].tpl = job[t].tpl /\ job'[t].outcome = job[t].outcome
    BY <1>7 DEF IInv, TypeOK, JobType
  <2>2. LoaderCall(t)' = LoaderCall(t)
    BY <1>4, <2>1 DEF LoaderCall, Phase, Lookup
  <2>3. \A s \in Threads : s # t => job'[s] = job[s]
    BY <1>7 DEF IInv, TypeOK
  <2>4. LoaderCalls' = [LoaderCalls EXCEPT ![t] = LoaderCall(t)]
    BY <1>4, <2>2, <2>3, OneLoaderCall
  <2>5. UNCHANGED LoaderCalls
    BY <2>4 DEF LoaderCalls
  <2> QED
    BY <1>3, <2>5 DEF L!vars
<1> QED
  BY <1>5, <1>6, <1>7 DEF Lookup

\* A step that only moves a call on in its phase is no step of Loader.
LEMMA StutterStep ==
    ASSUME IInv, NEW t \in Threads, UNCHANGED <<files, cache>>,
           \A s \in Threads : past'[s].there = past[s].there,
           \A s \in Threads : s # t => job'[s] = job[s],
           LoaderCall(t)' = LoaderCall(t)
    PROVE  UNCHANGED L!vars
<1>1. UNCHANGED <<autoReload, content, Kept>>
  BY DEF files, settings, Kept
<1>2. LoaderCalls' = [LoaderCalls EXCEPT ![t] = LoaderCall(t)]
  BY OneLoaderCall
<1>3. UNCHANGED LoaderCalls
  BY <1>2 DEF LoaderCalls
<1> QED
  BY <1>1, <1>3 DEF L!vars

LEMMA OpenStep ==
    ASSUME IInv, NEW t \in Threads, Open(t)
    PROVE  L!Read(t) \/ L!NotFound(t) \/ UNCHANGED L!vars
<1> DEFINE h == job[t].handler
           n == job[t].name
           v == content[h][n]
<1>1. h \in 1..(HandlerCount + 1) /\ \A g \in past[t].there : h <= g
  BY DEF IInv, CallsKnow, Knows, Open
<1>2. /\ LoaderCalls[t].phase = "called" /\ LoaderCalls[t].name = n
      /\ LoaderCalls[t].there = past[t].there
  BY LoaderCallFields DEF Open, Phase
<1>3. UNCHANGED <<autoReload, content, Kept>>
  BY DEF Open, files, settings, Kept
<1>4. \A s \in Threads : past'[s].there = past[s].there
  BY DEF Open
<1>5. CASE SkipHandler(t)
  <2>1. /\ \A s \in Threads : s # t => job'[s] = job[s]
        /\ job'[t].pc = "open" /\ job'[t].name = n
        /\ job'[t].tpl = job[t].tpl /\ job'[t].outcome = job[t].outcome
    BY <1>5 DEF IInv, TypeOK, JobType, SkipHandler, Open
  <2>2. LoaderCall(t)' = LoaderCall(t)
    BY <1>4, <2>1 DEF LoaderCall, Phase, Open
  <2> QED
    BY <1>4, <2>1, <2>2, StutterStep DEF Open
<1>6. CASE h \in Handlers /\ Has(h, n) /\ Parse(t, v)
  <2>1. L!Serves(h, n) /\ \A g \in LoaderCalls[t].there : h <= g
    BY <1>1, <1>2, <1>6 DEF Has, L!Serves
  <2>2. ASSUME v \in Broken PROVE L!Answer(t, "parse error", h, Absent)
    BY <1>4, <1>6, <2>2, ReturnAnswers DEF Parse
  <2>3. ASSUME v \notin Broken, cacheSize = 0 PROVE L!Answer(t, "loaded", h, v)
    BY <1>4, <1>6, <2>3, ReturnAnswers DEF Parse
  <2>4. ASSUME v \notin Broken, cacheSize # 0
        PROVE  LoaderCalls' = [LoaderCalls EXCEPT ![t] =
                 [phase |-> "read", name |-> @.name, there |-> @.there,
                  handler |-> h, text |-> v, outcome |-> @.outcome]]
    <3> DEFINE c == [phase |-> "read", name |-> n, there |-> past[t].there, handler |-> h,
                     text |-> v, outcome |-> job[t].outcome]
    <3>1. /\ \A s \in Threads : s # t => job'[s] = job[s]
          /\ job'[t].pc = "stat" /\ job'[t].name = n /\ job'[t].handler = h
          /\ job'[t].tpl = v /\ job'[t].outcome = job[t].outcome
      BY <1>6, <2>4 DEF IInv, TypeOK, JobType, Parse
    <3>2. LoaderCall(t)' = c
      BY <1>4, <3>1 DEF LoaderCall, Phase
    <3>3. LoaderCalls' = [LoaderCalls EXCEPT ![t] = c]
      <4> HIDE DEF c
      <4> QED
        BY <1>4, <3>1, <3>2, OneLoaderCall
    <3>4. /\ LoaderCalls[t].name = n /\ LoaderCalls[t].there = past[t].there
          /\ LoaderCalls[t].outcome = job[t].outcome
      BY DEF LoaderCalls, LoaderCall
    <3> QED
      BY <3>3, <3>4
  <2> QED
    BY <1>2, <1>3, <1>6, <2>1, <2>2, <2>3, <2>4 DEF L!Read
<1>7. CASE h \notin Handlers /\ Return(t, "missing", 0, Absent)
  <2>1. L!Answer(t, "missing", 0, Absent)
    BY <1>4, <1>7, ReturnAnswers
  <2>2. past[t].there \subseteq Handlers
    BY DEF IInv, TypeOK, PastType
  <2>3. past[t].there = {}
    BY <1>1, <1>7, <2>2, EnvAssumption DEF Handlers
  <2> QED
    BY <1>2, <1>3, <2>1, <2>3 DEF L!NotFound
<1> QED
  BY <1>5, <1>6, <1>7 DEF Open

LEMMA StatStep ==
    ASSUME IInv, NEW t \in Threads, Stat(t)
    PROVE  L!Throw(t) \/ UNCHANGED L!vars
<1> DEFINE h == job[t].handler
           n == job[t].name
<1>1. /\ LoaderCalls[t].phase = "read" /\ LoaderCalls[t].name = n
      /\ LoaderCalls[t].handler = h
  BY LoaderCallFields DEF Stat, Phase
<1>2. UNCHANGED <<autoReload, content, Kept>>
  BY DEF Stat, files, settings, Kept
<1>3. \A s \in Threads : past'[s].there = past[s].there
  BY DEF IInv, TypeOK, PastType, Stat
<1>4. CASE DateThrows(h, n)
  <2>1. L!Answer(t, "throws", h, Absent)
    BY <1>3, <1>4, ReturnAnswers DEF Stat
  <2> QED
    BY <1>1, <1>2, <1>4, <2>1 DEF L!Throw, DateThrows
<1>5. CASE ~DateThrows(h, n)
  <2>1. /\ \A s \in Threads : s # t => job'[s] = job[s]
        /\ job'[t].pc = "store" /\ job'[t].name = n /\ job'[t].handler = h
        /\ job'[t].tpl = job[t].tpl /\ job'[t].outcome = job[t].outcome
    BY <1>5 DEF IInv, TypeOK, JobType, Stat
  <2>2. LoaderCall(t)' = LoaderCall(t)
    BY <1>3, <2>1 DEF LoaderCall, Phase, Stat
  <2> QED
    BY <1>3, <2>1, <2>2, StutterStep DEF Stat
<1> QED
  BY <1>4, <1>5

LEMMA StoreStep ==
    ASSUME IInv, NEW t \in Threads, Store(t)
    PROVE  L!Keep(t)
<1> DEFINE j == job[t]
<1>1. /\ LoaderCalls[t].phase = "read" /\ LoaderCalls[t].name = j.name
      /\ LoaderCalls[t].handler = j.handler /\ LoaderCalls[t].text = j.tpl
  BY LoaderCallFields DEF Store, Phase
<1>2. UNCHANGED <<autoReload, content>> /\ \A s \in Threads : past'[s].there = past[s].there
  BY DEF Store, files, settings
<1>3. L!Answer(t, "loaded", j.handler, j.tpl)
  BY <1>2, ReturnAnswers DEF Store
<1>4. Kept' = [Kept EXCEPT ![j.name] = [text |-> j.tpl, handler |-> j.handler]]
  BY DEF IInv, TypeOK, Store, Kept
<1> QED
  BY <1>1, <1>2, <1>3, <1>4 DEF L!Keep

\* Calls go on as they are when no job changes.
LEMMA SameCalls ==
    ASSUME UNCHANGED job, \A s \in Threads : past'[s].there = past[s].there
    PROVE  UNCHANGED LoaderCalls
BY SameCall DEF LoaderCalls

LEMMA WriteStep ==
    ASSUME IInv, NEW h \in Handlers, NEW n \in Names, Write(h, n)
    PROVE  \E text \in Versions : L!Change(h, n, text)
<1>1. written + 1 \in Versions
  BY EnvAssumption DEF IInv, TypeOK, Write, Versions
<1>2. UNCHANGED <<autoReload, Kept>>
  BY DEF Write, settings, Kept
<1>3. UNCHANGED LoaderCalls
  BY SameCalls DEF Write
<1> QED
  BY <1>1, <1>2, <1>3 DEF Write, L!Change

LEMMA DeleteStep ==
    ASSUME IInv, NEW h \in Handlers, NEW n \in Names, Delete(h, n)
    PROVE  L!Remove(h, n)
<1>1. UNCHANGED <<autoReload, Kept>>
  BY DEF Delete, settings, Kept
<1>2. ASSUME NEW s \in Threads
      PROVE  LoaderCall(s)' = IF job[s].name = n
                              THEN [LoaderCall(s) EXCEPT !.there = @ \ {h}] ELSE LoaderCall(s)
  <2>1. past'[s].there = IF job[s].name = n THEN past[s].there \ {h} ELSE past[s].there
    BY DEF IInv, TypeOK, PastType, Delete
  <2>2. job'[s] = job[s]
    BY DEF Delete
  <2> QED
    BY <2>1, <2>2 DEF LoaderCall
<1>3. LoaderCalls' = [s \in Threads |-> IF LoaderCalls[s].name = n
                                        THEN [LoaderCalls[s] EXCEPT !.there = @ \ {h}]
                                        ELSE LoaderCalls[s]]
  BY <1>2, LoaderCallFields DEF LoaderCalls
<1> QED
  BY <1>1, <1>3 DEF Delete, L!Remove

LEMMA TickStep ==
    ASSUME IInv, Tick
    PROVE  UNCHANGED L!vars
BY SameCalls DEF Tick, settings, Kept, L!vars

LEMMA InitStep == Init => L!Init
<1> SUFFICES ASSUME Init PROVE L!Init
  OBVIOUS
<1>1. autoReload \in BOOLEAN
  BY EnvAssumption DEF Init
<1>2. Kept = [n \in Names |-> L!NothingKept]
  BY DEF Init, Kept, NoEntry, L!NothingKept
<1>3. PICK n \in Names :
        job = [t \in Threads |-> [pc |-> "idle", name |-> n, handler |-> 0, tpl |-> Absent,
                                  stamp |-> NoDate, outcome |-> "none"]]
  BY DEF Init
<1>4. LoaderCalls = [t \in Threads |-> [phase |-> "idle", name |-> n, there |-> {}, handler |-> 0,
                                        text |-> Absent, outcome |-> "none"]]
  BY <1>3 DEF Init, LoaderCalls, LoaderCall, Phase
<1> QED
  BY <1>1, <1>2, <1>4 DEF Init, L!Init

\* LoadTemplate keeps the promise of Loader for any number of threads, names, handlers and
\* files, whatever the settings: each of its steps is a step of Loader or none.
THEOREM Implementation == Spec => ImplementsLoader
<1>1. IInv /\ [Next]_vars => [L!Next]_(L!vars)
  <2> SUFFICES ASSUME IInv, [Next]_vars PROVE L!Next \/ UNCHANGED L!vars
    BY DEF L!vars
  <2>1. CASE UNCHANGED vars
    BY <2>1, SameCalls DEF vars, settings, Kept, L!vars
  <2>2. CASE Next
    BY <2>2, CallStep, LookupStep, OpenStep, StatStep, StoreStep, WriteStep, DeleteStep, TickStep
       DEF Next, Step, L!Next
  <2> QED
    BY <2>1, <2>2
<1> QED
  BY <1>1, InitStep, Invariant, PTL DEF Spec, ImplementsLoader, L!Spec
=============================================================================

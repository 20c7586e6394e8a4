----------------------------- MODULE TemplateEnv -----------------------------
(***************************************************************************)
(* TemplateEnv::LoadTemplate and the cache of parsed templates, called by  *)
(* several threads while the files change.                                 *)
(*                                                                         *)
(* The code is LoadTemplateImpl in src/src/template_env.cpp, and the two   *)
(* file system handlers of src/src/filesystem_handler.cpp.                 *)
(*                                                                         *)
(* The text of a template is named by the number of the write that made    *)
(* it.  A file is read in one step, the step that opens it: a reader sees  *)
(* no half-written file.  The mutex m_guard makes each of the two critical *)
(* sections one step; nothing else in LoadTemplateImpl is protected.       *)
(*                                                                         *)
(* `born' and `past' are history: they are no state of the code, and no    *)
(* guard reads them.                                                       *)
(***************************************************************************)
EXTENDS Naturals, FiniteSets

CONSTANTS
    Threads,        \* the callers of LoadTemplate
    Names,          \* the names of templates
    HandlerCount,   \* the number of handlers in m_filesystemHandlers
    RealHandlers,   \* those that are a RealFileSystem; the others are in memory
    Served,         \* for each handler, the names that begin with its prefix
    AutoReloads,    \* the values m_settings.autoReload may have
    CacheSizes,     \* the values m_settings.cacheSize may have
    Broken,         \* the texts that do not parse
    MaxVersion,     \* bound: the number of writes
    MaxClock        \* bound: the number of seconds

Handlers == 1..HandlerCount
Versions == 1..MaxVersion
Absent == 0
Seconds == 1..MaxClock
NoDate == 0

ASSUME EnvAssumption ==
    /\ HandlerCount \in Nat
    /\ RealHandlers \subseteq Handlers
    /\ Served \in [Handlers -> SUBSET Names]
    /\ AutoReloads \subseteq BOOLEAN
    /\ CacheSizes \subseteq Nat
    /\ MaxVersion \in Nat
    /\ MaxClock \in Nat \ {0}
    /\ Broken \subseteq Versions

VARIABLES
    autoReload, \* m_settings.autoReload, set before the first call
    cacheSize,  \* m_settings.cacheSize, set before the first call
    clock,      \* the time, in the seconds a file's date is kept in
    written,    \* the number of writes so far
    content,    \* what each handler has under each name
    mtime,      \* the date of the last write
    cache,      \* m_templateCache
    job,        \* the call of LoadTemplate each thread is in, or was in last
    born,       \* history: when each text was written
    past        \* history: what happened to a thread's file during the call

settings == <<autoReload, cacheSize>>
files == <<settings, clock, written, content, mtime, born>>
vars == <<settings, clock, written, content, mtime, cache, job, born, past>>

NoEntry == [tpl |-> Absent, handler |-> 0, stamp |-> NoDate, asked |-> NoDate]
Cached(n) == cache[n] # NoEntry

Init ==
    /\ autoReload \in AutoReloads
    /\ cacheSize \in CacheSizes
    /\ clock = 1
    /\ written = 0
    /\ content = [h \in Handlers |-> [n \in Names |-> Absent]]
    /\ mtime = [h \in Handlers |-> [n \in Names |-> NoDate]]
    /\ cache = [n \in Names |-> NoEntry]
    /\ born = [v \in Versions |-> NoDate]
    /\ \E n \in Names :
         job = [t \in Threads |-> [pc |-> "idle", name |-> n, handler |-> 0, tpl |-> Absent,
                                   stamp |-> NoDate, outcome |-> "none"]]
    /\ past = [t \in Threads |-> [there |-> {}, current |-> Absent, asked |-> NoDate]]
-----------------------------------------------------------------------------
(* The files. *)

\* A text is written to a file, that is dated with the time; AddFile replaces
\* the content of a file in memory.  The map of a MemoryFileSystem is not
\* protected: nothing is added to it while a template is loaded.
Write(h, n) ==
    /\ written < MaxVersion
    /\ h \notin RealHandlers => \A t \in Threads : job[t].pc = "idle"
    /\ written' = written + 1
    /\ content' = [content EXCEPT ![h][n] = written + 1]
    /\ mtime' = [mtime EXCEPT ![h][n] = clock]
    /\ born' = [born EXCEPT ![written + 1] = clock]
    /\ UNCHANGED <<settings, clock, cache, job, past>>

\* A file is removed from the disk.
Delete(h, n) ==
    /\ h \in RealHandlers
    /\ content[h][n] # Absent
    /\ content' = [content EXCEPT ![h][n] = Absent]
    /\ past' = [t \in Threads |->
                  IF job[t].name = n THEN [past[t] EXCEPT !.there = @ \ {h}] ELSE past[t]]
    /\ UNCHANGED <<settings, clock, written, mtime, born, cache, job>>

Tick ==
    /\ clock < MaxClock
    /\ clock' = clock + 1
    /\ UNCHANGED <<settings, written, content, mtime, cache, job, born, past>>

\* GetLastModificationDate: a file in memory has no date; last_write_time throws
\* when there is no file.
LastModificationDate(h, n) == IF h \in RealHandlers THEN mtime[h][n] ELSE NoDate
DateThrows(h, n) == h \in RealHandlers /\ content[h][n] = Absent
-----------------------------------------------------------------------------
(* LoadTemplateImpl, one action for each step another thread can see. *)

\* A handler is asked only for the names it serves.
Has(h, n) == n \in Served[h] /\ content[h][n] # Absent

Return(t, outcome, h, v) ==
    job' = [job EXCEPT ![t] = [@ EXCEPT !.pc = "idle", !.outcome = outcome,
                                        !.handler = h, !.tpl = v]]

Call(t, n) ==
    /\ job[t].pc = "idle"
    /\ job' = [job EXCEPT ![t] = [pc |-> "lookup", name |-> n, handler |-> 0, tpl |-> Absent,
                                  stamp |-> NoDate, outcome |-> "none"]]
    /\ past' = [past EXCEPT ![t] =
                  [there |-> {h \in Handlers : Has(h, n)}, current |-> Absent, asked |-> NoDate]]
    /\ UNCHANGED <<files, cache>>

\* Mutant of UpToDate: any date will do.
UpToDateAnyDate(n) == ~DateThrows(cache[n].handler, n)

\* The entry is returned as it is.
UpToDate(n) ==
    LET date == LastModificationDate(cache[n].handler, n)
    IN \/ ~autoReload
       \/ ~DateThrows(cache[n].handler, n) /\ (date = NoDate \/ date <= cache[n].stamp)

\* Under the shared lock.
Lookup(t) ==
    LET n == job[t].name
        e == cache[n]
    IN /\ job[t].pc = "lookup"
       /\ \/ /\ Cached(n) /\ UpToDate(n)
             /\ Return(t, "cached", e.handler, e.tpl)
             /\ past' = [past EXCEPT ![t].current = content[e.handler][n], ![t].asked = e.asked]
          \/ /\ Cached(n) /\ autoReload /\ DateThrows(e.handler, n)
             /\ Return(t, "throws", e.handler, Absent)
             /\ UNCHANGED past
          \/ /\ Cached(n) => ~UpToDate(n) /\ ~DateThrows(e.handler, n)
             /\ job' = [job EXCEPT ![t].pc = "open", ![t].handler = 1]
             /\ UNCHANGED past
       /\ UNCHANGED <<files, cache>>

\* Mutant of SkipHandler: a file that cannot be opened is tried again.
SkipHandlerRetry(t) ==
    LET h == job[t].handler
    IN /\ h \in Handlers /\ ~Has(h, job[t].name)
       /\ job' = [job EXCEPT ![t].handler = IF job[t].name \in Served[h] THEN h ELSE h + 1]

SkipHandler(t) ==
    LET h == job[t].handler
    IN /\ h \in Handlers /\ ~Has(h, job[t].name)
       /\ job' = [job EXCEPT ![t].handler = h + 1]

\* What has been read is parsed, and is kept when there is to be a cache.
Parse(t, v) ==
    IF v \in Broken THEN Return(t, "parse error", job[t].handler, Absent)
    ELSE IF cacheSize = 0 THEN Return(t, "loaded", job[t].handler, v)
    ELSE job' = [job EXCEPT ![t].pc = "stat", ![t].tpl = v]

\* The handlers are asked for the file in turn.
Open(t) ==
    LET h == job[t].handler
        n == job[t].name
    IN /\ job[t].pc = "open"
       /\ \/ SkipHandler(t)
          \/ h \in Handlers /\ Has(h, n) /\ Parse(t, content[h][n])
          \/ h \notin Handlers /\ Return(t, "missing", 0, Absent)
       /\ UNCHANGED <<files, cache, past>>

\* The date is asked for when the file has been read.
Stat(t) ==
    LET h == job[t].handler
        n == job[t].name
    IN /\ job[t].pc = "stat"
       /\ IF DateThrows(h, n) THEN Return(t, "throws", h, Absent) /\ UNCHANGED past
          ELSE /\ job' = [job EXCEPT ![t].pc = "store", ![t].stamp = LastModificationDate(h, n)]
               /\ past' = [past EXCEPT ![t].asked = clock]
       /\ UNCHANGED <<files, cache>>

\* Mutant of Store: an entry that is there keeps its handler.
StoreKeepsHandler(t) ==
    LET j == job[t]
    IN /\ j.pc = "store"
       /\ cache' = [cache EXCEPT ![j.name] =
                      [tpl |-> j.tpl, stamp |-> j.stamp, asked |-> past[t].asked,
                       handler |-> IF Cached(j.name) THEN @.handler ELSE j.handler]]
       /\ Return(t, "loaded", j.handler, j.tpl)
       /\ UNCHANGED <<files, past>>

\* Under the unique lock, whatever the entry has become.
Store(t) ==
    LET j == job[t]
    IN /\ j.pc = "store"
       /\ cache' = [cache EXCEPT ![j.name] = [tpl |-> j.tpl, handler |-> j.handler,
                                              stamp |-> j.stamp, asked |-> past[t].asked]]
       /\ Return(t, "loaded", j.handler, j.tpl)
       /\ UNCHANGED <<files, past>>

Step(t) == Lookup(t) \/ Open(t) \/ Stat(t) \/ Store(t)

Next ==
    \/ \E t \in Threads, n \in Names : Call(t, n)
    \/ \E t \in Threads : Step(t)
    \/ \E h \in Handlers, n \in Names : Write(h, n)
    \/ \E h \in Handlers, n \in Names : Delete(h, n)
    \/ Tick

Spec == Init /\ [][Next]_vars

\* A thread that has called LoadTemplate is not suspended for ever.
FairSpec == Spec /\ \A t \in Threads : WF_vars(Step(t))
-----------------------------------------------------------------------------
(* What the cache promises. *)

Outcomes == {"none", "cached", "loaded", "parse error", "missing", "throws"}

EntryType == [tpl : 0..MaxVersion, handler : 0..HandlerCount, stamp : 0..MaxClock,
              asked : 0..MaxClock]
JobType == [pc : {"idle", "lookup", "open", "stat", "store"}, name : Names,
            handler : 0..(HandlerCount + 1), tpl : 0..MaxVersion, stamp : 0..MaxClock,
            outcome : Outcomes]
PastType == [there : SUBSET Handlers, current : 0..MaxVersion, asked : 0..MaxClock]

\* Every variable keeps its shape.
TypeOK ==
    /\ autoReload \in AutoReloads
    /\ cacheSize \in CacheSizes
    /\ clock \in Seconds
    /\ written \in 0..MaxVersion
    /\ content \in [Handlers -> [Names -> 0..MaxVersion]]
    /\ mtime \in [Handlers -> [Names -> 0..MaxClock]]
    /\ cache \in [Names -> EntryType]
    /\ job \in [Threads -> JobType]
    /\ born \in [Versions -> 0..MaxClock]
    /\ past \in [Threads -> PastType]

\* When a template is returned from the cache though its file has another text
\* by now, that text was written before the entry's date was asked for or in the
\* same second, or the file is in memory: a change made later is always seen.
StaleOnlyIfEarly ==
    autoReload =>
        \A t \in Threads :
            LET j == job[t] IN
            /\ j.outcome = "cached"
            /\ j.handler \in RealHandlers
            /\ j.tpl # past[t].current
            => born[past[t].current] <= past[t].asked

\* Every call returns.
EveryLoadReturns == \A t \in Threads : job[t].pc # "idle" ~> job[t].pc = "idle"

-----------------------------------------------------------------------------
(* The refinement: looking up and scanning are part of one step of Loader, the *)
(* date and the lock part of another.                                          *)

Kept == [n \in Names |-> [text |-> cache[n].tpl, handler |-> cache[n].handler]]

Phase(pc) == CASE pc \in {"lookup", "open"} -> "called"
               [] pc \in {"stat", "store"} -> "read"
               [] OTHER -> "idle"

LoaderCall(t) ==
    [phase |-> Phase(job[t].pc), name |-> job[t].name, there |-> past[t].there,
     handler |-> IF Phase(job[t].pc) = "called" THEN 0 ELSE job[t].handler,
     text |-> job[t].tpl, outcome |-> job[t].outcome]

LoaderCalls == [t \in Threads |-> LoaderCall(t)]

L == INSTANCE Loader WITH
    Texts <- Versions,
    Nothing <- Absent,
    reload <- autoReload,
    files <- content,
    kept <- Kept,
    call <- LoaderCalls

\* LoadTemplateImpl keeps the promise of Loader, whatever the other threads and
\* the files do between its steps: what it returns was in a handler at one moment
\* of the call or had been kept, no broken text is ever kept, no handler behind one
\* that has the file all the time is used, a file that is there all the time is
\* never missing, and an exception means the file has gone.
ImplementsLoader == L!Spec
=============================================================================

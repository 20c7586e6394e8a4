------------------------ MODULE TemplateEnvDatesProofs ------------------------
(***************************************************************************)
(* What the cache overlooks, for any threads, names, handlers, files and    *)
(* settings: a template is older than its file only if the file was written *)
(* before it was dated, or in the same second.                              *)
(*                                                                         *)
(* The argument is the order of dates.  A file's date is that of the write  *)
(* of its text, and not later than the clock; so the stamp of an entry is   *)
(* not later than the moment at which it was asked for, and an entry is     *)
(* returned only for a file that is not dated later than the stamp.         *)
(***************************************************************************)
EXTENDS TemplateEnvProofs

\* A file has the date of the write that made its text.
FilesDated ==
    \A h \in Handlers, n \in Names :
        /\ mtime[h][n] <= clock
        /\ content[h][n] # Absent =>
              /\ content[h][n] \in 1..written
              /\ mtime[h][n] = born[content[h][n]]
              /\ mtime[h][n] > NoDate

\* A date is asked for when it is there to be known, be it kept or about to be kept.
StampsEarly ==
    /\ \A n \in Names : cache[n].stamp <= cache[n].asked
    /\ \A t \in Threads : job[t].pc = "store" => job[t].stamp <= past[t].asked

\* A call that has been answered from the cache has met a text that was written before.
HitsEarly ==
    \A t \in Threads :
        job[t].outcome = "cached" =>
            /\ job[t].pc = "idle"
            /\ autoReload /\ job[t].handler \in RealHandlers =>
                  past[t].current \in 1..written /\ born[past[t].current] <= past[t].asked

\* Inductive.
DatesInv == IInv /\ FilesDated /\ StampsEarly /\ HitsEarly
-----------------------------------------------------------------------------
(* Each action keeps the order of dates. *)

\* What the types say of the numbers.
LEMMA DateTypes ==
    ASSUME TypeOK
    PROVE  /\ clock \in Nat /\ written \in Nat /\ MaxVersion \in Nat /\ written <= MaxVersion
           /\ \A h \in Handlers, n \in Names : mtime[h][n] \in Nat /\ content[h][n] \in Nat
           /\ \A n \in Names : cache[n].stamp \in Nat /\ cache[n].asked \in Nat
           /\ \A t \in Threads : job[t].name \in Names /\ job[t].stamp \in Nat
                                 /\ past[t].asked \in Nat /\ past[t].current \in Nat
           /\ \A v \in Versions : born[v] \in Nat
BY EnvAssumption DEF TypeOK, Seconds, EntryType, JobType, PastType

LEMMA InitDates == Init => FilesDated /\ StampsEarly /\ HitsEarly
BY DEF Init, FilesDated, StampsEarly, HitsEarly, NoEntry, NoDate, Absent

\* A step that changes no file keeps the dates of all.
LEMMA SameFilesDates ==
    ASSUME FilesDated, UNCHANGED files
    PROVE  FilesDated'
BY DEF FilesDated, files

\* A step of one call, or a new call, leaves the other ones as they are.
LEMMA OneCallDates ==
    ASSUME StampsEarly, HitsEarly, UNCHANGED files, NEW t \in Threads,
           \A s \in Threads : s # t => job'[s] = job[s] /\ past'[s] = past[s],
           \A n \in Names : cache'[n].stamp <= cache'[n].asked,
           job'[t].pc = "store" => job'[t].stamp <= past'[t].asked,
           job'[t].outcome = "cached" =>
               /\ job'[t].pc = "idle"
               /\ autoReload /\ job'[t].handler \in RealHandlers =>
                     past'[t].current \in 1..written /\ born[past'[t].current] <= past'[t].asked
    PROVE  StampsEarly' /\ HitsEarly'
BY DEF StampsEarly, HitsEarly, files, settings

\* Other calls go on as they were.
LEMMA OtherCalls ==
    ASSUME TypeOK, NEW t \in Threads,
           Lookup(t) \/ Open(t) \/ Stat(t) \/ Store(t) \/ \E n \in Names : Call(t, n)
    PROVE  \A s \in Threads : s # t => job'[s] = job[s] /\ past'[s] = past[s]
BY DEF TypeOK, Lookup, Open, SkipHandler, Parse, Stat, Store, Call, Return

LEMMA CallDates ==
    ASSUME DatesInv, NEW t \in Threads, NEW n \in Names, Call(t, n)
    PROVE  FilesDated' /\ StampsEarly' /\ HitsEarly'
<1>1. job'[t].pc = "lookup" /\ job'[t].outcome = "none"
  BY DEF DatesInv, IInv, TypeOK, Call
<1>2. UNCHANGED files /\ UNCHANGED cache
  BY DEF Call
<1>3. \A s \in Threads : s # t => job'[s] = job[s] /\ past'[s] = past[s]
  BY OtherCalls DEF DatesInv, IInv
<1>4. \A m \in Names : cache'[m].stamp <= cache'[m].asked
  BY <1>2 DEF DatesInv, StampsEarly
<1> QED BY <1>1, <1>2, <1>3, <1>4, SameFilesDates, OneCallDates DEF DatesInv

\* A hit that has compared dates is one of a file whose text has been written by then.
LEMMA LookupDates ==
    ASSUME DatesInv, NEW t \in Threads, Lookup(t)
    PROVE  FilesDated' /\ StampsEarly' /\ HitsEarly'
<1> DEFINE n == job[t].name
           e == cache[n]
<1>0. IInv
  BY DEF DatesInv
<1>1. TypeOK /\ n \in Names /\ EntriesStay
  BY DateTypes DEF DatesInv, IInv
<1>2. UNCHANGED files /\ UNCHANGED cache
  BY DEF Lookup
<1>3. \A s \in Threads : s # t => job'[s] = job[s] /\ past'[s] = past[s]
  BY <1>1, OtherCalls
<1>4. \A m \in Names : cache'[m].stamp <= cache'[m].asked
  BY <1>2 DEF DatesInv, StampsEarly
<1>5. ASSUME Cached(n), UpToDate(n), Return(t, "cached", e.handler, e.tpl),
             past' = [past EXCEPT ![t].current = content[e.handler][n], ![t].asked = e.asked]
      PROVE  FilesDated' /\ StampsEarly' /\ HitsEarly'
  <2>0. ASSUME NEW h, NEW v, Return(t, "cached", h, v)
        PROVE  job'[t].pc = "idle" /\ job'[t].handler = h
    BY <1>1, <2>0 DEF TypeOK, JobType, Return
  <2>1. job'[t].pc = "idle" /\ job'[t].handler = e.handler
    BY <1>5, <2>0
  <2>2. past'[t].current = content[e.handler][n] /\ past'[t].asked = e.asked
    BY <1>1, <1>5 DEF TypeOK, PastType
  <2>3. e.handler \in Handlers /\ e.stamp <= e.asked
    BY <1>1, <1>5 DEF EntriesStay, DatesInv, StampsEarly
  <2>4. ASSUME autoReload, e.handler \in RealHandlers
        PROVE  past'[t].current \in 1..written /\ born[past'[t].current] <= past'[t].asked
    <3>1. content[e.handler][n] # Absent
          /\ (mtime[e.handler][n] = NoDate \/ mtime[e.handler][n] <= e.stamp)
      BY <1>5, <2>4 DEF UpToDate, LastModificationDate, DateThrows
    <3>2. /\ content[e.handler][n] \in 1..written /\ mtime[e.handler][n] > NoDate
          /\ mtime[e.handler][n] = born[content[e.handler][n]]
      BY <1>1, <2>3, <3>1 DEF DatesInv, FilesDated
    <3>3. mtime[e.handler][n] \in Nat /\ e.stamp \in Nat /\ e.asked \in Nat
      BY <1>1, <2>3, DateTypes
    <3>4. mtime[e.handler][n] <= e.asked
      BY <2>3, <3>1, <3>2, <3>3 DEF NoDate
    <3> QED BY <2>2, <3>2, <3>4
  <2> QED BY <1>2, <1>3, <1>4, <2>1, <2>4, SameFilesDates, OneCallDates DEF DatesInv
<1>6. ASSUME Return(t, "throws", e.handler, Absent), UNCHANGED past
      PROVE  FilesDated' /\ StampsEarly' /\ HitsEarly'
  <2> HIDE DEF e
  <2>1. job'[t].pc = "idle" /\ job'[t].outcome = "throws"
    BY <1>0, <1>6, ReturnFields
  <2> QED BY <1>2, <1>3, <1>4, <2>1, SameFilesDates, OneCallDates DEF DatesInv
<1>7. ASSUME job[t].pc = "lookup", job' = [job EXCEPT ![t].pc = "open", ![t].handler = 1]
      PROVE  FilesDated' /\ StampsEarly' /\ HitsEarly'
  <2>1. job'[t].pc = "open" /\ job'[t].outcome = job[t].outcome
    BY <1>1, <1>7 DEF TypeOK, JobType
  <2>2. job[t].outcome # "cached"
    BY <1>7 DEF DatesInv, HitsEarly
  <2> QED BY <1>2, <1>3, <1>4, <2>1, <2>2, SameFilesDates, OneCallDates DEF DatesInv
<1> QED BY <1>5, <1>6, <1>7 DEF Lookup

LEMMA OpenDates ==
    ASSUME DatesInv, NEW t \in Threads, Open(t)
    PROVE  FilesDated' /\ StampsEarly' /\ HitsEarly'
<1>1. TypeOK /\ job[t] \in JobType /\ job \in [Threads -> JobType]
  BY DEF DatesInv, IInv, TypeOK
<1>2. UNCHANGED files /\ UNCHANGED <<cache, past>>
  BY DEF Open
<1>3. \A s \in Threads : s # t => job'[s] = job[s] /\ past'[s] = past[s]
  BY <1>1, OtherCalls
<1>4. \A m \in Names : cache'[m].stamp <= cache'[m].asked
  BY <1>2 DEF DatesInv, StampsEarly
<1>5. job[t].pc = "open" /\ job[t].outcome # "cached"
  BY DEF Open, DatesInv, HitsEarly
<1>6. job'[t].pc # "store" /\ job'[t].outcome # "cached"
  <2> DEFINE v == content[job[t].handler][job[t].name]
  <2>1. IInv
    BY DEF DatesInv
  <2>2. ASSUME NEW o \in {"parse error", "loaded", "missing"}, NEW h, NEW w, Return(t, o, h, w)
        PROVE  job'[t].pc # "store" /\ job'[t].outcome # "cached"
    BY <2>1, <2>2, ReturnFields
  <2>3. CASE SkipHandler(t)
    BY <1>1, <1>5, <2>3 DEF SkipHandler, JobType
  <2>4. CASE Parse(t, v)
    <3>1. CASE job' = [job EXCEPT ![t].pc = "stat", ![t].tpl = v]
      <4> HIDE DEF v
      <4> QED BY <1>1, <1>5, <3>1 DEF JobType
    <3> HIDE DEF v
    <3> QED BY <2>2, <2>4, <3>1 DEF Parse
  <2>5. CASE Return(t, "missing", 0, Absent)
    BY <2>2, <2>5
  <2> QED BY <2>3, <2>4, <2>5 DEF Open
<1> QED BY <1>2, <1>3, <1>4, <1>6, SameFilesDates, OneCallDates DEF DatesInv

\* The date of a file that has been written is not later than now.
LEMMA StatDates ==
    ASSUME DatesInv, NEW t \in Threads, Stat(t)
    PROVE  FilesDated' /\ StampsEarly' /\ HitsEarly'
<1> DEFINE h == job[t].handler
           n == job[t].name
<1>1. /\ TypeOK /\ job[t] \in JobType /\ job \in [Threads -> JobType]
      /\ past \in [Threads -> PastType] /\ past[t] \in PastType /\ n \in Names
  BY DateTypes DEF DatesInv, IInv, TypeOK
<1>2. UNCHANGED files /\ UNCHANGED cache /\ job[t].pc = "stat"
  BY DEF Stat
<1>3. \A s \in Threads : s # t => job'[s] = job[s] /\ past'[s] = past[s]
  BY <1>1, OtherCalls
<1>4. \A m \in Names : cache'[m].stamp <= cache'[m].asked
  BY <1>2 DEF DatesInv, StampsEarly
<1>5. job[t].outcome # "cached"
  BY <1>2 DEF DatesInv, HitsEarly
<1>6. CASE DateThrows(h, n)
  <2>1. job'[t].pc = "idle" /\ job'[t].outcome = "throws"
    BY <1>6, ReturnFields DEF DatesInv, Stat
  <2> QED BY <1>2, <1>3, <1>4, <2>1, SameFilesDates, OneCallDates DEF DatesInv
<1>7. CASE ~DateThrows(h, n)
  <2>1. /\ job' = [job EXCEPT ![t].pc = "store", ![t].stamp = LastModificationDate(h, n)]
        /\ past' = [past EXCEPT ![t].asked = clock]
    BY <1>7 DEF Stat
  <2>2. /\ job'[t].outcome = job[t].outcome /\ job'[t].stamp = LastModificationDate(h, n)
        /\ past'[t].asked = clock
    BY <1>1, <2>1 DEF JobType, PastType
  <2>3. h \in Handlers
    BY <1>2 DEF DatesInv, IInv, CallsKnow, Knows
  <2>4. LastModificationDate(h, n) <= clock
    BY <1>1, <2>3, DateTypes DEF LastModificationDate, NoDate, DatesInv, FilesDated
  <2> QED BY <1>2, <1>3, <1>4, <1>5, <2>2, <2>4, SameFilesDates, OneCallDates DEF DatesInv
<1> QED BY <1>6, <1>7

LEMMA StoreDates ==
    ASSUME DatesInv, NEW t \in Threads, Store(t)
    PROVE  FilesDated' /\ StampsEarly' /\ HitsEarly'
<1>1. /\ TypeOK /\ cache \in [Names -> EntryType] /\ job[t].name \in Names
  BY DateTypes DEF DatesInv, IInv, TypeOK
<1>2. UNCHANGED files /\ UNCHANGED past /\ job[t].pc = "store"
  BY DEF Store
<1>3. \A s \in Threads : s # t => job'[s] = job[s] /\ past'[s] = past[s]
  BY <1>1, OtherCalls
<1>4. job[t].stamp <= past[t].asked
  BY <1>2 DEF DatesInv, StampsEarly
<1>5. \A m \in Names : cache'[m].stamp <= cache'[m].asked
  BY <1>1, <1>4 DEF DatesInv, StampsEarly, Store
<1>6. job'[t].pc = "idle" /\ job'[t].outcome = "loaded"
  BY ReturnFields DEF DatesInv, Store
<1> QED BY <1>2, <1>3, <1>5, <1>6, SameFilesDates, OneCallDates DEF DatesInv

\* A new text has a number of its own, so that the dates of the others stand.
LEMMA WriteDates ==
    ASSUME DatesInv, NEW h \in Handlers, NEW n \in Names, Write(h, n)
    PROVE  FilesDated' /\ StampsEarly' /\ HitsEarly'
<1>1. TypeOK /\ written < MaxVersion /\ written' = written + 1
      /\ UNCHANGED <<settings, clock, cache, job, past>>
  BY DEF DatesInv, IInv, Write
<1>2. written \in Nat /\ MaxVersion \in Nat /\ written + 1 \in Versions
  BY <1>1, DateTypes DEF Versions
<1>3. clock \in Nat /\ clock > NoDate
  BY <1>1 DEF TypeOK, Seconds, NoDate
<1>4. born'[written + 1] = clock /\ \A v \in 1..written : born'[v] = born[v]
  BY <1>1, <1>2 DEF TypeOK, Versions, Write
<1>5. /\ content'[h][n] = written + 1 /\ mtime'[h][n] = clock
      /\ \A g \in Handlers, m \in Names :
            g # h \/ m # n => content'[g][m] = content[g][m] /\ mtime'[g][m] = mtime[g][m]
  BY <1>1 DEF TypeOK, Write
<1>6. FilesDated'
  <2> SUFFICES ASSUME NEW g \in Handlers, NEW m \in Names
               PROVE  /\ mtime'[g][m] <= clock'
                      /\ content'[g][m] # Absent =>
                            /\ content'[g][m] \in 1..written'
                            /\ mtime'[g][m] = born'[content'[g][m]]
                            /\ mtime'[g][m] > NoDate
    BY DEF FilesDated, Absent, NoDate
  <2>1. CASE g = h /\ m = n
    BY <1>1, <1>2, <1>3, <1>4, <1>5, <2>1
  <2>2. CASE g # h \/ m # n
    <3>1. content'[g][m] = content[g][m] /\ mtime'[g][m] = mtime[g][m]
      BY <1>5, <2>2
    <3>2. /\ mtime[g][m] <= clock
          /\ content[g][m] # Absent =>
                /\ content[g][m] \in 1..written
                /\ mtime[g][m] = born[content[g][m]]
                /\ mtime[g][m] > NoDate
      BY DEF DatesInv, FilesDated
    <3> QED BY <1>1, <1>2, <1>4, <3>1, <3>2
  <2> QED BY <2>1, <2>2
<1>7. StampsEarly'
  BY <1>1 DEF DatesInv, StampsEarly
<1>8. HitsEarly'
  BY <1>1, <1>2, <1>4 DEF DatesInv, HitsEarly, settings
<1> QED BY <1>6, <1>7, <1>8

LEMMA DeleteDates ==
    ASSUME DatesInv, NEW h \in Handlers, NEW n \in Names, Delete(h, n)
    PROVE  FilesDated' /\ StampsEarly' /\ HitsEarly'
<1>1. TypeOK /\ UNCHANGED <<settings, clock, written, mtime, born, cache, job>>
  BY DEF DatesInv, IInv, Delete
<1>2. /\ content'[h][n] = Absent
      /\ \A g \in Handlers, m \in Names : g # h \/ m # n => content'[g][m] = content[g][m]
  BY <1>1 DEF TypeOK, Delete
<1>3. \A t \in Threads : past'[t].asked = past[t].asked /\ past'[t].current = past[t].current
  BY <1>1 DEF TypeOK, PastType, Delete
<1>4. FilesDated'
  BY <1>1, <1>2 DEF DatesInv, FilesDated, Absent
<1>5. StampsEarly'
  BY <1>1, <1>3 DEF DatesInv, StampsEarly
<1>6. HitsEarly'
  BY <1>1, <1>3 DEF DatesInv, HitsEarly, settings
<1> QED BY <1>4, <1>5, <1>6

LEMMA TickDates ==
    ASSUME DatesInv, Tick
    PROVE  FilesDated' /\ StampsEarly' /\ HitsEarly'
<1>1. clock' = clock + 1 /\ UNCHANGED <<settings, written, content, mtime, cache, job, born, past>>
  BY DEF Tick
<1>2. clock \in Nat /\ \A h \in Handlers, n \in Names : mtime[h][n] \in Nat
  BY DateTypes DEF DatesInv, IInv
<1>3. FilesDated'
  BY <1>1, <1>2 DEF DatesInv, FilesDated
<1>4. StampsEarly' /\ HitsEarly'
  BY <1>1 DEF DatesInv, StampsEarly, HitsEarly, settings
<1> QED BY <1>3, <1>4
-----------------------------------------------------------------------------
(* The theorems. *)

\* Dates are in order in every state: those of the files, of the entries of the cache and
\* of the calls that have been answered from it.
THEOREM DatesInvariant == Spec => []DatesInv
<1>1. Init => DatesInv
  BY InitInvariant, InitDates DEF DatesInv
<1>2. DatesInv /\ IInv' /\ [Next]_vars => DatesInv'
  <2> SUFFICES ASSUME DatesInv, IInv', [Next]_vars PROVE FilesDated' /\ StampsEarly' /\ HitsEarly'
    BY DEF DatesInv
  <2>1. CASE UNCHANGED vars
    BY <2>1 DEF vars, settings, DatesInv, FilesDated, StampsEarly, HitsEarly
  <2>2. CASE Next
    BY <2>2, CallDates, LookupDates, OpenDates, StatDates, StoreDates, WriteDates, DeleteDates,
       TickDates DEF Next, Step
  <2> QED BY <2>1, <2>2
<1> QED BY <1>1, <1>2, Invariant, PTL DEF Spec

\* A template that is returned from the cache, though its file has another text by now, is one
\* whose file was changed before it was dated or in the same second, however many threads load,
\* write, delete and replace the entry (the dates that LoadTemplateImpl compares).
THEOREM ChangesAreSeen == Spec => []StaleOnlyIfEarly
<1>1. DatesInv => StaleOnlyIfEarly
  BY DEF DatesInv, HitsEarly, StaleOnlyIfEarly
<1> QED BY <1>1, DatesInvariant, PTL
=============================================================================

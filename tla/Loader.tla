-------------------------------- MODULE Loader --------------------------------
(***************************************************************************)
(* What TemplateEnv::LoadTemplate promises, whatever it does to keep it:   *)
(* the text a call returns was read from a handler at one moment of the    *)
(* call, or is one that was kept.  There are no locks, dates, clocks or    *)
(* scans here: a call is answered in one step, or in two when what it read *)
(* is kept for later calls.                                                *)
(*                                                                         *)
(* TemplateEnv implements this specification.                              *)
(***************************************************************************)
EXTENDS Naturals

CONSTANTS
    Threads,    \* the callers of LoadTemplate
    Names,      \* the names of templates
    Handlers,   \* the handlers, numbered in the order they are asked
    Served,     \* for each handler, the names it is asked for
    Texts,      \* what a file may have in it
    Nothing,    \* no text: there is no file
    Broken      \* the texts that do not parse

VARIABLES
    reload,     \* whether what has been kept is checked against its file
    files,      \* what each handler has under each name
    kept,       \* what is kept of each name: a text, and the handler it is from
    call        \* the call each thread is in, or was in last

vars == <<reload, files, kept, call>>

NothingKept == [text |-> Nothing, handler |-> 0]

\* There is a file for a handler to open under this name.
Serves(h, n) == n \in Served[h] /\ files[h][n] # Nothing

Init ==
    /\ reload \in BOOLEAN
    /\ files = [h \in Handlers |-> [n \in Names |-> Nothing]]
    /\ kept = [n \in Names |-> NothingKept]
    /\ \E n \in Names :
         call = [t \in Threads |-> [phase |-> "idle", name |-> n, there |-> {}, handler |-> 0,
                                    text |-> Nothing, outcome |-> "none"]]
-----------------------------------------------------------------------------
(* Files come, change and go.  A call knows which handlers have had its file *)
(* ever since it began.                                                      *)

Change(h, n, text) ==
    /\ files' = [files EXCEPT ![h][n] = text]
    /\ UNCHANGED <<reload, kept, call>>

Remove(h, n) ==
    /\ files[h][n] # Nothing
    /\ files' = [files EXCEPT ![h][n] = Nothing]
    /\ call' = [t \in Threads |-> IF call[t].name = n
                                  THEN [call[t] EXCEPT !.there = @ \ {h}] ELSE call[t]]
    /\ UNCHANGED <<reload, kept>>
-----------------------------------------------------------------------------
(* The call. *)

Answer(t, outcome, h, text) ==
    call' = [call EXCEPT ![t] = [phase |-> "idle", name |-> @.name, there |-> @.there,
                                 handler |-> h, text |-> text, outcome |-> outcome]]

Call(t, n) ==
    /\ call[t].phase = "idle"
    /\ call' = [call EXCEPT ![t] =
                  [phase |-> "called", name |-> n, there |-> {h \in Handlers : Serves(h, n)},
                   handler |-> 0, text |-> Nothing, outcome |-> "none"]]
    /\ UNCHANGED <<reload, files, kept>>

\* What is kept is returned.  When it is to be checked, its file is still there.
Hit(t) ==
    LET k == kept[call[t].name]
    IN /\ call[t].phase = "called"
       /\ k # NothingKept
       /\ reload => files[k.handler][call[t].name] # Nothing
       /\ Answer(t, "cached", k.handler, k.text)
       /\ UNCHANGED <<reload, files, kept>>

\* A file is read: no handler before this one has had it all the time.  The text
\* is returned, or is going to be kept first.
Read(t) ==
    /\ call[t].phase = "called"
    /\ \E h \in Handlers :
         LET text == files[h][call[t].name]
         IN /\ Serves(h, call[t].name)
            /\ \A g \in call[t].there : h <= g
            /\ IF text \in Broken THEN Answer(t, "parse error", h, Nothing)
               ELSE \/ Answer(t, "loaded", h, text)
                    \/ call' = [call EXCEPT ![t] =
                          [phase |-> "read", name |-> @.name, there |-> @.there,
                           handler |-> h, text |-> text, outcome |-> @.outcome]]
    /\ UNCHANGED <<reload, files, kept>>

\* What was read is kept, whatever is kept by now, and returned.
Keep(t) ==
    LET c == call[t]
    IN /\ c.phase = "read"
       /\ kept' = [kept EXCEPT ![c.name] = [text |-> c.text, handler |-> c.handler]]
       /\ Answer(t, "loaded", c.handler, c.text)
       /\ UNCHANGED <<reload, files>>

\* No handler has had the file all the time.
NotFound(t) ==
    /\ call[t].phase = "called"
    /\ call[t].there = {}
    /\ Answer(t, "missing", 0, Nothing)
    /\ UNCHANGED <<reload, files, kept>>

\* The file of what is kept, or of what was read, is no longer there: an exception
\* passes through the call.
Throw(t) ==
    LET c == call[t]
        h == IF c.phase = "read" THEN c.handler ELSE kept[c.name].handler
    IN /\ \/ c.phase = "called" /\ reload /\ kept[c.name] # NothingKept
          \/ c.phase = "read"
       /\ files[h][c.name] = Nothing
       /\ Answer(t, "throws", h, Nothing)
       /\ UNCHANGED <<reload, files, kept>>

Next ==
    \/ \E h \in Handlers, n \in Names : Remove(h, n) \/ \E text \in Texts : Change(h, n, text)
    \/ \E t \in Threads, n \in Names : Call(t, n)
    \/ \E t \in Threads : Hit(t) \/ Read(t) \/ Keep(t) \/ NotFound(t) \/ Throw(t)

Spec == Init /\ [][Next]_vars
=============================================================================

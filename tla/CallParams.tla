------------------------------ MODULE CallParams ------------------------------
(***************************************************************************)
(* How the parameters of a call find the arguments of what is called:      *)
(* ParseCallParamsImpl of src/src/expression_evaluator.cpp, one step for   *)
(* each turn of its loops, and what its callers make of the result: a macro *)
(* (SetupCallArgs), a callable of the application                          *)
(* (PrepareUserCallableParams), and the global function range.             *)
(*                                                                         *)
(* The arguments that no keyword names form a list that is linked in both  *)
(* directions.  The positional parameters take a stretch of that list: the *)
(* scan starts at the first mandatory argument, goes back as far as there  *)
(* are parameters, then goes on behind where it started.                   *)
(*                                                                         *)
(* A parameter is a value that tells where it was given, or an integer     *)
(* where range is called.                                                  *)
(***************************************************************************)
EXTENDS Integers, FiniteSets, SequencesExt

CONSTANTS
    Calls     \* the calls: what is called, its arguments, and the parameters

VARIABLES
    call,          \* the call
    pc,            \* "match", "first", "scan", "map", "defaults", "extras", "called"
    argIdx,
    state,         \* argsInfo: ArgState,
    before,        \*   prevNotFound
    after,         \*   and nextNotFound of each argument
    firstMandatoryIdx, prevNotFound,
    startPosArg, curPosArg, eatenPosArgs,
    mapped,        \* idx of the loop that maps positional parameters, less one
    args,          \* result.args
    isSucceeded,
    extra,         \* result.extraPosArgs and result.extraKwArgs
    outcome        \* what the callee is given

links == <<state, before, after, firstMandatoryIdx, prevNotFound>>
scan == <<startPosArg, curPosArg, eatenPosArgs>>
vars == <<call, pc, argIdx, links, scan, mapped, args, isSucceeded, extra, outcome>>

(***************************************************************************)
(* Calls and their parts.  No argument is 0; positions begin with 1.       *)
(***************************************************************************)
None == 0
Empty == <<"empty">>
Abs(n) == IF n < 0 THEN -n ELSE n

\* An argument of a callee.  default is Empty where there is none.
Arg(name, mandatory, default) == [name |-> name, mandatory |-> mandatory, default |-> default]

Count == Len(call.args)
Positionals == Len(call.pos)
Keywords == DOMAIN call.kw
Ignored(a) == a.name \in {"*args", "**kwargs"}
Unfilled == {call.args[i] : i \in {j \in 1..Count : state[j] = "NotFound" /\ call.args[j].default # Empty}}

Refused == [kind |-> "refused"]
NoOutcome == [kind |-> "none yet"]

Init ==
    /\ call \in Calls
    /\ pc = "match"
    /\ argIdx = 1
    /\ state = [i \in 1..Count |-> "NotFound"]
    /\ before = [i \in 1..Count |-> None]
    /\ after = [i \in 1..Count |-> None]
    /\ firstMandatoryIdx = None
    /\ prevNotFound = None
    /\ startPosArg = None
    /\ curPosArg = None
    /\ eatenPosArgs = 0
    /\ mapped = 0
    /\ args = <<>>
    /\ isSucceeded = TRUE
    /\ extra = [pos |-> <<>>, kw |-> <<>>]
    /\ outcome = NoOutcome

(***************************************************************************)
(* Find all provided keyword args.                                         *)
(***************************************************************************)
Matching == pc = "match" /\ argIdx <= Count

MatchIgnored ==
    /\ Matching
    /\ Ignored(call.args[argIdx])
    /\ state' = [state EXCEPT ![argIdx] = "Ignored"]
    /\ argIdx' = argIdx + 1
    /\ UNCHANGED <<call, pc, before, after, firstMandatoryIdx, prevNotFound, scan, mapped, args,
                   isSucceeded, extra, outcome>>

MatchKeyword ==
    /\ Matching
    /\ LET a == call.args[argIdx]
       IN  /\ ~Ignored(a)
           /\ a.name \in Keywords
           /\ args' = (a.name :> call.kw[a.name]) @@ args
    /\ state' = [state EXCEPT ![argIdx] = "Keyword"]
    /\ argIdx' = argIdx + 1
    /\ UNCHANGED <<call, pc, before, after, firstMandatoryIdx, prevNotFound, scan, mapped,
                   isSucceeded, extra, outcome>>

\* Mutant of FirstMandatory: the last one.
LastMandatory(i) == i

FirstMandatory(i) == IF firstMandatoryIdx = None THEN i ELSE firstMandatoryIdx

\* The argument joins the list of those that no keyword names.
MatchNothing ==
    /\ Matching
    /\ LET a == call.args[argIdx]
       IN  /\ ~Ignored(a)
           /\ a.name \notin Keywords
           /\ IF a.mandatory
              THEN /\ state' = [state EXCEPT ![argIdx] = "NotFoundMandatory"]
                   /\ firstMandatoryIdx' = FirstMandatory(argIdx)
              ELSE UNCHANGED <<state, firstMandatoryIdx>>
    /\ after' = IF prevNotFound = None THEN after ELSE [after EXCEPT ![prevNotFound] = argIdx]
    /\ before' = [before EXCEPT ![argIdx] = prevNotFound]
    /\ prevNotFound' = argIdx
    /\ argIdx' = argIdx + 1
    /\ UNCHANGED <<call, pc, scan, mapped, args, isSucceeded, extra, outcome>>

StartScan ==
    /\ pc = "match"
    /\ argIdx > Count
    /\ LET start == IF firstMandatoryIdx = None THEN 1 ELSE firstMandatoryIdx
       IN  startPosArg' = start /\ curPosArg' = start
    /\ pc' = "first"
    /\ UNCHANGED <<call, argIdx, links, eatenPosArgs, mapped, args, isSucceeded, extra, outcome>>

(***************************************************************************)
(* Determine the range for positional arguments scanning.  An ignored      *)
(* argument eats nothing.                                                  *)
(***************************************************************************)
ScanGoesOn == eatenPosArgs < Positionals /\ startPosArg <= Count
Eaten(at) == eatenPosArgs + IF state[at] = "Ignored" THEN 0 ELSE 1

EndOfScan(at) ==
    /\ pc = at
    /\ ~ScanGoesOn
    /\ pc' = "map"
    /\ UNCHANGED <<call, argIdx, links, scan, mapped, args, isSucceeded, extra, outcome>>

\* The first turn skips arguments that were given by keyword.
ScanFirst ==
    /\ pc = "first"
    /\ ScanGoesOn
    /\ LET open == {i \in startPosArg..Count : state[i] \notin {"Keyword", "Positional"}}
       IN  IF open = {}
           THEN /\ startPosArg' = Count + 1
                /\ pc' = "map"
                /\ UNCHANGED eatenPosArgs
           ELSE /\ startPosArg' = CHOOSE i \in open : \A j \in open : i <= j
                /\ eatenPosArgs' = Eaten(startPosArg')
                /\ pc' = "scan"
    /\ UNCHANGED <<call, argIdx, links, curPosArg, mapped, args, isSucceeded, extra, outcome>>

ScanBack ==
    /\ pc = "scan"
    /\ ScanGoesOn
    /\ before[startPosArg] # None
    /\ startPosArg' = before[startPosArg]
    /\ eatenPosArgs' = Eaten(startPosArg')
    /\ prevNotFound' = before[startPosArg]
    /\ UNCHANGED <<call, pc, argIdx, state, before, after, firstMandatoryIdx, curPosArg, mapped,
                   args, isSucceeded, extra, outcome>>

\* Mutant of NextPosArg: on from where the scan has gone back to.
NextOfStart == after[startPosArg]

NextPosArg == after[curPosArg]

ScanForward ==
    /\ pc = "scan"
    /\ ScanGoesOn
    /\ before[startPosArg] = None
    /\ prevNotFound' = None
    /\ IF NextPosArg = None
       THEN pc' = "map" /\ UNCHANGED scan
       ELSE /\ curPosArg' = NextPosArg
            /\ eatenPosArgs' = Eaten(startPosArg)
            /\ UNCHANGED <<pc, startPosArg>>
    /\ UNCHANGED <<call, argIdx, state, before, after, firstMandatoryIdx, mapped, args,
                   isSucceeded, extra, outcome>>

(***************************************************************************)
(* Map positional params to the desired arguments.  startPosArg walks the  *)
(* list here in the place of curArg.                                       *)
(***************************************************************************)
MapGoesOn == mapped < eatenPosArgs /\ startPosArg \in 1..Count

MapPositional ==
    /\ pc = "map"
    /\ MapGoesOn
    /\ IF state[startPosArg] = "Ignored"
       THEN UNCHANGED <<args, state>>
       ELSE /\ args' = (call.args[startPosArg].name :> call.pos[mapped + 1]) @@ args
            /\ state' = [state EXCEPT ![startPosArg] = "Positional"]
    /\ mapped' = mapped + 1
    /\ startPosArg' = after[startPosArg]
    /\ UNCHANGED <<call, pc, argIdx, before, after, firstMandatoryIdx, prevNotFound, curPosArg,
                   eatenPosArgs, isSucceeded, extra, outcome>>

EndOfMap ==
    /\ pc = "map"
    /\ ~MapGoesOn
    /\ pc' = "defaults"
    /\ UNCHANGED <<call, argIdx, links, scan, mapped, args, isSucceeded, extra, outcome>>

\* Fill default arguments (if missing) and check for mandatory.
FillDefaults ==
    /\ pc = "defaults"
    /\ args' = args @@ [n \in {a.name : a \in Unfilled} |->
                          (CHOOSE a \in Unfilled : a.name = n).default]
    /\ isSucceeded' = ("NotFoundMandatory" \notin Range(state))
    /\ pc' = "extras"
    /\ UNCHANGED <<call, argIdx, links, scan, mapped, extra, outcome>>

ExtraPositionals == SubSeq(call.pos, eatenPosArgs + 1, Positionals)

\* Fill the extra positional and kw-args.
FillExtras ==
    /\ pc = "extras"
    /\ extra' = [pos |-> ExtraPositionals, kw |-> Restrict(call.kw, Keywords \ DOMAIN args)]
    /\ pc' = "called"
    /\ UNCHANGED <<call, argIdx, links, scan, mapped, args, isSucceeded, outcome>>

(***************************************************************************)
(* What the callee is given.  A macro does not look at isSucceeded.  A     *)
(* callable of the application is given each of its arguments whose name   *)
(* is longer than one character and begins with no asterisk.               *)
(***************************************************************************)
Starred == {"*args", "**kwargs", "*context"}

SetupCallArgs ==
    /\ pc = "called" /\ call.callee = "macro"
    /\ outcome = NoOutcome
    /\ outcome' = [kind |-> "arguments", args |-> args, pos |-> extra.pos, kw |-> extra.kw]
    /\ UNCHANGED <<call, pc, argIdx, links, scan, mapped, args, isSucceeded, extra>>

PrepareUserCallableParams ==
    /\ pc = "called" /\ call.callee = "callable"
    /\ outcome = NoOutcome
    /\ outcome' =
         IF ~isSucceeded THEN Refused
         ELSE [kind |-> "arguments",
               args |-> [n \in {a.name : a \in Range(call.args)} \ Starred |->
                           IF n \in DOMAIN args THEN args[n] ELSE Empty],
               pos |-> extra.pos, kw |-> extra.kw]
    /\ UNCHANGED <<call, pc, argIdx, links, scan, mapped, args, isSucceeded, extra>>

\* int64_t: the quotient is cut off towards zero.
TruncDiv(n, d) ==
    LET q == Abs(n) \div Abs(d) IN IF (n < 0) = (d < 0) THEN q ELSE -q

\* Mutant of ItemsCount: one more.
OneMoreItem(start, stop, step) == TruncDiv(stop - start, step) + 1

ItemsCount(start, stop, step) == TruncDiv(stop - start, step)

CallGlobalRange ==
    /\ pc = "called" /\ call.callee = "range"
    /\ outcome = NoOutcome
    /\ LET valueOf(n) == IF n \in DOMAIN args THEN args[n] ELSE 0
           start == valueOf("start")
           step == IF "step" \in DOMAIN args THEN args["step"] ELSE 1
       IN  outcome' = IF ~isSucceeded \/ step = 0 THEN Refused
                      ELSE [kind |-> "list",
                            items |-> [k \in 1..ItemsCount(start, valueOf("stop"), step) |->
                                         start + step * (k - 1)]]
    /\ UNCHANGED <<call, pc, argIdx, links, scan, mapped, args, isSucceeded, extra>>

Next ==
    \/ MatchIgnored \/ MatchKeyword \/ MatchNothing
    \/ StartScan \/ ScanFirst \/ ScanBack \/ ScanForward \/ EndOfScan("first") \/ EndOfScan("scan")
    \/ MapPositional \/ EndOfMap
    \/ FillDefaults \/ FillExtras
    \/ SetupCallArgs \/ PrepareUserCallableParams \/ CallGlobalRange

Spec == Init /\ [][Next]_vars

(***************************************************************************)
(* Properties.                                                             *)
(***************************************************************************)
Parsed == pc = "called"

\* The arguments that no keyword names, in the order of the callee.
Open == SelectSeq([i \in 1..Count |-> i],
                  LAMBDA i : ~Ignored(call.args[i]) /\ call.args[i].name \notin Keywords)

NameAt(k) == call.args[Open[k]].name

\* The arguments that positional parameters are bound to, in order.
Bound == SelectSeq([k \in 1..Len(Open) |-> k], LAMBDA k : state[Open[k]] = "Positional")

\* Each parameter of a call is in exactly one place: bound to one argument, or
\* handed on as an extra one in the order of the call; a keyword only ever means
\* the argument of its name.  The callee is given all of them, save the one that a
\* callable's *context, an argument like any other to the scan, has taken.
NothingLost ==
    /\ \A i, j \in 1..Len(Bound) : i < j => Bound[i] < Bound[j]
    /\ call.pos = [i \in 1..Len(Bound) |-> args[NameAt(Bound[i])]] \o extra.pos
    /\ \A n \in Keywords :
          IF \E a \in Range(call.args) : a.name = n
          THEN args[n] = call.kw[n] /\ n \notin DOMAIN extra.kw
          ELSE n \in DOMAIN extra.kw /\ extra.kw[n] = call.kw[n]
    /\ outcome.kind = "arguments" =>
          Range(call.pos) \cup Range(call.kw) \subseteq
             Range(outcome.args) \cup Range(outcome.pos) \cup Range(outcome.kw)
             \cup (IF call.callee = "callable" /\ "*context" \in DOMAIN args
                   THEN {args["*context"]} ELSE {})

\* The positional parameters fill one stretch of the open arguments without a gap:
\* it covers the first mandatory one, begins as early as the number of parameters
\* allows, and leaves parameters over only when it reaches the last argument.
\* Without an open mandatory argument, only the first argument of the callee can
\* be the start; when that one is given by keyword a single parameter is taken, and
\* when it is *args none is.  What is left over is not lost.  (Two linked lists and
\* three indices decide this, and each parameter is copied in another loop.)
PositionalsFillAStretch ==
    Parsed =>
      /\ NothingLost
      /\ Positionals > 0 /\ Open # <<>> =>
           LET mandatory == {k \in 1..Len(Open) : call.args[Open[k]].mandatory}
               first == IF mandatory = {} THEN 1 ELSE CHOOSE k \in mandatory : \A m \in mandatory : k <= m
               low == IF first > Positionals THEN first - Positionals + 1 ELSE 1
               high == IF low + Positionals - 1 < Len(Open) THEN low + Positionals - 1 ELSE Len(Open)
               ignoredFirst ==
                   \E i \in 1..Open[1] - 1 : Ignored(call.args[i])
           IN  Range(Bound) =
                 CASE mandatory # {} \/ Open[1] = 1 -> low..high
                   [] mandatory = {} /\ ignoredFirst -> {}
                   [] OTHER -> {1}

\* A callee as Python has them: what must be given comes first, *args and **kwargs
\* last; and a call in which no argument is given twice.
PythonStyle ==
    /\ \A i, j \in 1..Count : i < j =>
          /\ call.args[j].mandatory => call.args[i].mandatory
          /\ Ignored(call.args[i]) => Ignored(call.args[j])
    /\ \A i \in 1..Count : call.args[i].name \in Keywords => i > Positionals

\* Such a call binds as Python binds it: the i-th parameter to the i-th argument,
\* the rest to their defaults; it is refused exactly if an argument that must be
\* given is not.  (The scan that serves range(stop) and range(start, stop) must
\* not be seen by macros and callables.)
BindsAsPython ==
    Parsed /\ call.callee # "range" /\ PythonStyle =>
        LET named == {i \in 1..Count : ~Ignored(call.args[i])}
            given(i) == i <= Positionals \/ call.args[i].name \in Keywords
            value(i) == CASE i <= Positionals -> call.pos[i]
                          [] call.args[i].name \in Keywords -> call.kw[call.args[i].name]
                          [] OTHER -> call.args[i].default
        IN  /\ isSucceeded <=> \A i \in named : call.args[i].mandatory => given(i)
            /\ \A i \in named :
                  LET n == call.args[i].name
                  IN  IF value(i) = Empty \/ (~given(i) /\ call.args[i].mandatory)
                      THEN n \notin DOMAIN args
                      ELSE n \in DOMAIN args /\ args[n] = value(i)

\* What Python's range gives.
PythonRange(start, stop, step) ==
    LET inside == {k \in 0..Abs(stop - start) :
                     IF step > 0 THEN start + step * k < stop ELSE start + step * k > stop}
    IN  [k \in 1..Cardinality(inside) |-> start + step * (k - 1)]

\* What range is asked for, by its documented forms range(stop), range(start, stop)
\* and range(start, stop, step): positional parameters stand for the names that no
\* keyword takes, in order, but a single one is the stop.
Asked(name, default) ==
    LET free == SelectSeq(<<"start", "stop", "step">>, LAMBDA n : n \notin Keywords)
        place == CHOOSE k \in 1..Len(free) : free[k] = name
        single == Positionals = 1 /\ "stop" \notin Keywords
    IN  CASE name \in Keywords -> call.kw[name]
          [] name \notin Keywords /\ single -> IF name = "stop" THEN call.pos[1] ELSE default
          [] OTHER -> IF place <= Positionals THEN call.pos[place] ELSE default

\* range gives the items that Python's range gives; but the last one is missing when
\* step does not divide the distance.
RangeIsPythons ==
    Parsed /\ call.callee = "range" /\ outcome.kind = "list" =>
        LET start == Asked("start", 0)
            stop == Asked("stop", 0)
            step == Asked("step", 1)
            items == PythonRange(start, stop, step)
        IN  outcome.items = IF items # <<>> /\ Abs(stop - start) % Abs(step) # 0 THEN Front(items)
                              ELSE items
=============================================================================

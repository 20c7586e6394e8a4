# A TLA+ model of Jinja2Cpp

Jinja2Cpp is a C++ implementation of the Jinja2 template language. A template is
read from a file system, cut into text blocks, parsed into a tree of renderers,
kept in a cache, and rendered with the values of its caller. This directory
holds TLA+ modules of the parts whose control is hard to test, the TLC
configurations that check them, and theorems checked by TLAPS.

## The system and its parts

| part | code | state | operations | module |
|---|---|---|---|---|
| rough parser | `src/src/template_parser.h` | the current block, the lists of text blocks and lines | DoRoughParsing, ParseRoughMatch, StripBlockLeft/Right, FinishCurrentBlock | `RoughParser` |
| lexer | `src/src/lexer.*`, `lexertk.h`, `template_parser.h` | the tokens, and `errno` | the scanner, Preprocess, RangeToNum | `Lexer` |
| fine parser | `src/src/template_parser.h`, `.cpp` | the statement stack, the bodies under construction, the errors | DoFineParsing, one handler for each keyword | `StatementsParser` |
| expression parser | `src/src/expression_parser.*` | the position in the tokens | the recursive descent | `ExpressionParser` |
| call parameters | `src/src/expression_evaluator.cpp` | the marks and links of the arguments | ParseCallParams, range | `CallParams` |
| expression evaluator | `src/src/expression_evaluator.cpp` | none, apart from the render context | operators, calls, tuples, dictionaries | `Evaluator` |
| values, testers, filters | `src/src/value_visitors.h`, `internal_value.*`, `testers.cpp`, `filters.cpp`, `string_converter_filter.cpp` | none | operators, subscripts, tests, filters | `Values`, `Filters`, `StringFilters`; ownership in `ValueLifetimes` |
| statement renderers | `src/src/statements.cpp` | scopes, the loop variable, the bound names | one Render for each statement | `ForLoop` for `{% for %}`, `RenderTree` for the others |
| render context | `src/src/render_context.h` | the list of scopes, external and global values, the bound scope | EnterScope, ExitScope, FindValue, Clone | `RenderTree` |
| template | `src/src/template.cpp`, `template_impl.h` | source, renderer, metadata; copies share them | Load, LoadFromFile, Render, GetMetadata | `TemplateObject` |
| environment | `src/src/template_env.cpp` | the handlers, the caches, the globals, one mutex for both (`m_guard`) | LoadTemplate, AddGlobal, RemoveGlobal, ApplyGlobals | `TemplateEnv`; the globals in `TemplateObject` |
| file systems | `src/src/filesystem_handler.cpp` | the files in memory | OpenStream, GetLastModificationDate, AddFile | `TemplateEnv` |
| serializers, error reports, reflection | `src/src/serialize_filters.cpp` and others | none | formatting | none |

The parts meet in few places. A template calls the rough parser, then the fine
parser, which calls the expression parser for each expression, and keeps the
renderer it gets. The environment builds a template for each file and hands out
copies that share it. Rendering walks the renderers with a render context;
`extends`, `include` and `import` call the environment from inside a rendering.
Nothing runs concurrently inside a template; the environment is what threads
share.

What is hard to get right, with its line in the source, is listed under
`hazards` in `PROJECT.json`. In short:

- the fine parser pops records of its stack before it looks at what they are,
  casts what it finds without a check, and never looks at the stack at the end;
- the environment reads a file, dates it and stores it in three steps with no
  lock held over them, while files change and other threads do the same;
- the loop reads its list ahead by one, and replaces the enumerator under itself
  when the body asks for `loop.length`;
- globals and template sources are pointed into by what outlives them;
- inheritance and inclusion are implemented by state left in scopes and by
  exceptions that pass through them.

What makes each part correct:

- *parser*: the tree is in the order of the source, each renderer has one place
  in it, nothing that was parsed disappears without an error, parsing returns;
- *environment*: what is cached was in its file, what is returned is not older
  than the call unless the date says it is current, what is there is found,
  calls return;
- *loop*: each item that passes the `if` part is rendered once and in order, and
  what the body sees of the loop is the item's place among them;
- *render context*: each scope entered is left on every path, also an
  exceptional one, and a name means the innermost scope that has it;
- *template*: a failed Load changes nothing that a rendering uses;
- *call parameters*: each argument is bound to one parameter, as in Python.

## The modules

### StatementsParser

`Next` is one step for each text block: `Consume(keyword)` with the handler of
the keyword, or `Finish` after the last. The kinds of block and the form of a
statement's own tokens (`ok`, `bad`: ill formed, `tail`: well formed with more
tokens behind) are chosen freely, so TLC goes through all templates of a length.
A template is not stored: its blocks are the steps taken.

`stack` is `statementsStack`. A record of it is the number of the block that
opened it; `kind` is its type, `comp` the composed renderer of its body,
`branches` the else branches, `blocks` the map of an ExtendsStatement. `0` is the
root. A handler that returns an error before it has touched anything is
`Reject`; the handlers that fail *after* popping (`endfor`, `endif`,
`endblock`) keep the popped stack, as in the code. `outcome = "undefined"` is a
`back()` of an empty list.

Trailing tokens are looked at by `Parse` after the handler has done its work,
which is why `Conclude` only adds an error.

### RoughParser

One step handles one match of the regular expression (`ParseRoughMatch`), with
everything the handler does: the block it finishes, the white space it strips,
the line it counts. A template is a sequence of symbols; `MatchesAt` is the
regular expression (external), an alternative for each token, leftmost and in
the order of the alternatives. `blocks` are the text blocks as ranges of
offsets, `lines` the table `OffsetToLinePos` searches when an error is reported.

### Lexer

Blocks follow one another on one thread. The characters of a block are chosen
one by one (`Write`), then scanned (`ScanOperator`, `ScanNumber` and so on, one token
a step, as `scan_token` of lexertk), then typed and converted (`Preprocess`). All that
stays from a block to the next is `erange`, the `errno` that `RangeToNum` reads and nobody
sets back. A number is its spelling; it is out of range when it has more than
`MaxDigits` digits, two in the run, so that one in range, one out of range and one
after it fit in a block. `RangeToNum` copies it into a buffer whatever its length: with
`BufferSize` characters (35 in the code, 6 in the run) or more it becomes an integer or a
double, leaves any `errno`, or ends the program, all of which the run goes through.
`disturbed` is history: a number of this thread was out of range or did not fit.

### ExpressionParser

The parser keeps nothing but its position, so each of its functions is an operator
from a position to an outcome: a tree and the position behind it, or an error and
its token. A step scans one lexeme more of a text (`Scan`), writes down an expression
somebody means (`Write`), or parses what is there (`Parse`). The references are
`Yields`, the texts of a tree, and `WellShaped`, the nesting the priorities ask for.

### CallParams

`ParseCallParamsImpl`, one step for each turn of its loops, with the fields
`prevNotFound` and `nextNotFound` that link the arguments no keyword names. Then
what the callers make of it: SetupCallArgs of a macro,
PrepareUserCallableParams of a callable, CallGlobalRange. The references are Python's
binding (in `BindsAsPython`, for the calls of `PythonStyle`) and Python's range. Names
of arguments are assumed to be distinct.

### Values, StringFilters, Filters, Evaluator

`Values` has the kinds of values, each in the forms the code has for it (a
string owned or a view; a list with an index, one that can be walked, a
generator), with arithmetic, comparison, subscripts, conversions and tests.
`StringFilters` and `Filters` have one operator for each filter, `Evaluator` the
steps of an expression: a value goes through filters, operators, subscripts, tests,
tuples, dictionaries, the `if` part and calls. `last` keeps the step that was taken
and what it began with, so that an invariant can compare the two.

Where the library leaves the outcome open (the order of equal items after
`std::sort`, of keys in an unordered map), an operator has the set of outcomes.
What undefined behaviour leaves is the value `unknown`, an enumeration that never
ends is `endless`, an exception is `thrown`. Numbers are exact fractions: overflow
of `int64_t` and rounding are left out; so are wide strings, the spelling of
numbers, and the callable a map may hold under the name `value()`, which a subscript
that ends at such a map calls (`internal_value.cpp:217`). `==` of doubles allows for a
difference (`AlmostEqual`), a part of their sum: 1/`Closeness`, 50 in the run and
1/(6 epsilon) in the code, so that values of the run are near each other, also three in a
row of which the outer two are not.

### ValueLifetimes

Who keeps a value alive. A value that a function returns by value is a tree of its
own; what is taken out of it looks into it and carries its parent data
(`SetParentData`). `Living` are the values a template still has: the one under
evaluation, its variables, those of the running loop. A value dangles when it looks
at a tree that no living value owns.

### TemplateEnv

Threads call `LoadTemplate` while files are written and deleted. The call is cut
where another thread can come between: `Lookup` (under the shared lock), `Open`
for each handler in turn, `Stat` (GetLastModificationDate), `Store` (under the
unique lock). A critical section of `m_guard` is one step, so the mutex itself is
not a variable. Texts are named by the number of the write that made them.

Assumptions on the world: a file's text is read when it is opened (no half
written files); dates are seconds of one clock that does not go back, and are
not set by hand; `MemoryFileSystem::AddFile` is not called while a template is
being loaded, for its map is not protected; the settings and the list of
handlers do not change after the first call. Custom handlers are not modelled.

`born` and `past` are history variables for the properties. No guard reads them.

### Loader

What LoadTemplate promises, without locks, dates, clocks or scans: a call is
answered in one step, or in two when what it read is kept. `TemplateEnv`
instantiates it with a refinement mapping: `lookup` and `open` are one phase of a
call (`called`), `stat` and `store` another (`read`); the cache without its dates is
`kept`. `ImplementsLoader` is checked by TLC and proved in `TemplateEnvProofs`.
Loader says that what is returned was in a handler at one moment of the call, or
had been kept; that no broken text is kept; that no handler *behind* one that has
had the file all the time is used; that a file that is there all the time is never
missing; and that an exception means the file has gone. Each of these can fail in
an implementation in steps, because files and cache change between them.

### TemplateObject

One TemplateImpl, which copies of a Template and the cache share, and the globals of
the environment. A thing that points into memory of another owner has the number of
what it points to; it dangles when the owner has another number by now. Either the
calls on a template follow each other (`serial`), or it has been loaded once and all
calls but Load overlap, as for a template out of a cache. ApplyGlobals takes the lock,
converts the globals one step each (`ConvertGlobal`) and lets it go (`EndApply`);
AddGlobal and RemoveGlobal wait for it. The rendering afterwards is not under it, and
goes on reading the values it has views of. `Writers` and `Readers` say who uses which
member of the template, and the map of globals, at each place of a call; `ValueWriters`
and `ValueReaders` who uses the value of a global.

### ForLoop

One rendering of a `{% for %}`: `Enter` starts the enumerator, `EnterBody` (or
`Skip`) shifts `prevValue`, `curValue`, `nextValue` and reads one item ahead,
`AskLength` is the lazy `loop.length`, `LeaveBody`, `EndLoop` and `Leave` close
scopes. `form` is the statement with its list: the number of items, which of
them pass the `if` part, whether the list knows its size, how many values an
item holds, whether there is an else branch. An item is named by its place in
the list; `Moved` is what a value is after `std::move`. `recursive` loops are
not modelled, and the `if` part gives an item the same verdict whenever it is
evaluated.

### RenderTree

One rendering of a template that may extend, include and import others. The C++
call stack is the variable `stack`: a frame for each body being rendered and for
each handler that waits for one. `todo` are the statements left of the body, and
`end` is the handler that goes on when it is empty, with the local values it
needs (the previous `caller`, the names an include has left to try). So a
statement that renders a body is two actions, its beginning and its end (`With`
and `EndWith`, `Import` and `EndImport`), and one that calls is three: the
statement, the entry into what is called, and the end.

`ctxs` are the RenderContexts that are alive: the caller's, and those that
handlers have made with `Clone`. Each is the list of scopes with the external
values and the bound scope; `FindValue` looks through them in the order of the
code. `Clone(FALSE)` starts with a scope that has an empty `self` only. `out`
are the strings being written: the caller's, and those of `set`, `filter`,
`import`. A handler that returns, or that an exception passes through, takes the
contexts and strings it made with it (`ReturnFrom`); an exception (`Raise`) is
caught by the innermost include if it is FileNotFound, and by Render otherwise.
`kept` is the renderer an import statement keeps. A value knows whether it has
been moved from (`MovedFrom`), for `ImportNames` moves what it imports.

Text is words; a filter is a word in front. The arguments of a call are variables and
for the first parameters; the other ways to bind them are in `CallParams`. A `set` with several names and `do` are not modelled, nor are macros
called in the middle of an expression, where errors come the same way. The only
place for `extends` is the end of a template, for the parser puts all that
follows it into it, and no statement around it can be closed any more.
`ProgramsAssumption` says so of the templates and of `Bodies`, the bodies of the
statements in them, and that the file that is rendered is there;
`ValuesAssumption` says that the values given from outside are data.

## What is checked

| run | shows | bounds | states |
|---|---|---|---|
| `parser_all` | the root stays while there is no error; no renderer is lost silently; the tree is in the order of the source; casts; closed statements do not change | all 27 kinds of block in all forms, 4 blocks: enough for a statement with a branch, its end tag and a leaf behind it; text, conditions, loops and inheritance without an error so far, 6 blocks: two nested statements with a branch, or two blocks of one extends | 2 567 430 |
| `rough_blocks` | blocks follow one another between delimiters of their kind; only markup and the white space asked for is in no block; errors are reported at their place | all texts of 3 delimiters and characters, one block or raw block with every sign and white space around it, line statements in every company; all settings | 209 293 |
| `lexer_blocks` | tokens cover the text, are the longest, and mean what they spell | 12 characters in blocks of 4, numbers and strings in blocks of 6, operators in blocks of 4; any number of blocks; integers of 2 digits are in range, numbers of 5 characters fit the buffer | 1 288 234 |
| `expr_texts` | an accepted text is used whole and nested by the priorities; expressions are read as they were meant; errors name the token at fault | all texts of 3 of 30 lexemes, 5 to 7 lexemes of one part of the grammar; expressions of two levels of operators | 366 982 |
| `call_params` | positional arguments fill one stretch of the arguments, as in Python where Python accepts the call; range | all signatures of 3 arguments of a macro, 4 of a callable, with `*args`, `*context` in any place; one parameter too many, any keywords; range of -2..3 | 108 636 |
| `evaluator_chains` | the form of a value does not matter; items are kept; sorting; operators agree; conversions | values of every kind, 2 steps: what a filter makes, and what the next makes of that | 318 355 |
| `lifetimes_chains` | one access below a temporary is kept alive; a loop stays readable | 2 returned values, of depth 3, 11 steps: a loop over a part of one whose body uses another | 2 355 173 |
| `for_rounds` | the items rendered, the loop variable, unpacking | 4 items, 1 or 2 variables: first, last and two in the middle, so that an item is neither at an end nor next to one that is read ahead | 204 032 |
| `render_all` | a statement's body does not disturb the scopes around it, also when an exception is caught; which renderers blocks ask; arguments; which macros an import leaves in place; inheritance renders what its definition says | 1768 sets of up to three templates, some of them missing: chains of two and three `extends` with blocks that are overridden, scoped, nested and call `super`; include, import, macro and call with and without context, nested in each other; 20 frames | 34 112 |
| `object_shared` | what a rendering reads is in memory; success means loaded; races; globals are those of one moment | 2 users, 3 loads, 2 metadata documents, 2 globals changed twice | 3 151 552 |
| `object_globals` | *violated*: AddGlobal writes a value that a rendering reads | as `object_shared` | |
| `env_reload` | LoadTemplate implements Loader; a change is overlooked only if it was made before the file was dated; every call returns | 2 threads, 1 name, a file in memory before one on the disk, 3 writes, the second of which does not parse, 3 seconds, with and without a cache and reloading | 339 264 |

Two blocks, two threads, two users, two steps are where the hazards begin: each of them
takes two parties, or something done and something done to it afterwards. The third
write and the third second are there so that one can come before, between and after the
steps of a call.

The violated run is a disagreement between the code and its documentation.
`template_env.h:179` says of AddGlobal, and `:193` of RemoveGlobal, "Method is
thread-safe", but Render keeps views of, and references to, values inside the map of globals
(`template_impl.h:231`) and reads them after `m_guard` has been let go. In the trace one
thread renders a template that uses a global, and another adds the same global again:
it assigns to the value that the first one is reading.

Where a property would be broken by a known case, it names that case and holds for
all others. These cases, by what the code does there:

*Parsing.* `{% else %}{% endif %}text`: `endif` pops the else branch and then the root;
the next raw text calls `back()` of an empty list (`template_parser.cpp:292`,
`template_parser.h:654`). It happens only after an error (`CleanKeepsRoot`). A
statement without its end tag is not reported, though `error_info.h:36` has a code for
it, and its body is not rendered: what is still open at the end is all that
`NothingLostSilently` leaves out.

*White space and lines.* `{{-}}` gives a block whose start is behind its end. A line
statement after raw text swallows the text before it, and a one-line template that
begins with `#` is a line statement though `useLineStatements` is off. An end delimiter
behind a quote is skipped. `{% raw %}-x` loses its `-`. `{{`, `{%` or `{#` that is not
closed at the end is accepted. A new line inside a raw or meta tag is not counted, and
the offset of a new line is reported as 1:1. `lstripBlocks` also strips blanks between
blocks in the middle of a line, where `template_env.h:38` promises what Jinja2 does.

*Tokens.* A number of 35 characters or more overruns the buffer it is converted in
(`template_parser.h:101`). `errno` is never set back: after one integer out of range every
later integer literal of the thread is a double. `;` ends a block, and the rest of it is dropped.
`1e2e3` is one number.

*Expressions.* A string that spells a keyword acts as the keyword (`{{ 'not' }}` is an
error). `none` is refused. Constants cannot be subscripted or called. `**` binds weaker
than `+` and `*`; `~` takes comparisons and `and` to its right; `-a|f` is `f(-a)`;
`not a == b` is `(not a) == b`; comparisons do not chain. In round brackets any token
separates, and without a comma all but the first expression are dropped: `(a b)` is
`a`. Of two equal keys the last wins. `{{ a[( }}` goes on with a null pointer
(`expression_parser.cpp:333`) where `template.h:107` promises a diagnostic.

*Calls.* Without an open mandatory argument, and with the first argument given by
keyword, only one positional argument is bound. A macro ignores that its arguments
could not be bound. `*context` takes a positional argument, though
`user_callable.h:370` says it takes the context. range loses its last item when the
step does not divide the distance. Any value that converts to the integer 1 is called
as `range`. `loop.cycle()` without arguments divides by zero; with `loop` set to
something else it uses a null pointer (unknown in the model).

*Values.* Doubles that are near each other are `==`, and one of them `<` the other all the
same (`value_visitors.h:540`); so `==` of doubles is not transitive, and an infinity is `==`
to every finite number but not to itself. The truth of a double is inverted: nearly zero is true. `not` of any list or
map is true. A list without a size is true when it is empty. An owned string
subscribed with an owned string gives that string, a view nothing. Lists and maps, and
values of two kinds, are neither `==` nor `!=`; booleans have no `>`. join empties what
it has when an item is no string; sum starts again after an undefined item; the maximum
of a generator loses its first item; unique over a list without size gives undefined
items; join and sum with an attribute over such a list never end; slice takes the
length of a row for their number, and for 0 is undefined; batch of an empty list is
nothing; round's ceil and floor go from and to zero; `''|int` is 0; replace with a
count looks into what it has put in; truncate leaves only the mark of one long word,
and a negative length is undefined; camelize, wordwrap, underscorize and escapecpp give
an empty text; `1//0` is undefined. An unknown filter throws while rendering, an unknown
test is false, an unknown macro in applymacro gives nothing.

*Lifetimes.* `SetParentData` takes the data of a value but not the parent it carries, so
two accesses below a value that was returned by value (`{{ f.a.b }}` of a callable's
ValuesMap) look into memory that is gone. sort, map, select, reject, groupby and attr
set no parent; list replaces it; a callable or filter that returns its argument drops it.

*Loops.* When `loop.length` is asked for first in the last round it is one too many, and
there is a round more (`statements.cpp:75`; `forloop_test.cpp:314` expects 3 of 3). An
item with too few values leaves the variables of an earlier one in place.

*Statements.* In a chain of three templates the override *nearest* to the root wins, and
`super` is the root's block; Python's Jinja2 takes the farthest, with the one below as
`super`. `extends` leaves a pointer to its local renderer in a scope; it is followed
after `extends` has returned when an include or import copied it (`AskDead`). An
include takes a FileNotFound from inside the included template for its own, and renders
the next name after what the first has written. An import keeps the renderer of the
first name for all later ones. The `name`, `arguments`, `defaults`, `varargs` and
`kwargs` of a macro overwrite parameters of these names. A template that imports under
a namespace one that has itself imported leaves the inner one's names in a module that
has been moved from, and so does an overridden block after `{% set self %}`
(`crashed`). An import moves the macros it takes out of their template's names
(`statements.cpp:684`): one that calls another then finds an empty function, and the
rendering ends with UnexpectedException. A macro that hands its caller on, `{% call inner() %}{{ caller() }}{% endcall %}`,
calls that body from itself until the C++ stack is used up (`statements.cpp:804`).

*Environment.* A file changed between being read and being dated is cached with the old
text under the new date, and is not reloaded (`template_env.cpp:63`;
`template_env.h:43` says every change is). LoadTemplate throws when a cached file has
been deleted. `cacheSize` is only compared with zero, so the cache has no bound. An entry
from memory is never checked again (`filesystem_handler_test.cpp:157` wants it so).
AddGlobal and RemoveGlobal write values that renderings read, as said above.

*Template.* Load replaces the text before it parses, so a failed Load leaves the old
renderer pointing into a text that is gone; LoadFromFile of a missing file reports
success. GetMetadata writes members that copies, and the cache, share; so does the first
rendering of an import statement.

Deadlock is not checked where the program ends: parsing, a call, a loop and a rendering
stop. The environment's threads never do, and `Call` is always possible; `Lexer` goes on
with the next block.

Fairness is assumed in one run only, `env_reload`: a thread that has called
`LoadTemplate` takes its next step some time (`WF_vars(Step(t))`). No lock is
held outside a step, so a thread can only be delayed by the scheduler. Nothing
is assumed of the callers, of the clock or of those who change the files. The other
components are sequential, or end by their bounds; termination of what they
compute is part of evaluating their operators.

Every property has a mutant in its module (`Mutant of ...`): a plausible mistake
in the code it is about, with which TLC finds it violated.

## What is proved

`StatementsParserProofs` proves for templates of every length, any block names
and settings:

- `TypeCorrect`: `Spec => []TypeOK`.
- `CastsAreRight`: `Spec => []BlockOnExtends`, the casts of `ParseEndBlock`, in
  templates with errors too.
- `RootStays`: `Spec => []CleanKeepsRoot`: the empty list is met after an error only.

The argument goes through `Shape`: each of the 25 handlers does one of eight
things to the tree (it leaves it alone, meets an empty stack, reports an error and
perhaps pops records, pushes one, adds a leaf, adds and pushes an extends, closes
a statement into the one below, puts a block into its extends). `StepHasShape` proves that every step of
`Next` has one of these shapes, with one step of the proof for each handler;
`ShapeType` and `ShapeStack` prove the invariants shape by shape.

The last two theorems are not inductive by themselves. `StackInv` adds what they
need: a block that has not been handled has no kind (`Fresh`), so that giving it
one does not change the kind of a record on the stack or of a bound block; what is
on the stack has a kind (`Made`); and the root alone is a TemplateRoot (`Rooted`),
because what makes `back()` undefined is that `endif` finds no record at the bottom
that is not an else branch, which cannot be while the root is there. The assumptions
are those of `ParserAssumption`: that `NoName` is not the name of a block, and the
ranges of the settings. `AppendFacts`, `PrefixFacts` and `SuffixFacts` are the
facts about sequences the rest uses.

`TemplateEnvProofs` proves for any threads, names, handlers, files, broken texts and
settings:

- `Implementation`: `Spec => ImplementsLoader`.
- `Invariant`: `Spec => []IInv`, which it rests on.

A step maps to a step of Loader or to none (`CallStep`, `LookupStep`, ..., `TickStep`, one
lemma for each action), but only in states where `IInv` holds. Besides the types it says
three things. `EntriesStay`: an entry's handler exists and, in memory, still has the
file, so that a hit that has compared no date is still one of a file that is there.
`StillThere`: a file that has been there all the time of the call is there. `CallsKnow`:
a call that asks the handlers has not passed one that has had the file all the time,
which makes `missing`, and the handler it reads from, right. `OneCall` and
`OneLoaderCall` are what every step of one call shares: the other calls go on as they
were. The assumption is `EnvAssumption`, the ranges of the constants.

`TemplateEnvDatesProofs` adds, under the same assumption:

- `ChangesAreSeen`: `Spec => []StaleOnlyIfEarly`, from `DatesInvariant`: `Spec => []DatesInv`.

The invariant is the order of dates. A file has the date of the write that made its text, and
that is not later than the clock (`FilesDated`); hence a stamp is not later than the moment
at which it was asked for, in the cache and in the calls about to store (`StampsEarly`). A hit
compares the date of the file with the stamp, so the text it meets was written before that
moment, and what is written later has a greater number and does not change that
(`HitsEarly`).

`StatementsParserTreeProofs` goes on where `StatementsParserProofs` ends, over the same eight
shapes:

- `OrderKept`: `Spec => []DocumentOrder`, `NothingIsLost`: `Spec => []NothingLostSilently`,
  both from `TreeInvariant`: `Spec => []TreeInv`.
- `ClosedStaysFinal`: `Spec => ClosedIsFinal`, an action property.

`DocumentOrder` is kept because what a handler adds follows all that has been handled
(`StackHandled`), and a statement that is closed follows what is in the body below it.
`NothingLostSilently` is not inductive: to close a statement must not replace branches it
had (`OpenUnbranched`), and to bind a block must replace only an earlier one of the same
name (`BlocksNamed`, `BlocksInOrder`). The assumption is still `ParserAssumption`.

`TemplateObjectProofs` proves for any number of users, names, loads and metadata documents:

- `TextStaysAlive`: `Spec => []TextIsAlive`, `SuccessIsLoaded`: `Spec => []SuccessMeansLoaded`,
  `OnlyKnownRaces`: `Spec => []RacesAreKnown`, `GlobalsAreOfOneMoment`:
  `Spec => []GlobalsOfOneMoment`.
- `ObjectInvariant`: `Spec => []ObjectInv`, which they rest on.

`OnlyKnownRaces` is about the members of the template and the map of globals. It leaves
out the metadata and import statements, unless calls on the template follow each other,
and says nothing of the values in the map, of which `object_globals` shows that they are
written while they are read.

The argument is mutual exclusion, twice. A call of Load is alone on the template, and so
is every call when they follow each other (`LoadsAlone`): this is what the callers owe, and
a guard of the model. `m_guard` keeps
those who change the globals from those who convert them (`Guarded`). From the first follows
that renderer and metadata are of the source when nobody parses, or of an earlier one when
the source does not parse (`Loaded`); from the second that a global that is not as it was
when a rendering got the lock has been replaced since (`Seen`). `ObjectAssumption` says that
`NoUser` is no user and the bounds are numbers.

`ForLoopProofs` proves for lists of any length, with items of any kind and any number of
variables:

- `ChosenAreRendered`: `Spec => []RendersChosen`, `LoopVarIsRight`: `Spec => []LoopVarIsPosition`,
  `BoundIsNearest`: `Spec => []BoundFromNearest`.
- `LoopInvariant`: `Spec => []LoopInv`, which they rest on.

What is inductive is where the enumerator stands (`Placed`): one item ahead of the item that
is rendered, with the items that are left from there on (`Ahead`), be it in the list the loop
began with or in the one made when the body asked for `loop.length`. When that was asked for
in the last round the loop is somewhere else (`InLatePlace`), and has one round left. What
has been rendered is then what `Filtered` makes of the items so far (`RenderedDue`).
`Filtered` is a recursive function, and the facts about it are proved by induction over the
length of the list. As the library's theorems about induction cannot be used, the lemmas
take the least number for which a statement is false: it exists because `<` is well-founded
on the naturals (`NatLessThanWellFounded`, `WFMin`), which are facts of first order.
`ForLoopAssumption`: `None` and `Moved` are no places in a list and differ, and a statement
has at least one variable.

`RenderTreeProofs` proves for all sets of templates:

- `BodiesDisturbNothing`: `Spec => []Undisturbed`.
- `ScopesInvariant`: `Spec => []ScopesInv`, which it rests on.
- `AskedAreAlive`: `Spec => []DeadOnlyIfCopied`.
- `RenderersInvariant`: `Spec => [](ScopesInv /\ RenderersInv)`, which that rests on.

The first two assume nothing of any constant: the depth of the C++ stack is not bounded, and
nothing is known of values, names or the statements of a template. What the body in frame `n` may do to
the scopes of frame `n - 1` depends on all frames above `n`, for they may go on in the same
context. So the invariant says where contexts are from: that of a frame is the one of the
frame below, or was made after all frames below had theirs (`Nested`); how many scopes it has
for whoever is on top of it (`Deep`); and that whoever goes on in the context of a guarded
caller has a scope of its own on top of the caller's (`Guarded`), so that what it sets, it
sets there. `Kept` is the property itself. An exception takes away frames and contexts
from the top (`ReturnFrom`), after which the invariant holds of what is left.

That a block asks only renderers that are alive, unless an include or an import has copied
one out of its scope, needs more. A list of renderers is a value, and values travel: as
arguments, as `caller`, inside maps and modules, into other scopes and contexts. So there is a
set that holds every value of the rendering and is closed under what values are made of
(`Closed`), in which no body holds an `extends`. A renderer that has not been copied is in a
scope only if the frame of its `extends` statement is on the stack, and the scope is the one
the statement put it in, or one made since (`Held`). Between the return of the statement and
the return of its template the list is still in the scope: then the template has nothing left
to do (`Over`), which is why `extends` must be its last statement, and an `extends` frame stands
right on such a template in the same context (`Extending`). What a frame keeps to hand on, the
arguments of a call and the previous `caller`, is at least as old as the frame (`Handed`).
`RenderersInv` is all this together, and inductive with `ScopesInv`; `ProgramsAssumption` and
`ValuesAssumption` are what it assumes. Still neither the stack nor the templates are bounded.

`RoughParserProofs` proves for templates of every length and all settings:

- `BlocksAreInOrder`: `Spec => []BlocksInOrder`, `TextIsNotLost`: `Spec => []OnlyMarkupIsLost`,
  `PlacesAreRight`: `Spec => []LocationsAreRight`.
- `RoughInvariant`: `Spec => []Inv`, which they rest on.

`Kinds` sorts the handlers into kinds: a delimiter is ignored, ends the current block, begins
one, or is an error; the rest of the proof is about these, the new line, and the two ends of
the pass. None of the properties says anything of the block that has not been cut off yet,
and they all hang on it. `CurInv` does: its opener is before it and nothing that would close it
is between its start and the iterator (`Opened`, `NotClosed`); its start is not before the end
of the last block; and if it begins behind the iterator, what is between them is what was
skipped (`Gap`), so that no delimiter is skipped, and the next match is not before the start. That a block does not
end before it begins when a sign at its end is taken off needs `Hashes`: right before the start
of a comment, and somewhere behind that of a line statement, there is a hash, so that the sign
is not the character before the start. In `{{-}}` it is, which is why `BlocksInOrder` has its
exception. `Covered` says of every
offset before the current block what `OnlyMarkupIsLost` says in the end, and `AllLines` which
line has which offsets.

Under this are the facts about the tokenizer: what each match looks like (`Matches`), that all
the matches at an offset are of one type (`SameType`), so that `CHOOSE` in `Match` only picks a
length, and that a match inside another one is its second character or the end of a tag
(`Inside`); and those about stripping (`StripLeft`, `StripRight`), where `Min` and `Max` exist
because `<` is well-founded. The assumption is `RoughAssumption`: a template is a sequence, and
the settings are Booleans.

## What is only model-checked, and why

- Liveness (`EveryLoadReturns`) and `ENABLED` are out of reach of the prover.
- Data: what the recursive definitions of `Lexer`, `ExpressionParser`, `Values`,
  `ValueLifetimes`, `StringFilters`, `Filters`, `Evaluator` and `MCRenderTree` compute is
  checked on bounded inputs; `tlapm` has no SMT in a module that reaches a `RECURSIVE`
  operator. The properties of `CallParams` are about what library operators on
  sequences select, of which the prover knows nothing.
- `ArgumentsAreSeen` is true of the templates of the run, not of all: a macro whose body sets
  a variable with the name of a parameter does not see the argument any more, nor does one
  with two parameters of one name.
- `EmptyOnlyIfTaken` and `RendersInheritance` are checked on the templates of the run.
- `GlobalsAreSafe` is violated.

## What is not modelled

Each part is in `PROJECT.json` with its reason. The JSON and XML serializers, format,
pprint, xmlattr and error messages are layout of text without control. Reflection and
user callables are compile time adaptation; what a callable is given is in `CallParams`.
`robin_hood.h` is third-party code behind the interface of a map. Wide strings repeat the
code of narrow ones. `recursive` loops, `set` with several names, `do`, default values
of macro parameters, the parser's variant for the list of a `for`, changes of the
settings and of the handlers while templates are loaded, and the comparison of
expression trees are left out. So is the composition of `ForLoop` with `RenderTree`: the
`if` part of a loop is given the same verdict whenever it is evaluated, though the body
can change the variables it reads.

## Plan

The modules of the first plan are written. What is left, in this order:

1. `recursive` loops in `ForLoop`, and the `if` part evaluated in the scopes of the body.
2. `set` with several names, `do` and default values in `RenderTree`.
3. Theorems: which values can reach a macro whose body sets none of its parameters' names, under
   which `ArgumentsAreSeen` would hold for all templates.

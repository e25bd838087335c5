# nfigure: a TLA+ verification project

nfigure fills Go structs from environment variables, configuration files, command-line flags and defaults.
A program makes a `Registry` with *fillers*, one per struct tag; its libraries register structs with
`Registry.Request`; files are added with `Registry.ConfigFile`; `Registry.Configure` walks the structs, lets the
flag handler parse the arguments and select a subcommand, fills every struct and runs the callbacks.

This directory holds TLA+ models of that machinery, TLC runs over small instances and TLAPS proofs. Line numbers
refer to the Go files at the root of the repository.

1. [Inventory](#1-inventory)
2. [Modules and how they correspond to the code](#2-modules-and-how-they-correspond-to-the-code)
3. [Runs, bounds, and what they show](#3-runs-bounds-and-what-they-show)
4. [Fairness](#4-fairness)
5. [Proofs](#5-proofs)
6. [Where the code and its documentation disagree](#6-where-the-code-and-its-documentation-disagree)
7. [What is not modelled](#7-what-is-not-modelled)
8. [Plan](#8-plan)

## 1. Inventory

| Component | State | Operations | Talks to |
|---|---|---|---|
| Filler collection (`fillers.go`) | map tag → filler, order slice, dirty flag | Add, Remove, Build, Clean, Order, Copy, pairs | everyone: registry options, requests, fill |
| Registry and requests (`registry.go`, `request.go`) | slice of requests, mutex, `configureStarted`, fillers | Request, ConfigFile, Configure, GetRequests | other goroutines through the mutex; fillers through optional interfaces |
| Fill engine (`fill.go`) | the struct being filled, one collection per level of recursion | fill, fillStruct, fillField, Len, Keys, Recurse | fillers |
| Flag parsing (`flags_parse.go`) | flag tables, remainder | PreWalk, parseFlags, Fill | registry (PreWalk of a Request), package reflectutils |
| Flag handler life cycle (`flags_command.go`) | tree of subcommands, what each has selected, `helpAlreadyAdded` | AddSubcommand, PreConfigure, addHelpFlagAndCommand, ConfigureComplete, clearParse | registry (a Request for a subcommand's model), user callbacks |
| Import and export (`flags_import.go`) | imported flags; closures over exported fields | ImportFlagSet, importFlags, ExportToFlagSet | package `flag` |
| Usage text (`flags_command.go`) | what PreWalk left of the model | Usage | flag parsing, by convention only |
| Lookup filler (`env.go`), file filler (`source.go`) | immutable | Fill, Len, Keys, Recurse, AddConfigFile | environment, nflex |
| Debugging, helpers | none of interest | | |

What is hard about it, and what makes each component correct:

- **Collection.** The order slice may name tags that have left the map; `Add`, `Copy`, `Clean` and `pairs` each
  decide from the map. Correct if it is one ranked list: every filler asked once, in the order of first
  registration, replacing in place (`EachFillerAskedOnce`, `OrderVisitsEachOnce`, `KeepsPromise`). It is, until an option
  registers a tag again that an earlier option removed: then the order names the tag twice, a copy loses its last filler,
  and cleaning may panic (section 6). The properties say what holds in that case, too, and that nothing else panics
  (`PanicsOnlyOnReturn`).
- **Registry.** Requests arrive on other goroutines and from callbacks, at any time before, during and after
  `Configure`. `configureStarted` is written without the lock under which `Request` reads it. Correct if no
  request escapes `PreWalk`, none is filled before it or twice, OnStart callbacks see everything filled, and nobody waits
  for ever; in short, if the phases of `Configure` are barriers, as `RegistryContract` says.
- **Configuration files.** `ConfigFile` reads files with the lock held, fills read the same fillers without it.
  Correct if a file whose `ConfigFile` has returned is read by every later fill and never lost to another file.
- **Flags.** One index is moved by two loops and by the skipping of ignored arguments; values, keys and used
  are parallel slices filled in five places; entries are shared by pointer between names, fields and models;
  `Configure` may run again. Correct if every argument is consumed once, spellings are equivalent, a used flag
  fills its fields, and a second `Configure` gives the same.
- **Fill engine.** Fillers are dropped from the collection as they fill; lists are counted by one pass and filled by another; the
  report "something was filled" decides whether pointers are set. Correct if each place holds what the sources
  have for it, in the order the tags and the meta tag prescribe.
- **Flag handler life cycle.** Subcommands may be added or replaced from callbacks, while a parent is being
  parsed or after an earlier `Configure` has selected what is replaced. Help is added to a whole subtree by a
  recursion that may stop halfway with an error and is not repeated. Correct if `Configure` starts exactly what
  the arguments of that call select, and every handler that should answer `--help` does, none without having the flag
  (`StartsWhatWasSelected`, `HelpReachesEveryHandler`, `HelpFlagIsThere`).
- **Import and export.** The exported flags are a second implementation of the flags: closures that keep `once`, an index
  and a pointer between calls, where the handler has tables and `Fill`. Correct if the first use replaces and
  later ones add, if a refused use costs nothing that was accepted, and if both implementations fill a model alike
  (`UsesAreComplete`, `UnusedPointersStay`, `AgreesWithFlagHandler`).
- **Usage text.** A third reading of the same tags. Correct if what it shows is what the parser takes
  (`ShownFormsAreAccepted`).

`PROJECT.json` lists the hazards, each at its line with the properties that would catch it.

## 2. Modules and how they correspond to the code

| Module | Models | Shape |
|---|---|---|
| `OrderedFillers` | what users of a collection rely on | abstract specification: the ranked list and the tags that have returned |
| `CollectionOps` | the methods of `fillerCollection` | operators |
| `FillerCollection` | the life of a collection: options, then copy, recurse, remove | state machine; implements `OrderedFillers` by a refinement mapping (`AsList`), also after a tag has returned |
| `FillerCollectionProofs` | | what the methods keep of a collection, the theorems, and the refinement |
| `RegistryContract` | what a registry promises its requests | abstract specification: known, examined and done requests, and the phases |
| `Registry` | `Request` and `Configure` with all goroutines | state machine, one action per critical section; implements `RegistryContract` |
| `RegistryProofs` | | the inductive invariant, the theorems, and the refinement |
| `ConfigFiles` | `ConfigFile` against the fill of requests | state machine, one action per critical section, file or field |
| `ConfigFilesProofs` | | the inductive invariant and the theorems |
| `FlagTable` | PreWalk's tables, what parsing does to an entry, what Fill makes of it | operators |
| `FlagParse` | a `FlagHandler` through `Configure` | state machine, one action per turn of `parseFlags` |
| `FlagParseProofs` | | what every step keeps of the tables and of the arguments, the two inductive invariants and the theorems |
| `FlagSpelling` | two parses, of a command line and of its plain spelling | composes two runs of `FlagParse` |
| `Fill` | `Request.fill`, the recursion through types, file, lookup and flag fillers as leaves | recursive operators and one action per field; uses `CollectionOps` |
| `UsageText` | the forms in which `Usage` shows a flag | operators beside `FlagParse`, which parses what they show |
| `Subcommands` | the tree of handlers: subcommands, selection, OnStart, help | state machine, one action per turn of a loop, call of the recursion or callback |
| `SubcommandsProofs` | | the inductive invariant, the way of the selected handlers, and the theorems |
| `HelpProofs` | | that help reaches every handler, on top of that invariant |
| `Export` | `ExportToFlagSet` and the uses of the exported flags | state machine, one action per field or use; uses `FlagTable` |
| `ExportProofs` | | the inductive invariants and the theorems |
| `Induction` | | the facts about least elements, recursion over finite sets and folds that the other proofs cite |
| `MC_*` | | instances for TLC |

**Collection.** `c` is the collection in use: the one that the options build (`Option...`), then what a fill works with.
Every use of the built registry begins with `Clean`, and `crashed` is its panic in `make` (`fillers.go:85`). The options
come in any order, so that a tag may be registered, removed and registered again. `returned` and `copied` are history: the tags
for which that has happened, and whether a copy has been made since the options.

**Registry.** `conf` is where `Configure` is, `call[g]` where goroutine `g` is in `Request`, `lock` the mutex.
`RequestCall` begins a call, which then waits; `RequestAppend` takes the lock and appends; `RequestFinish` prewalks if `configureStarted` is seen, and unlocks.
`published` models Go's memory model for the unlocked write of `configureStarted`: until `Main` has used the
lock, another goroutine may read either value (`Sees`). The calls of the flag handler that come back to the
registry (the subcommand's model, OnActivate and OnStart callbacks) are steps of `Configure` with the goroutine `Main`
free to call `Request`. A fill ends with the lock taken once more, to look up the validator, if the request has none of its own
(`GetValidator`). Abstractions: one flag handler, which is the only filler that parses; PreWalk of one request is one step. `late` is history: the requests registered during OnStart.
The mapping to `RegistryContract` reads its five variables off the state (`Contract`): the phase is
that of the loop `Configure` is in, an open request is one that a goroutine has appended and not finished.

**ConfigFiles.** `adding[c]` is a call of `ConfigFile`: the file, the filler it is at, what that filler read when
it was asked. The registry's own collection is used live by a request without fillers or prefix; any other
works with a copy. With fillers of its own, the request makes it when its fill begins, with the lock held (`request.go:91-100`); with
a prefix alone it gets the live collection and `Recurse` makes the copy after the lock is released (`fill.go:190-193`, `GoDown`,
one step of the model), so that it races with `ConfigFile` as the copies for the fields do. `InPlace` fillers change themselves instead of
giving way to a new one, which `AddConfigFile` allows (`source.go:56` returns a new one).

**FlagTable, FlagParse.** An argument is the number of its dashes, a name, which is a sequence of characters
because clusters and prefix maps take names apart, and a value. `tables.at` maps (handler, table, name) to an entry and
`tables.refs` holds the entries, so that sharing by pointer is kept. `preference` is the order in which Go happens to range over `mapFlags`
when it builds the regular expression (`flags_parse.go:57-61`), chosen anew for every parse. `role` is history.
Handlers nest one level: the main one and its subcommands. `Configure` may be called again after it has returned, with an error
or without. `ImportFlags` ends with an error when a flag's `Set` refuses the value or the default; an empty default is not set at all. Conversions of texts and splitting of one text are
external (reflectutils), except the failure of a boolean and the number of a counter.

**Fill.** A type is a tree of scalar, ptr, struct, slice, array, map. The content of a file is a tree of nodes; a
file filler is its node at this level, as `FileFiller.Recurse` makes it. The operators follow the functions:
`AskAll` is the loop over `pairs`, `Elements` is `Len` with its closure (the sequence of collections it hands
out), `FillField` the switch over kinds. The expected object is defined apart (from `Top` on), by paths and
without collections.

**UsageText.** A form that the text shows is the command line that results when its names for arguments are
replaced by a sample. `Category` and `Format` follow `getCategory` and `opt.format`; `Shown` follows the loops of
`Usage` over the model and the imported flags. The run `flags` has every such line among its command lines, so
that `FlagParse` parses it.

**Subcommands.** A handler is an index into `tree`, its record what the code keeps of subcommands, help and
parsing; of the flags only `--help` is told apart, since `FlagParse` has the rest. `frames` is the stack of the
calls of `addHelpFlagAndCommand`: `EnterHelp` is the part before the loop over the subcommands, `NextSub` a turn
of it, `LeaveHelp` what follows; an error drops the stack and leaves what was done. `todo` are the calls of
`ConfigureComplete` that wait for that of their subcommand. A pass reads `os.Args[1:]`, whose array the program may write to between two
calls: `Configure` takes any command line of the same length. A model's own `--help` is a boolean or takes the next argument (`OwnHelp`,
`Taken`). After a selection a pass may still fail, in the parse (`EndParse`), in `importFlags` or in a fill. `Add` is enabled where user code may run: between
calls of `Configure`, in OnActivate (on the handler the callback is given) and in OnStart. `chain`, `started`,
`own`, `late` and `refused` are history.

**Export.** `once` and `index` are the variables of the closures, `content` the struct they point into. A text is
the sequence of its pieces after the split. A field that is native and has a default (or is no pointer) is
registered with `IntVar` and its like (`Typed`), whose setters store a value even when they refuse the text: zero, or for a
number out of range the greatest or least one (`Clipped`); all others with `Func`. `accepted` and `refused` are history. `AgreesWithFlagHandler` hands the accepted uses to `FlagTable`,
which the handler itself fills from.

## 3. Runs, bounds, and what they show

| Run | Instance | Shows |
|---|---|---|
| `collection` | 3 tags, 2 fillers, up to 5 options in any order, then any number of operations | one ranked list until a tag returns; what holds after that; no other reason to panic; implements `OrderedFillers` |
| `registry` | 2 clients, up to 4 requests besides those of subcommands, 2 passes, 2 nested subcommands, under `FairSpec` | the safety properties, the two liveness properties, and that `RegistryContract` is implemented |
| `registry_late` (violation) | the same with one subcommand | a request registered during OnStart is not filled |
| `files` | 2 clients, 2 files, 2 fillers, 3 requests (one with fillers of its own, one with a prefix, one with neither), 2 fields | no file lost, none missing |
| `files_race` (violation) | the same | the live map is written while it is read |
| `flags` | every command line of up to 3 arguments, of 19 for Posix style or 11 for Go style, ignored flags or none, 2 subcommands (one with a flag `--help` of its own), 2 imported flags (one refuses a value), 2 calls of `Configure`, after errors as well | eight properties of parsing and filling; the usage text shows what is accepted |
| `flag_spelling` | every command line of up to 4 of 7 arguments, one flag of every arity | spellings agree |
| `flag_spelling_map` (violation) | a map=explode flag | they do not for maps |
| `fill` | 54 kinds of fields under tags and meta tags, two files of every shape, flags and environment or none, with and without a prefix | objects hold what the sources have |
| `fill_pointer` (violation) | `*int` with `env` and `default` | the default wins |
| `export` | a model with a map, a slice, an array behind a pointer, scalars with and without default and pointer, and a boolean; three models whose export fails; any 4 uses, with split, refused and empty texts | the closures keep what was accepted and fill what the handler would |
| `subcommands` | up to 4 handlers of 3 kinds (one has a flag `--help` that takes an argument), added under 3 names at any time of 2 calls of `Configure`; for each call one of 3 command lines of 3 words | what was selected is started, help reaches every handler |

Why the bounds are enough: in `collection`, five options are two that remove and register again and one more, and three tags are two that repeat
and one that is lost. In `registry`, two clients can both be in line for the lock while `Main` works, a call
that has begun may get the lock at any later time, so that three requests can arrive in any stretches between the loops, two passes cover everything that survives a
`Configure`, and two nested subcommands let one request its model from a handler that was requested itself. In
`files` the second file meets the first in every order, and each of the three ways in which a request gets its fillers is there. In `flags` three arguments suffice for a flag with two values, a cluster
with values, a subcommand between two flags, and an ignored flag with its argument and a word behind it.
In `fill` nodes go two levels down, which covers an element of a structure within a structure. In `export` the fields do
not influence each other once they are defined; four uses are two accepted ones with a refused one before and
between them, and more than the array has room for. In `subcommands` four handlers
are a chain of four as well as a command that is replaced while another hangs below it; the second `Configure` meets
whatever the first left behind, with another command line than the first, so that a selection it forgot to clear would start what was not asked for.

`CHECK_DEADLOCK FALSE` stands where the program may end: `Configure` has been called as often as the bound
allows, all requests are filled, or parsing has ended with an error.

What the properties leave out on purpose:

- After a tag has returned (`returned`), the properties of `collection` allow that it is asked twice, and in a copy that fillers are
  missing: both happen in the run. So does the panic of `Clean`; `PanicsOnlyOnReturn` says that nothing else leads to it. See section 6.
- `PanicsAreKnown` names the two reasons for which the handler panics: a model has a name that an imported flag of its handler or
  `--help` has (`flags_parse.go:544` writes to a nil map), or a map flag was given in both ways (365). Both
  happen in the run.
- `GivenIsFilled` says that a map whose pairs all stand behind an equals sign gets nothing, as the code has it (`flag_spelling_map` shows it
  violating the documentation), and excepts arrays of length zero (`IsEmptied`, `flags_parse.go:395`).
- `ReconfigureRepeats` is checked without overlapping prefix maps; see section 6.
- `ScalarsByPrecedence` takes fillers that a field does not name in the order of their registration even if it is marked `last`, as the code
  does and the documentation does not say (section 6). `MapsAreComplete` does likewise.
- No flag of `flags` is both defined and on the ignore list (section 6).
- `fill` lets lookups fill scalars only and the flags scalars and slices, since a pointer that a lookup fills is
  the subject of `fill_pointer`; slices that are filled by the flags are not marked `single` (section 6).
- `AgreesWithFlagHandler` compares what both can be told in one way (`Comparable`): the handler splits no repeated value and
  has forms of its own for counters and `split=explode`.
- `ShownFormsAreAccepted` excepts the forms that are `Misleading`; section 6 lists them.
- `HelpReachesEveryHandler` excepts passes after a clash (`refused`) and says that handlers added below one that
  has help already get none (`late`): the code does not go through the subcommands a second time.

## 4. Fairness

Only `registry` checks liveness, under `FairSpec`:

- `SF_vars(ConfigureStep)` and, for every goroutine, `SF_vars(RequestAppend(g, ...))`: the steps of `Configure` and the calls of `Request`
  compete for the registry's lock. A Go mutex hands itself to a waiter that has waited for a millisecond (its starvation
  mode), so a goroutine that waits while the lock is free again and again comes to it. Strong fairness says that and no more.
- `WF_vars(RequestFinish(g))`: who has the lock goes on; PreWalk is a finite walk over a type.
- `WF_vars(RequestCall(Main))` for a subcommand's model: `Configure` itself makes that call.
- OnActivate callbacks are assumed to return. OnStart callbacks are not (`flags_command.go:351-353` says they
  may run as long as the program): `ConfigureProgresses` asks for OnStart or a return, no further.
- Clients need not call `Request` at all; `RequestReturns` speaks of those that have called it. That they stop is the bound `MaxRequests`; with clients that register
  for ever, the loops of `Configure` would be entitled to go on for ever.

## 5. Proofs

`RegistryProofs` proves about `Registry`, for any set of clients and any bounds, from `GoroutineAssumption`
(Main is none of the clients) and `BoundAssumption` (the bounds are natural numbers):

| Theorem | Says |
|---|---|
| `TypeCorrect` | `Spec => []TypeOK`, with the range of the loop index |
| `PreWalkComplete` | `Spec => []NoneEscapesPreWalk` |
| `FillAfterPreWalk` | `Spec => []WalkedBeforeFill` |
| `StartAfterFill` | `Spec => []StartSeesAllFilled` |
| `Implements` | `Spec => ImplementsContract`: every behaviour is one of `RegistryContract` |

All follow from `Inductive == Spec => []IInv`. `NoneEscapesPreWalk` alone is not inductive: the step into the state after the walk
needs that everything below the index has been walked (`WalkInv`), and a request appended at that moment is
walked because its goroutine must see `configureStarted`, which holds because `Main` has used the lock since it
wrote it (`StartedInv`: outside `begin`, started and published agree), and because the goroutine between append and finish is the holder of the
lock and its request is the last (`LockInv`). `FillInv` ties the index of the second loop to the set of filled
requests. There is one lemma per
conjunct, with one step per group of actions, and `StepGrows` for what never shrinks.

`Implements` maps each action to a step of the contract or a stutter, by one lemma per group
(`AppendRefines`, `FinishRefines`, `FailRefines`, `WalkRefines`, `FillRefines`). The contract's barriers are
where the invariant is used: `BeginParse` needs `WalkInv` at the end of the first loop (`LoopEnds`), `BeginFill`
that requests registered since were walked by those who registered them (`StartedInv`), `Start` that `FillInv` holds at
the end of the second with no goroutine in the lock.

`ConfigFilesProofs` proves about `ConfigFiles`, for any number of goroutines, files, fillers, requests and fields,
from `FilesAssumption` (the free lock has no client, the sets of fillers and requests are within their bounds, a request with a prefix works with a copy, a request has a field) and
`IdleAssumption` (a goroutine outside `ConfigFile` is not in a call):

| Theorem | Says |
|---|---|
| `TypeCorrect` | `Spec => []TypeOK` |
| `AddedFilesReachFill` | `Spec => []AddedFilesAreRead` |
| `NoFileLost` | `Spec => []FilesAreNotLost` |
| `OneCopyPerRequest` | `Spec => []CopiesAreConsistent` |

Again all follow from `Inductive`. What is seen of one field says nothing of the next until it is tied to what the fill reads
now: `CurrentInv` says that it is part of it (and equal to the copy, where a copy is used), `CopyInv` that the copy is part of
what the registry's fillers read and holds the promised files. These rest on `SourcesGrow`: no step takes a file from a filler.
That needs the lock: what `AddConfigFile` read of a filler is still what that filler reads when its
successor is stored (`AddingInv`), because only the holder of the lock is in `ConfigFile` (`LockInv`). `OutcomeInv` is what a return without error means, and
`ProgressInv` places the fields.

`SubcommandsProofs` and `HelpProofs` prove about `Subcommands`, for any words, kinds of handlers, command lines (another one in each pass) and bounds, from
`KindAssumption` (what a kind is) and `InputAssumption` (command lines are sequences, no command has the name that stands
for none):

| Theorem | Says |
|---|---|
| `TypeCorrect` | `Spec => []TypeOK`: the handlers form a tree, the selected commands exist in it, and the calls of `addHelpFlagAndCommand` lead down in it |
| `HelpFlagAlwaysThere` | `Spec => []HelpFlagIsThere`: no nil entry is dereferenced at the end of `parseFlags` |
| `StartsInOrder` | `Spec => []StartsWhatWasSelected`: OnStart is called for the handlers of this pass, the innermost first |
| `HelpReaches` (`HelpProofs`) | `Spec => []HelpReachesEveryHandler`: at any depth, a handler that parses has `--help` exactly if it or one above it has a help text and none in between was added too late |

The inductive invariant has five parts. `SubsInv`: a subcommand is newer than its parent, and only the command
`help` prints the usage. `SelectedInv`: a selected command is there; replacing a command keeps its name, so adding cannot
break it. `FramesInv`: the stack begins at the handler that parses, each call is for a subcommand of the one
below, none is for `help`, and a call that has entered its handler has marked it. `HelpInv`: a marked handler has the
flag, its own if help clashed with it. `HelpFlagIsThere` follows only from the two last together: the step from help to the
arguments pops the last frame, that frame is at the handler that parses, so this handler is marked or has no help text. Steps
that go through the tree are proved by way of what they keep (`Kept`, `Helped`), popping and refusing by a lemma each.

`HelpReaches` needs more, `HInv`. The property speaks of the history of one command line, the code of the tree: `ReachInv` says of every
handler on the way that it has a help text exactly if that history says so, and is extended by one step when a handler
begins to parse. That step needs that the text of a subcommand comes from itself or from above, and that a late one has got none
(`LinkInv`, with each handler below one other at most), that help is at every subcommand of a handler that has it unless it is late
or still to come (`SpreadInv`, `Waits`: to come by a name in a loop or by the next call on the stack; the stack is empty when parsing
begins), and that the handlers that parsed before have been through `addHelpFlagAndCommand` (`ParsedInv`). While the calls go on, they
change texts below the handler that parses only (`CallsInv`), so those on the way keep theirs (`ChainInv`). The flag of the main
handler's own model is there before help is (`RootInv`), so PreWalk never takes a flag from help.

`StartsInOrder == Spec => []StartsWhatWasSelected` needs another invariant, `WInv`, because the property compares the handlers that parsed in this
pass with a function that goes down the tree, and earlier passes leave selections in it. `SelectionInv` says that whoever has selected
has parsed, and never `help`; since a subcommand is newer than its parent, the way down is finite (`DownExists`).
While the arguments are read, the handlers of this pass are a way of selected commands from the main handler to the current one (`WayInv`),
which selects nothing further when its arguments begin; so the way down is that list (`SelectedIsWay`). Help must not replace a selected command:
it adds `help` only where there is none (`NestingInv`). During ConfigureComplete, what has been started is the list of this pass backwards and what
waits is the rest (`OrderInv`); `todo` may hold handlers whose tree changes under an OnStart callback, but no longer their order.

`FillerCollectionProofs` proves about `FillerCollection`, for any tags and fillers and any number and order of options, tags that return included,
from `OptionAssumption` and what `CollectionOps` assumes of its constants (no tag is empty, no filler is nil):

| Theorem | Says |
|---|---|
| `TypeCorrect` | `Spec => []TypeOK`, no nil filler is stored |
| `PanicNeedsReturn` | `Spec => []PanicsOnlyOnReturn`: the slice that `Clean` makes is too short only for an order that names a returned tag |
| `OrderIsComplete` | `Spec => []OrderVisitsEachOnce`: no tag twice but a returned one, none left out but in a copy after a return |
| `AskedOnce` | `Spec => []EachFillerAskedOnce`, whatever the tags of a field |
| `KeepsThePromise` | `Spec => KeepsPromise`: every behaviour is one of `OrderedFillers`, which promises a list with one filler per tag until a tag returns, and that those who stay keep their order ever after |

The invariant is `Sound(c, returned, Full)`: the order names no tag twice but those that have returned, nothing outside the map unless the collection is
dirty (or the empty places of a copy), and, as long as `Full` (nothing has returned, or no copy was made), every tag of the map. The
returned tags are parameters of the lemmas about the loop over the order (`OnlyIn...`), which is a fold. A prefix without repetition
is no longer than the map, which is why a panic needs a return. The refinement maps a collection to the
tags of its order that are in its map (`Live`). Each method is shown to keep the order of those that stay (`Moved`), and, if nothing has returned,
to add new ones at the end (`Extended`); that is what the abstract step allows (`MovedFollows`, `ExtendedFollows`). The fillers that give way to others when a request
recurses are folded in the order of a Go map; `SubstitutesKeeps` proves it for every order.

`FlagParseProofs` proves about `FlagParse`, for any handlers, models, imported flags, command lines and number of calls of
`Configure`, from `FieldAssumption` (names and models are sequences, the kinds of fields) and `InputAssumption` (what an argument is):

| Theorem | Says |
|---|---|
| `TypeCorrect` | `Spec => []TypeOK`: the tables point at known entries |
| `ArgumentsOnce` | `Spec => []EveryArgumentOnce` |
| `ValuesNamed` | `Spec => []EveryValueIsNamed` |
| `OwnFlags` | `Spec => SubcommandsHaveTheirOwnFlags`, an action property |
| `PanicsKnown` | `Spec => []PanicsAreKnown`: a panic means that a name is taken by an imported flag or `--help`, or that a map was given in both ways; no lookup of `Fill` fails |
| `UsedIsFilled` | `Spec => []GivenIsFilled` |

`EveryArgumentOnce` speaks of the end of parsing. What makes it inductive is `RoleInv`: at every moment the arguments that have become something
are those before the index, and the one at the index while its cluster is taken apart; with `ClusterInv` that argument exists.
`WellFormed` says of the tables that each name leads to an entry of the same handler and that each entry has a spelling for every value; every way
to give values keeps it (`GiveFollowingKeeps`, `GivePrefixedKeeps` and the like). `PreferenceInv` makes sure that what the regular
expression finds is in the tables. PreWalk is a fold over the fields of a fold over their names: `FoldKeeps` says that a fold does not
leave a set that its steps do not leave, here the tables whose keys, entries and ids are their own or those of the models (`Near`, `Room`).

The last two need a second invariant, `FInv`, which is about what the entries are for. `Sound` says of the tables that an entry with
setters is that of a field of its kind and is found under names of that field only (`Entered`), and that the keys of each entry are a sequence (`Paired`). A walk
that starts from such tables ends with such tables, takes no name away and changes no entry; if nothing clashed it has entered every name of the
model, and if it panicked, one of them led to an entry without setters, so that `NameIsTaken` (`Walks`): one lemma
each for a name, a field, a model and all requests, the last three by folds. An entry of a map with fewer keys than values
(`Short`) has been given with an equals sign: `ShortInv` keeps the name under which it was, so that a fill that finds it with some keys,
and indexes them out of range, has `PairsInBothWays`. `KnownInv` carries to the fill that every requested model was walked without a clash, so that no name is looked up in vain
("internal error" at `flags_parse.go:322-325`), and `FilledInv` that a field of the main model or of the selected command's is either still to be filled or
filled exactly if the first of its flags that was used gives a value; the fill of one field leaves alone which flags were used, and of another
field that shares a flag at most the values, which is the exception `IsEmptied`. Neither theorem has a hypothesis on models or command lines.

`ExportProofs` proves about `Export`, for any model, texts and number of uses, from `FieldAssumption`,
`ModelAssumption` (models and texts are sequences, an array has its size) and `TextAssumption` (the nil pointer is no list, a scalar takes one
piece at a time, a boolean only what reads as one or is refused):

| Theorem | Says |
|---|---|
| `TypeCorrect` | `Spec => []TypeOK`: no closure indexes beyond its array |
| `PointersStay` | `Spec => []UnusedPointersStay` |
| `UsesComplete` | `Spec => []UsesAreComplete` |
| `AgreesWithHandler` | `Spec => []AgreesWithFlagHandler`: the second implementation of the flags fills what the first does |

An array keeps its domain whether or not its pointer has been followed (`ArrayInv`); a pointer without
default is never `Typed`, so its definition leaves it alone, and every use is noted as accepted or refused
(`PointerInv`, `UseIsNoted`), wherever the export is. The other two theorems need to know what the closures keep between the uses (`Kept`, one part
per kind): `once` of a slice is set exactly if something was accepted, that of a map also by a use that was refused, which leaves the map empty
if nothing was accepted before; the index of an array counts the accepted elements, and what a refused text has set lies behind
it; a scalar that was refused may hold zero or the clipped number. The concatenation of texts is a recursive function: `FlattenAppend` says what one more text
adds to it, `PairingAppend` what one more pair makes of a map.
`AgreesWithHandler` then compares kind by kind; a text of one piece adds this piece (`Singles`).

**Induction without induction.** The library's induction theorems take an operator as parameter, which none of the provers can
instantiate. The module `Induction` goes around that: a set of numbers has a least member (`Least`), a collection of finite sets a smallest one
(`LeastSet`), and a set of values can be named where an operator cannot. From it follow that functions defined by recursion over finite sets exist and
are unique (`UnfoldsExists`, `UnfoldsUnique`), that all their values are in a set that no step leaves (`KeptByUnfolding`),
that a set with the empty sequence and closed under `Append` has all sequences (`EverySequence`), and the same for subsets (`EverySubset`).
Thus the proofs reach the folds of the community modules, which are such functions under a `CHOOSE`.

Only model-checked:

- liveness of `registry`, since the provers know neither fairness nor `ENABLED`;
- `ReconfigureRepeats`, `ShownFormsAreAccepted` and `SpellingsAgree`. The first and the last compare two passes, the other a text
  with a parse. No invariant of one pass says what it comes to: that takes the parse as a recursive function of the arguments, and
  an induction over them. For the forms of the usage text, a general statement also needs to say when no other flag gets in the way;
- all of `fill`: the engine is recursive over types, and its operators are `RECURSIVE`, out of the prover's reach.

## 6. Where the code and its documentation disagree

Each of these four is a run whose counterexample TLC finds (`PROJECT.json`, findings):

- `registry_late` (`registry.go:217`): a request that is registered while OnStart callbacks run is not filled.
- `files_race` (`registry.go:170`): the map of fillers is written while a fill copies it.
- `flag_spelling_map` (`flags_parse.go:130`): `--map=k=v` is lost.
- `fill_pointer` (`fill.go:331`): a default overwrites the `*int` that the environment has filled.

Others met while reading and modelling. The first four happen in passing runs, whose properties say when:

- `fillers.go:85`: `NewRegistry(WithFiller("env", nil), WithFiller("env", f), WithFiller("x", g), WithFiller("x", nil))`
  leaves the order env, config, default, env, x and three fillers; the first use of the registry panics in `make([]string, 4, 3)`.
  The run `collection` reaches it (`crashed`).
- `fillers.go:61` and `fillers.go:18`: a tag that one option removes and another registers again is named twice by the order;
  `Copy`, which makes the order as long as the map, loses the last filler. The run `collection` reaches this, too (`copied` with `returned`).
- `flags_parse.go:365`: `--map=k=v --map k=v` makes `Fill` index `keys` out of range, since only the second way adds a key. The run `flags` reaches
  it (`PairsInBothWays`).
- `fillers.go:132`: "last" turns only the tags of the field itself around. Fillers that it does not name are asked in the order
  of their registration, though filling is said to start "with the last filler" (`registry.go:93`, `doc.go:69`). A scalar without tags
  marked `last` gets the value of the first of two files, and a combined map keeps, of a key that both have, the value of the first.
  The run `fill` has both, and `ScalarsByPrecedence` and `MapsAreComplete` state what the code does.
- `flags_parse.go:187`: a flag that is defined and also on the ignore list takes its argument and loses the next.
- `request.go:55`: a request that `Request` refuses because PreWalk failed stays registered; a later step of `Configure` fills it
  and may then fail with "internal error: Could not find pre-registered flagRef" (`flags_parse.go:320`).
- `request.go:58`: PreWalk of a concurrent `Request` writes the flag tables under the lock; `parseFlags` and `Fill`
  read them without it. Documented as allowed: "New configuration requests can be added while configure is running" (`registry.go:191-192`).
- `registry.go:165`: a filler that accepts a file and "remains the same" does not count as success; `ConfigFile`
  reports "Unable to read config from".
- `flags_parse.go:257`: `--help` in front of a subcommand has no effect, because the return into the subcommand comes before
  the test.
- `flags_parse.go:200`: the argument of an ignored flag is not skipped for one-dash long flags and in clusters.
- `flags_command.go:142`: "flag must be used", but `required` is read by the usage text only.
- `flags_parse.go:123`: GoFlagHandler rejects `-n=5` for a flag of one character (`flags_command.go:215` allows it).
- `flags_parse.go:204`: PosixFlagHandler rejects the documented example `-DFOO=bar` (`flags_command.go:59`).
- `flags_parse.go:395`: two arrays may share a flag; the shorter, filled first, truncates the values of the longer.
- `flags_parse.go:544`: a field named `help` in a subcommand's model panics if the main handler has a help text, and so does a
  field with the name of a flag that its handler imports.
- `fill.go:335` and `fill.go:361`: a pointer or slice that a lookup or the flags fill directly is reported as not
  filled when the level below adds nothing, so that a pointer to the struct around it stays nil and the value is
  lost.
- `fill.go:359`: a slice marked `single` that the flags fill still gets the list of the first file behind it,
  because the direct fill and `Len` each stop at their own first.
- `flags_parse.go:59`: of two overlapping prefix maps (`D` and `Dx`) the one that a Go map happens to yield first takes an
  argument, so that a second `Configure` may differ from the first.

About subcommands and help:

- `flags_command.go:481`: `helpAlreadyAdded` is set before the checks, so that a clash with a flag or
  command `help` is refused by the first `Configure` and accepted by the second.
- `flags_command.go:478`: a subcommand that is added when its parent has help already never gets any.
- `flags_command.go:547`: a command that is added again is listed twice in `subcommandsOrder`, and so in the usage text.
- `flags_parse.go:544`: a subcommand's model with a field `help` panics when it is requested after help was added to
  the subcommand.

About export, compared with the handler's own parsing:

- A default for a `float64` is ignored, though the doc of `WithDefaultsTag` lists the type; a type with a method of
  its own and no default is set to zero by the export, whatever it held.
- A repeated slice flag splits each value in the export and none in the handler; more elements than an array has are an
  error in the export and dropped by the handler; a map's key without value is accepted by the export only.
- Two fields with one first name make `FlagSet` panic with "flag redefined", although PreWalk lets fields share a flag.
- A named type such as `type Level int` with a default panics in a type assertion.
- `flags_import.go:195` and `:202` index `Name[0]` and `used[0]` of a list that is checked nowhere.
- A `*bool` without default needs an argument once it is exported.
- `flags_import.go:187`: `getV` keeps the value it found; a program that replaces the pointer later gets no more values.

About the usage text, which shows what the parser does not take, or not so:

- A counter of one character with an argument (`-v int`), map=explode of one character as `-m<k>=<v>`, map=prefix of one
  character, which PosixFlagHandler refuses, arrays with `split=explode` behind an equals sign, `--[no-]flag` for a
  GoFlagHandler. These are `Misleading`.
- It does not show the aliases of required flags, imported flags when the model is empty, or `--help`.
- After a second `Configure` it shows every flag twice, since PreWalk appends to `rawData`.

## 7. What is not modelled

- **The rest of the usage text** (headings, layout, help for each flag), **debugging, one-line helpers**: formatting, no state.
- **nflex and reflectutils**: not in the repository. A file is one tree; how several files make one tree is
  external, and so are conversions of texts (also as JSON) and the ranges of numbers.
- **The validator**: a foreign interface; its failure is one of the ways in which a pass of `Configure` fails in `Registry`.
- **OnActivate callbacks that change other handlers than their own.** Replacing a command above, on the way that is
  being parsed, would cut the selected handlers off the tree; nothing in the repository does it.
- **Handlers nested deeper than one level in `FlagParse`**: their ways through the tree are in `Subcommands`. **`GetRequests`**:
  an accessor.
- **Flags after a clash over help.** `FlagParse` ends when help clashes with a flag of the model; that the next `Configure` accepts it is in
  `Subcommands`. Of imported flags, those that were set before one that refuses its value are not told.
- **A filler whose `Recurse` gives nil for an element that its `Len` has counted.** The code stores nil (`fill.go:148-151`) and would panic
  when it asks it; in `Fill` such a filler is left out, so that panic is not in the model.
- **A model's `--help` in `Subcommands`** takes one argument or none; flags with several are in `FlagParse`.

## 8. Plan

What is done: every component of section 1 with state; two abstract specifications, both with a proved
refinement; theorems about every state machine but `Fill` and the two that compare parses. What would come next:

1. A model of `FlagParse` with handlers nested to any depth, now that `Subcommands` has the tree.
2. `Fill` written with recursive functions over the paths of a type instead of `RECURSIVE` operators, to prove at least that lists are as long
   as they were counted.

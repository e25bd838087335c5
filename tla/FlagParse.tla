------------------------------ MODULE FlagParse ------------------------------
(***************************************************************************)
(* The life of a FlagHandler during Registry.Configure: PreWalk of the     *)
(* known models, parseFlags over the arguments, the switch to the handler  *)
(* of a subcommand, importFlags, and the Fill of every field (the general  *)
(* comment of flags_command.go:25-31).  The program may call Configure a   *)
(* second time, after an error, too, unless --help clashed with a flag:    *)
(* what that leaves is told in Subcommands.                                *)
(*                                                                         *)
(* One action is one turn of the loop of parseFlags, with every call it    *)
(* makes; a cluster of short flags takes one action per character, as its  *)
(* inner loop does.  The variable role is history: it notes what became of *)
(* each argument, and is never read by a guard.                            *)
(***************************************************************************)
EXTENDS FlagTable

CONSTANTS
  Styles,        \* subset of {"posix", "go"}: which constructor is used
  Ignorables,    \* the possible contents of ignorableFlags
  ArgLists,      \* the possible command lines
  HelpTexts,     \* the handlers with WithHelpText
  NoPositional,  \* the handlers with NoPositional
  MaxConfigures  \* bound: calls of Configure

(* Command lines are sequences of arguments as they are read: without an   *)
(* equals sign there is no value.                                          *)
ASSUME InputAssumption ==
  /\ Styles \subseteq {"posix", "go"} /\ MaxConfigures \in Nat
  /\ \A list \in ArgLists : list \in Seq(Range(list)) /\ \A arg \in Range(list) :
       /\ arg = [dashes |-> arg.dashes, name |-> arg.name, eq |-> arg.eq, value |-> arg.value]
       /\ arg.dashes \in 0..2 /\ arg.name \in Seq(Range(arg.name)) /\ arg.eq \in BOOLEAN
       /\ ~arg.eq => arg.value = Absent

VARIABLES
  style, ignorable, args,   \* the set-up, which nothing changes
  pc,           \* what Configure is doing, or how it ended
  passes,       \* how many calls of Configure have begun
  h,            \* the handler that parses
  i,            \* the index of the next argument
  pending,      \* what is left of a cluster of short flags
  tables,       \* the flag tables of all handlers (FlagTable)
  requests,     \* the handlers whose models were requested, in order
  selected,     \* selectedSubcommand of the main handler, or Root
  parsed,       \* the handlers with alreadyParsed
  helped,       \* the handlers with helpAlreadyAdded
  preference,   \* the alternatives of the handler's mapRE, in order
  remainder,    \* for each handler, its remainder
  todo,         \* the fields still to fill
  result,       \* what Fill made of each field in this pass
  imports,      \* for each imported flag, the calls of its Set in this pass
  earlier,      \* what the pass before came to
  role          \* what became of each argument in this pass

setup == <<style, ignorable, args>>
outcome == <<todo, result, imports>>
vars == <<setup, pc, passes, h, i, pending, tables, requests, selected, parsed,
          helped, preference, remainder, outcome, earlier, role>>

Final == {"done", "error", "clash", "internal", "panic", "usage"}

Terminated == pc \in Final

AllFields == UNION {{<<g, k>> : k \in DOMAIN Fields[g]} : g \in Handlers}

Init ==
  /\ style \in Styles /\ ignorable \in Ignorables /\ args \in ArgLists
  /\ pc = "start" /\ passes = 0
  /\ h = Root /\ i = 1 /\ pending = <<>>
  /\ tables = InitialTables
  /\ requests = <<Root>> /\ selected = Root
  /\ parsed = {} /\ helped = {}
  /\ preference = <<>>
  /\ remainder = [g \in Handlers |-> <<>>]
  /\ todo = <<>>
  /\ result = [f \in AllFields |-> Unfilled]
  /\ imports = [id \in ImportedIds |-> <<>>]
  /\ earlier = <<>>
  /\ role = [p \in DOMAIN args |-> "none"]
-----------------------------------------------------------------------------
(* Ending the whole with an error of parsing, an exit or a panic. *)
Stop(how) ==
  /\ pc' = how
  /\ UNCHANGED <<setup, passes, h, i, pending, tables, requests, selected, parsed,
                 helped, preference, remainder, outcome, earlier, role>>

Walked(walked) ==
  IF walked.outcome = "ok" THEN "begin" ELSE walked.outcome

(* The walk of requests ends with the first one that fails. *)
WalkRequests(tables0, handlers) ==
  FoldLeft(LAMBDA t, g : IF t.outcome = "ok" THEN PreWalk(t, g) ELSE t, tables0, handlers)

(* Configure walks the models of all requests: of the main handler's, and  *)
(* on a second call those of the subcommands selected before, too.         *)
Configure ==
  /\ pc \in {"start", "done", "error"}
  /\ passes < MaxConfigures
  /\ LET walked == WalkRequests([tables EXCEPT !.outcome = "ok"], requests)
     IN  tables' = walked /\ pc' = Walked(walked)
  /\ passes' = passes + 1
  /\ h' = Root /\ i' = 1 /\ pending' = <<>> /\ todo' = <<>>
  /\ earlier' = IF passes = 0 THEN <<>> ELSE <<pc, result, imports, remainder>>
  /\ result' = [f \in AllFields |-> Unfilled]
  /\ imports' = [id \in ImportedIds |-> <<>>]
  /\ role' = [p \in DOMAIN args |-> "none"]
  /\ UNCHANGED <<setup, requests, selected, parsed, helped, preference, remainder>>

(* clearParse goes down to the subcommand selected by the last parse. *)
ClearedBy(g) == {g} \cup (IF g = Root THEN {selected} ELSE {})

Forget(refs, cleared) ==
  [id \in DOMAIN refs |-> IF id[1] \in cleared THEN Cleared(refs[id]) ELSE refs[id]]

HelpKey(g) == <<g, "long", HelpName>>
HelpId(g)  == <<g, "help", 0>>

(* addHelpFlagAndCommand: the main handler adds help to all subcommands.   *)
GetHelp(g) ==
  IF g \in helped \/ g \notin HelpTexts THEN {}
  ELSE IF g = Root THEN Handlers \ helped ELSE {g}

(* Whether the word "help" is a subcommand of the handler. *)
HasHelpCommand(g) ==
  g \in helped /\ (IF g = Root THEN Commands # {} ELSE Root \in HelpTexts)

PrefixNames(g) == {key[3] : key \in {q \in DOMAIN tables.at : q[1] = g /\ q[2] = "map"}}

(* The preparations of parseFlags.  Go ranges over mapFlags in any order.  *)
Begin ==
  /\ pc = "begin"
  /\ parsed' = parsed \cup {h}
  /\ selected' = IF h \in parsed /\ h = Root THEN Root ELSE selected
  /\ LET kept  == IF h \in parsed THEN Forget(tables.refs, ClearedBy(h)) ELSE tables.refs
         added == GetHelp(h)
     IN  IF \E g \in added : HelpKey(g) \in DOMAIN tables.at
         THEN /\ pc' = "clash"
              /\ tables' = [tables EXCEPT !.refs = kept]
              /\ UNCHANGED <<helped, preference>>
         ELSE /\ pc' = "args"
              /\ tables' = [tables EXCEPT
                   !.at = [key \in DOMAIN @ \cup {HelpKey(g) : g \in added} |->
                             IF key \in DOMAIN @ THEN @[key] ELSE HelpId(key[1])],
                   !.refs = [id \in DOMAIN kept \cup {HelpId(g) : g \in added} |->
                               IF id \in DOMAIN kept THEN kept[id] ELSE PlainRef("bool")]]
              /\ helped' = helped \cup added
              /\ preference' \in {order \in [1..Cardinality(PrefixNames(h)) -> PrefixNames(h)] :
                                    IsInjective(order)}
  /\ UNCHANGED <<setup, passes, h, i, pending, requests, remainder, outcome, earlier, role>>
-----------------------------------------------------------------------------
Arg == args[i]
Parsing == pc = "args" /\ pending = <<>> /\ i <= Len(args)
DashDash == [dashes |-> 2, name |-> <<>>, eq |-> FALSE, value |-> Absent]
Dash     == [dashes |-> 1, name |-> <<>>, eq |-> FALSE, value |-> Absent]

(* Both constructors take long flags with two dashes, GoFlagHandler with   *)
(* one dash too, if there is more than one character.                      *)
IsLong(arg) ==
  /\ arg # DashDash
  /\ \/ arg.dashes = 2
     \/ style = "go" /\ arg.dashes = 1 /\ (Len(arg.name) > 1 \/ arg.eq)

IsShort(arg) == arg.dashes = 1 /\ arg # Dash /\ ~IsLong(arg)

Ignored(name) == name \in DOMAIN ignorable

(* MUTANT: nobody looks whether there is an argument left. *)
SkipsBlindly(name, j) == IF Ignored(name) /\ ignorable[name] THEN 1 ELSE 0

(* skipNextArgumentIfNotFlag, called with the index j. *)
Skips(name, j) ==
  IF /\ Ignored(name) /\ ignorable[name]
     /\ j + 1 <= Len(args)
     /\ args[j + 1].dashes = 0
  THEN 1 ELSE 0

(* MUTANT: the arguments of a flag are looked at once more. *)
AdvanceShort(n, s) ==
  /\ i' = i + (IF n > 1 THEN n - 1 ELSE n) + s + 1
  /\ role' = [p \in DOMAIN role |->
                IF p = i THEN "flag"
                ELSE IF p \in (i + 1)..(i + n) THEN "value"
                ELSE IF p \in (i + n + 1)..(i + n + s) THEN "skipped"
                ELSE role[p]]
  /\ UNCHANGED <<setup, pc, passes, h, pending, requests, selected, parsed, helped,
                 preference, remainder, outcome, earlier>>

(* The loop goes on behind the flag and the n arguments it took, and skips *)
(* the s next ones.                                                        *)
Advance(n, s) ==
  /\ i' = i + n + s + 1
  /\ role' = [p \in DOMAIN role |->
                IF p = i THEN "flag"
                ELSE IF p \in (i + 1)..(i + n) THEN "value"
                ELSE IF p \in (i + n + 1)..(i + n + s) THEN "skipped"
                ELSE role[p]]
  /\ UNCHANGED <<setup, pc, passes, h, pending, requests, selected, parsed, helped,
                 preference, remainder, outcome, earlier>>

Update(id, ref) == tables' = [tables EXCEPT !.refs[id] = ref]

Following(n) == SubSeq(args, i + 1, i + n)

(* Whether the arguments that the flag needs are there. *)
Supplied(ref) ==
  i + Arity(ref) <= Len(args) /\ Acceptable(ref, Following(Arity(ref)))

(* MUTANT: a subcommand knows the flags of the main handler. *)
LongKeyInherited(name) ==
  IF <<h, "long", name>> \in DOMAIN tables.at THEN <<h, "long", name>>
  ELSE <<Root, "long", name>>

LongKey(name) == <<h, "long", name>>
LongRef(name) == tables.at[LongKey(name)]
IsLongFlag(name) == LongKey(name) \in DOMAIN tables.at

Spelled(arg) == <<arg.dashes, arg.name>>

(* Only the loop's branch for two dashes skips the argument of an ignored  *)
(* long flag, and it does so for defined flags as well.                    *)
SkipsAfterLong(j) ==
  IF Arg.dashes = 2 /\ ~Arg.eq THEN Skips(Arg.name, j) ELSE 0

(* --name *)
LongFlag ==
  /\ Parsing /\ IsLong(Arg) /\ ~Arg.eq /\ IsLongFlag(Arg.name)
  /\ LET id == LongRef(Arg.name)
         ref == tables.refs[id]
         n == Arity(ref)
     IN  /\ Supplied(ref)
         /\ Update(id, GiveFollowing(ref, Following(n), Spelled(Arg)))
         /\ Advance(n, SkipsAfterLong(i + n))

(* --name=value *)
LongFlagWithValue ==
  /\ Parsing /\ IsLong(Arg) /\ Arg.eq /\ IsLongFlag(Arg.name)
  /\ LET id == LongRef(Arg.name)
         ref == tables.refs[id]
     IN  /\ ref.explode = 0
         /\ Update(id, GiveValue(ref, Arg.value, Spelled(Arg)))
         /\ Advance(0, 0)

IsNegated(name) ==
  /\ style = "posix" /\ Len(name) > 1 /\ name[1] = "no-"
  /\ IsLongFlag(Tail(name)) /\ tables.refs[LongRef(Tail(name))].kind = "bool"

(* --no-name *)
NegatedFlag ==
  /\ Parsing /\ IsLong(Arg) /\ ~Arg.eq
  /\ ~IsLongFlag(Arg.name) /\ IsNegated(Arg.name)
  /\ LET id == LongRef(Tail(Arg.name))
     IN  Update(id, Give(tables.refs[id], <<No>>, Spelled(Arg)))
  /\ Advance(0, SkipsAfterLong(i))

(* The name of a prefix map and the key run together.  The first           *)
(* alternative of mapRE that leaves a key wins.                            *)
PrefixOf(name) ==
  LET fits == {n \in DOMAIN preference : /\ Len(preference[n]) < Len(name)
                                         /\ IsPrefix(preference[n], name)}
  IN  IF fits = {} THEN <<>> ELSE preference[Min(fits)]

(* --namekey=value *)
PrefixedFlag ==
  /\ Parsing /\ IsLong(Arg) /\ Arg.eq
  /\ ~IsLongFlag(Arg.name) /\ PrefixOf(Arg.name) # <<>>
  /\ LET n == PrefixOf(Arg.name)
         id == tables.at[<<h, "map", n>>]
     IN  Update(id, GivePrefixed(tables.refs[id], SubSeq(Arg.name, Len(n) + 1, Len(Arg.name)),
                                 Arg.value, <<Arg.dashes, n>>))
  /\ Advance(0, 0)

Undefined ==
  /\ ~IsLongFlag(Arg.name)
  /\ IF Arg.eq THEN PrefixOf(Arg.name) = <<>> ELSE ~IsNegated(Arg.name)

IgnoredLongFlag ==
  /\ Parsing /\ IsLong(Arg) /\ Undefined /\ Ignored(Arg.name)
  /\ Advance(0, SkipsAfterLong(i))
  /\ UNCHANGED tables

(* Every other long flag is a usage error: it is not defined, lacks its    *)
(* arguments, or takes several and cannot stand with an equals sign.       *)
BadLongFlag ==
  /\ Parsing /\ IsLong(Arg)
  /\ \/ Undefined /\ ~Ignored(Arg.name)
     \/ /\ IsLongFlag(Arg.name)
        /\ LET ref == tables.refs[LongRef(Arg.name)]
           IN  IF Arg.eq THEN ref.explode # 0 ELSE ~Supplied(ref)
  /\ Stop("error")
-----------------------------------------------------------------------------
ShortKey(c) == <<h, "short", <<c>>>>
IsShortFlag(c) == ShortKey(c) \in DOMAIN tables.at

(* PosixFlagHandler: one dash and any number of short flags. *)
Cluster ==
  /\ Parsing /\ style = "posix" /\ IsShort(Arg)
  /\ pending' = IF Arg.eq THEN Append(Arg.name, "=") ELSE Arg.name
  /\ role' = [role EXCEPT ![i] = "flag"]
  /\ UNCHANGED <<setup, pc, passes, h, i, tables, requests, selected, parsed, helped,
                 preference, remainder, outcome, earlier>>

InCluster == pc = "args" /\ pending # <<>>

(* MUTANT: the next flag of the cluster begins at the same argument. *)
AdvanceInClusterStuck(n) ==
  /\ pending' = Tail(pending)
  /\ i' = i + (IF Len(pending) = 1 THEN n + 1 ELSE 0)
  /\ role' = [p \in DOMAIN role |-> IF p \in (i + 1)..(i + n) THEN "value" ELSE role[p]]
  /\ UNCHANGED <<setup, pc, passes, h, requests, selected, parsed, helped,
                 preference, remainder, outcome, earlier>>

(* Going on with the cluster.  While it lasts, i is the index of the last  *)
(* argument that was used; behind it the loop adds one.                    *)
AdvanceInCluster(n) ==
  /\ pending' = Tail(pending)
  /\ i' = i + n + (IF Len(pending) = 1 THEN 1 ELSE 0)
  /\ role' = [p \in DOMAIN role |-> IF p \in (i + 1)..(i + n) THEN "value" ELSE role[p]]
  /\ UNCHANGED <<setup, pc, passes, h, requests, selected, parsed, helped,
                 preference, remainder, outcome, earlier>>

(* handleShort ignores a flag before it looks whether it is defined. *)
ClusteredFlag ==
  /\ InCluster /\ ~Ignored(<<Head(pending)>>) /\ IsShortFlag(Head(pending))
  /\ LET id == tables.at[ShortKey(Head(pending))]
         ref == tables.refs[id]
         n == Arity(ref)
     IN  /\ Supplied(ref)
         /\ Update(id, GiveFollowing(ref, Following(n), <<1, <<Head(pending)>>>>))
         /\ AdvanceInCluster(n)

IgnoredInCluster ==
  /\ InCluster /\ Ignored(<<Head(pending)>>)
  /\ AdvanceInCluster(0)
  /\ UNCHANGED tables

BadShort(c) ==
  /\ ~Ignored(<<c>>)
  /\ IsShortFlag(c) => ~Supplied(tables.refs[tables.at[ShortKey(c)]])

BadInCluster == InCluster /\ BadShort(Head(pending)) /\ Stop("error")

(* GoFlagHandler: one dash and one character. *)
ShortFlag ==
  /\ Parsing /\ style = "go" /\ IsShort(Arg)
  /\ ~Ignored(Arg.name) /\ IsShortFlag(Arg.name[1])
  /\ LET id == tables.at[ShortKey(Arg.name[1])]
         ref == tables.refs[id]
         n == Arity(ref)
     IN  /\ Supplied(ref)
         /\ Update(id, GiveFollowing(ref, Following(n), Spelled(Arg)))
         /\ Advance(n, 0)

IgnoredShortFlag ==
  /\ Parsing /\ style = "go" /\ IsShort(Arg) /\ Ignored(Arg.name)
  /\ Advance(0, Skips(Arg.name, i))
  /\ UNCHANGED tables

BadShortFlag ==
  /\ Parsing /\ style = "go" /\ IsShort(Arg)
  /\ BadShort(Arg.name[1])
  /\ Stop("error")
-----------------------------------------------------------------------------
IsWord(arg) == arg.dashes = 0 \/ arg = Dash

IsCommand(arg) == arg.dashes = 0 /\ ~arg.eq /\ h = Root /\ arg.name \in Commands

(* The command "help" prints the usage in its OnActivate. *)
HelpCommand ==
  /\ Parsing /\ Arg = Text(HelpName) /\ HasHelpCommand(h)
  /\ Stop("usage")

(* A subcommand: its model is requested, which walks it at once because    *)
(* Configure has started, and its handler parses the rest.                 *)
Subcommand ==
  /\ Parsing /\ IsCommand(Arg)
  /\ LET walked == PreWalk(tables, Arg.name)
     IN  /\ tables' = walked
         /\ pc' = Walked(walked)
         /\ IF walked.outcome = "ok"
            THEN /\ selected' = Arg.name /\ h' = Arg.name /\ i' = i + 1
                 /\ role' = [role EXCEPT ![i] = "command"]
            ELSE UNCHANGED <<selected, h, i, role>>
  /\ requests' = Append(requests, Arg.name)
  /\ UNCHANGED <<setup, passes, pending, parsed, helped, preference, remainder,
                 outcome, earlier>>

(* The end of parseFlags, with these arguments left.  A --help flag that   *)
(* was seen prints the usage.                                              *)
Finish(rest) ==
  /\ IF Len(rest) > 0 /\ h \in NoPositional
     THEN pc' = "error" /\ UNCHANGED remainder
     ELSE IF h \in helped /\ tables.refs[HelpId(h)].values # <<>>
     THEN pc' = "usage" /\ UNCHANGED remainder
     ELSE pc' = "import" /\ remainder' = [remainder EXCEPT ![h] = rest]
  /\ UNCHANGED <<setup, passes, h, i, pending, tables, requests, selected, parsed,
                 helped, preference, outcome, earlier>>

EndOfFlags ==
  /\ Parsing /\ Arg = DashDash
  /\ Finish(SubSeq(args, i + 1, Len(args)))
  /\ role' = [role EXCEPT ![i] = "end"]

Positional ==
  /\ Parsing /\ IsWord(Arg) /\ ~IsCommand(Arg)
  /\ ~(Arg = Text(HelpName) /\ HasHelpCommand(h))
  /\ Finish(SubSeq(args, i, Len(args)))
  /\ UNCHANGED role

EndOfArgs ==
  /\ pc = "args" /\ pending = <<>> /\ i > Len(args)
  /\ Finish(<<>>)
  /\ UNCHANGED role
-----------------------------------------------------------------------------
(* What an imported flag is set to: all its values, or its default.        *)
ImportsOf(id) ==
  IF id[1] \notin {Root, selected} THEN <<>>
  ELSE IF tables.refs[id].values # <<>> THEN tables.refs[id].values
  ELSE IF Imported[id[1]][id[3]].default THEN <<"default">> ELSE <<>>

Accepted(id) == ToSet(ImportsOf(id)) \cap Imported[id[1]][id[3]].refused = {}

(* importFlags: those of the main handler and of the selected subcommand.  *)
(* A refused value ends Configure; what was set before it is not told.     *)
ImportFlags ==
  /\ pc = "import"
  /\ IF \A id \in ImportedIds : Accepted(id)
     THEN /\ imports' = [id \in ImportedIds |-> ImportsOf(id)]
          /\ todo' = FoldLeft(LAMBDA fields, g : fields \o [k \in DOMAIN Fields[g] |-> <<g, k>>],
                              <<>>, requests)
          /\ pc' = "fill"
     ELSE pc' = "error" /\ UNCHANGED <<imports, todo>>
  /\ UNCHANGED <<setup, passes, h, i, pending, tables, requests, selected, parsed,
                 helped, preference, remainder, result, earlier, role>>

(* MUTANT: prefix maps are not looked up. *)
DecidingNoMaps(f) ==
  {n \in DOMAIN KeysOf(f[1], f[2]) :
     LET key == KeysOf(f[1], f[2])[n]
     IN  key[2] # "map" /\ (key \in DOMAIN tables.at => tables.refs[tables.at[key]].values # <<>>)}

(* The names of a field that are not in the tables, or have values.        *)
Deciding(f) ==
  {n \in DOMAIN KeysOf(f[1], f[2]) :
     LET key == KeysOf(f[1], f[2])[n]
     IN  key \in DOMAIN tables.at => tables.refs[tables.at[key]].values # <<>>}

AfterFilling(filled) ==
  CASE filled.error = "none"  -> "fill"
    [] filled.error = "usage" -> "error"
    [] filled.error = "panic" -> "panic"

(* Fill of one field of a model, from the first of these names. *)
FillField ==
  /\ pc = "fill" /\ todo # <<>>
  /\ LET f == Head(todo)
         key == KeysOf(f[1], f[2])[Min(Deciding(f))]
         id == tables.at[key]
         field == Fields[f[1]][f[2]]
         filled == FillFrom(tables.refs[id], field)
     IN  IF Deciding(f) = {}
         THEN /\ result' = [result EXCEPT ![f] = Unfilled]
              /\ UNCHANGED <<pc, tables>>
         ELSE IF key \notin DOMAIN tables.at
         THEN pc' = "internal" /\ UNCHANGED <<tables, result>>
         ELSE /\ result' = [result EXCEPT ![f] = filled]
              /\ Update(id, AfterFill(tables.refs[id], field))
              /\ pc' = AfterFilling(filled)
  /\ todo' = Tail(todo)
  /\ UNCHANGED <<setup, passes, h, i, pending, requests, selected, parsed, helped,
                 preference, remainder, imports, earlier, role>>

(* ConfigureComplete hands the remainders to OnStart. *)
Complete ==
  /\ pc = "fill" /\ todo = <<>>
  /\ pc' = "done"
  /\ UNCHANGED <<setup, passes, h, i, pending, tables, requests, selected, parsed,
                 helped, preference, remainder, outcome, earlier, role>>

Next ==
  \/ Configure \/ Begin
  \/ LongFlag \/ LongFlagWithValue \/ NegatedFlag \/ PrefixedFlag
  \/ IgnoredLongFlag \/ BadLongFlag
  \/ Cluster \/ ClusteredFlag \/ IgnoredInCluster \/ BadInCluster
  \/ ShortFlag \/ IgnoredShortFlag \/ BadShortFlag
  \/ HelpCommand \/ Subcommand
  \/ EndOfFlags \/ Positional \/ EndOfArgs
  \/ ImportFlags \/ FillField \/ Complete

Spec == Init /\ [][Next]_vars
-----------------------------------------------------------------------------
(* The types of the handler's state; the tables point at known entries.    *)
TypeOK ==
  /\ style \in {"posix", "go"}
  /\ pc \in {"start", "begin", "args", "import", "fill"} \cup Final
  /\ passes \in 0..MaxConfigures
  /\ h \in Handlers /\ selected \in Handlers
  /\ i \in 1..(Len(args) + 1)
  /\ parsed \subseteq Handlers /\ helped \subseteq Handlers
  /\ \A key \in DOMAIN tables.at : tables.at[key] \in DOMAIN tables.refs
  /\ tables.outcome \in {"ok", "error", "panic"}
  /\ DOMAIN remainder = Handlers
  /\ DOMAIN result = AllFields

ParseEnded == pc \in {"import", "fill", "done"}

(* No argument is lost and none is used twice: after a parse without error *)
(* every argument was a flag, the value of a flag, skipped for an ignored  *)
(* flag, a subcommand or the closing "--", up to those that OnStart gets   *)
(* as the remainder (flags_parse.go:166-256, i of the outer loop and of    *)
(* handleFollowingArgs).                                                   *)
EveryArgumentOnce ==
  ParseEnded =>
    LET left == Len(args) - Len(remainder[h])
    IN  /\ remainder[h] = SubSeq(args, left + 1, Len(args))
        /\ \A p \in DOMAIN args : role[p] = "none" <=> p > left

(* An error about the value of a flag can always name the flag: used has   *)
(* an entry for every value (ref.used[i], flags_parse.go:343-413).         *)
EveryValueIsNamed ==
  \A id \in DOMAIN tables.refs :
    Len(tables.refs[id].values) <= Len(tables.refs[id].used)

(* A requested model has a name that an imported flag or --help has.       *)
NameIsTaken ==
  \E g \in ToSet(requests) : \E k \in DOMAIN Fields[g] : \E key \in ToSet(KeysOf(g, k)) :
    key \in DOMAIN tables.at /\ ~tables.refs[tables.at[key]].settable

(* A map=explode flag was used in both ways: with the pair following, and  *)
(* with an equals sign.                                                    *)
PairsInBothWays ==
  \E key \in DOMAIN tables.at :
    LET ref == tables.refs[tables.at[key]]
    IN  /\ ref.kind = "map" /\ ref.keys # <<>>
        /\ \E p \in DOMAIN args : /\ args[p].dashes > 0 /\ args[p].eq
                                  /\ key = <<key[1], "long", args[p].name>>

(* The handler panics for two reasons only: a model has a name of --help   *)
(* or of an imported flag, when it is walked (flags_parse.go:544), or a    *)
(* map flag was used in both ways, when its field is filled (365).  Else,  *)
(* Fill finds every name that it looks up, in the table in which PreWalk   *)
(* entered it (303-321, 512-551).                                          *)
PanicsAreKnown ==
  /\ pc = "panic" => NameIsTaken \/ PairsInBothWays
  /\ pc # "internal"

(* The names of a field whose flags were used.                             *)
UsedNames(f) ==
  {n \in DOMAIN KeysOf(f[1], f[2]) : tables.refs[tables.at[KeysOf(f[1], f[2])[n]]].used # <<>>}

(* The first of them decides.  It gives the field a value, except that the *)
(* pairs of a map are lost if all stand behind an equals sign.             *)
GivesValue(f) ==
  /\ UsedNames(f) # {}
  /\ LET ref == tables.refs[tables.at[KeysOf(f[1], f[2])[Min(UsedNames(f))]]]
     IN  ref.kind \in Keyed => ref.keys # <<>>

(* The values of one of its flags were dropped to fit an array of length 0.*)
IsEmptied(f) ==
  \E key \in ToSet(KeysOf(f[1], f[2])) :
    LET ref == tables.refs[tables.at[key]]
    IN  ref.used # <<>> /\ ref.values = <<>>

(* A flag that was used fills every field that has its name, whichever     *)
(* field entered it and whatever its other fields made of it, and a field  *)
(* none of whose flags was used is left to other fillers; the exceptions   *)
(* are --map=key=value and arrays of length zero (flags_parse.go:303-420). *)
GivenIsFilled ==
  pc = "done" =>
    \A g \in {Root, selected} : \A k \in DOMAIN Fields[g] :
      ~IsEmptied(<<g, k>>) => (result[<<g, k>>].filled <=> GivesValue(<<g, k>>))

(* "After a subcommand, only flags defined in the configModel argument     *)
(* will be recognized" (flags_command.go:526): the subcommand's handler    *)
(* gives no value to a flag of the main handler.                           *)
SubcommandsHaveTheirOwnFlags ==
  [][(h # Root /\ pc = "args") =>
       \A id \in DOMAIN tables.refs :
         id[1] # h => tables'.refs[id] = tables.refs[id]]_vars

(* Configure may be called again: the same arguments end in the same way   *)
(* and give the same fields, imported flags and remainders, since          *)
(* parseFlags forgets what the parse before it gave, even one that failed  *)
(* (flags_parse.go:47-50, flags_command.go:552).                           *)
ReconfigureRepeats ==
  (Terminated /\ passes > 1) =>
    /\ pc = earlier[1]
    /\ pc = "done" => earlier = <<pc, result, imports, remainder>>
=============================================================================

----------------------------- MODULE Subcommands -----------------------------
(***************************************************************************)
(* The tree of flag handlers (flags_command.go): AddSubcommand, at any     *)
(* depth and from callbacks; the way of Configure down the tree, as the    *)
(* arguments select subcommands (flags_parse.go), and back up through the  *)
(* OnStart callbacks; and help, which addHelpFlagAndCommand adds to every  *)
(* handler below one that has a help text, when that one begins to parse.  *)
(*                                                                         *)
(* A handler is an index into tree.  Of its flags only --help is told      *)
(* apart; the rest of parsing is FlagParse.                                *)
(***************************************************************************)
EXTENDS Naturals, SequencesExt, FiniteSetsExt, TLC

CONSTANTS
  Names,        \* the words that the program makes commands
  Kinds,        \* what handlers are made with: records of text and model
  ArgLists,     \* the possible command lines
  MaxHandlers,  \* bound: handlers made
  MaxPasses     \* bound: calls of Configure

(* A model is "none", "plain", or one of whose flags is --help: "word" if *)
(* that flag takes an argument, "help" if not.                             *)
OwnHelp == {"help", "word"}

ASSUME KindAssumption ==
  \A k \in Kinds : k.text \in BOOLEAN /\ k.model \in {"none", "plain"} \cup OwnHelp

(* Command lines are sequences; no command is called as if there were none.*)
ASSUME InputAssumption ==
  /\ \A list \in ArgLists : Len(list) \in Nat
  /\ "none" \notin Names

VARIABLES
  args,       \* the command line of this pass
  tree,       \* the handlers
  pc,         \* where Configure is, or how it ended
  passes,     \* how many times Configure has been called
  cur, i,     \* the handler that parses and the index of its next argument
  frames,     \* the calls of addHelpFlagAndCommand that have not returned
  asked,      \* the handlers whose flag --help has been used
  todo,       \* the calls of ConfigureComplete that have not returned
  chain,      \* history: the handlers that have parsed in this pass
  started,    \* history: the handlers whose OnStart was called in this pass
  own, late,  \* history: those made with a help text, or below one that had help
  refused     \* history: help has clashed with a flag or command

vars == <<args, tree, pc, passes, cur, i, frames, asked, todo, chain, started,
          own, late, refused>>
parsing == <<cur, i, frames, asked, todo>>
history == <<chain, started, own, late, refused>>

Root  == 1
Usage == 0      \* the command "help" of a handler: its OnActivate prints the usage
None  == "none" \* no subcommand is selected

Outside == {"rest", "done", "error"}
Exits   == {"usage", "panic"}

NewHandler(kind) ==
  [subs |-> <<>>, text |-> kind.text, model |-> kind.model, flag |-> "none",
   added |-> FALSE, parsed |-> FALSE, selected |-> None]

Init ==
  /\ args \in ArgLists
  /\ \E kind \in Kinds : /\ tree = <<NewHandler(kind)>>
                         /\ own = IF kind.text THEN {Root} ELSE {}
  /\ pc = "rest" /\ passes = 0
  /\ cur = Root /\ i = 1 /\ frames = <<>> /\ asked = {} /\ todo = <<>>
  /\ chain = <<>> /\ started = <<>> /\ late = {} /\ refused = FALSE

Me == tree[cur]
-----------------------------------------------------------------------------
(* A command that is there already gives way to the new one. *)
WithCommand(subs, name, target) ==
  [n \in DOMAIN subs \cup {name} |-> IF n = name THEN target ELSE subs[n]]

(* AddSubcommand: by the program between calls of Configure, by the        *)
(* OnActivate callback, to the handler it is given, and by OnStart         *)
(* callbacks.                                                              *)
Add(h, name, kind) ==
  /\ \/ pc \in {"rest", "done", "error", "complete"}
     \/ pc = "activate" /\ h = cur
  /\ Len(tree) < MaxHandlers
  /\ LET new == Len(tree) + 1
     IN  /\ tree' = Append([tree EXCEPT ![h].subs = WithCommand(@, name, new)], NewHandler(kind))
         /\ own' = IF kind.text THEN own \cup {new} ELSE own
         /\ late' = IF tree[h].added THEN late \cup {new} ELSE late
  /\ UNCHANGED <<args, pc, passes, parsing, chain, started, refused>>

(* PreWalk of the model of a handler. *)
WithModel(h) == IF tree[h].model \in OwnHelp THEN [tree EXCEPT ![h].flag = "own"] ELSE tree

(* Configure walks the models and activates the handler it knows.  Its     *)
(* arguments are the array of os.Args, which the program may have written  *)
(* to; no other number of arguments fits in.                               *)
Configure ==
  /\ pc \in Outside /\ passes < MaxPasses
  /\ passes' = passes + 1
  /\ args' \in {list \in ArgLists : Len(list) = Len(args)}
  /\ tree' = WithModel(Root)
  /\ pc' = "activate" /\ cur' = Root /\ i' = 1
  /\ chain' = <<>> /\ started' = <<>>
  /\ UNCHANGED <<frames, asked, todo, own, late, refused>>

Goto(where) ==
  /\ pc' = where
  /\ UNCHANGED <<args, tree, passes, parsing, history>>

(* OnActivate returns, with or without an error. *)
ActivateReturns == pc = "activate" /\ (Goto("parse") \/ Goto("error"))

(* The handlers from h down, along the selected subcommands. *)
Selected(h) ==
  LET down[g \in DOMAIN tree] ==
        IF tree[g].selected = None THEN <<g>>
        ELSE <<g>> \o down[tree[g].subs[tree[g].selected]]
  IN  down[h]

(* MUTANT: clearParse leaves the selections as they are. *)
BeginParseSelected ==
  /\ pc = "parse"
  /\ tree' = [tree EXCEPT ![cur].parsed = TRUE]
  /\ asked' = IF Me.parsed THEN asked \ ToSet(Selected(cur)) ELSE asked
  /\ frames' = <<[at |-> cur, force |-> FALSE, entered |-> FALSE, subs |-> {}]>>
  /\ pc' = "help"
  /\ chain' = Append(chain, cur)
  /\ UNCHANGED <<args, passes, cur, i, todo, started, own, late, refused>>

(* parseFlags begins: clearParse if it has parsed before, then help. *)
BeginParse ==
  /\ pc = "parse"
  /\ LET cleared == IF Me.parsed THEN ToSet(Selected(cur)) ELSE {}
     IN  /\ tree' = [h \in DOMAIN tree |->
                       [tree[h] EXCEPT !.selected = IF h \in cleared THEN None ELSE @,
                                       !.parsed = @ \/ h = cur]]
         /\ asked' = asked \ cleared
  /\ frames' = <<[at |-> cur, force |-> FALSE, entered |-> FALSE, subs |-> {}]>>
  /\ pc' = "help"
  /\ chain' = Append(chain, cur)
  /\ UNCHANGED <<args, passes, cur, i, todo, started, own, late, refused>>
-----------------------------------------------------------------------------
(* addHelpFlagAndCommand, which calls itself for the subcommands.          *)
Top == Last(frames)

Pop ==
  /\ frames' = Front(frames)
  /\ pc' = IF Len(frames) = 1 THEN "args" ELSE "help"
  /\ UNCHANGED <<asked, todo, refused>>

(* An error ends the calls above, too; what was added stays. *)
Refuse ==
  /\ frames' = <<>> /\ pc' = "error" /\ refused' = TRUE
  /\ UNCHANGED <<asked, todo>>

(* MUTANT: the commands are looked at before the flag is entered. *)
EnterHelpCommandFirst ==
  /\ pc = "help" /\ ~Top.entered
  /\ LET h == Top.at
     IN  IF tree[h].added \/ ~tree[h].text THEN Pop /\ UNCHANGED tree
         ELSE IF tree[h].flag # "none" \/ "help" \in DOMAIN tree[h].subs
         THEN Refuse /\ tree' = [tree EXCEPT ![h].added = TRUE]
         ELSE /\ tree' = [tree EXCEPT ![h].added = TRUE, ![h].flag = "help"]
              /\ frames' = [frames EXCEPT ![Len(frames)] =
                   [@ EXCEPT !.entered = TRUE, !.subs = DOMAIN tree[h].subs]]
              /\ UNCHANGED <<pc, asked, todo, refused>>
  /\ UNCHANGED <<args, passes, cur, i, chain, started, own, late>>

EnterHelp ==
  /\ pc = "help" /\ ~Top.entered
  /\ LET h == Top.at
     IN  IF tree[h].added \/ ~tree[h].text THEN Pop /\ UNCHANGED tree
         ELSE IF tree[h].flag # "none"
         THEN Refuse /\ tree' = [tree EXCEPT ![h].added = TRUE]
         ELSE /\ tree' = [tree EXCEPT ![h].added = TRUE, ![h].flag = "help"]
              /\ IF "help" \in DOMAIN tree[h].subs THEN Refuse
                 ELSE /\ frames' = [frames EXCEPT ![Len(frames)] =
                            [@ EXCEPT !.entered = TRUE, !.subs = DOMAIN tree[h].subs]]
                      /\ UNCHANGED <<pc, asked, todo, refused>>
  /\ UNCHANGED <<args, passes, cur, i, chain, started, own, late>>

(* MUTANT: a subcommand without a help text keeps having none. *)
NextSubAsItIs ==
  /\ pc = "help" /\ Top.entered /\ Top.subs # {}
  /\ \E name \in Top.subs :
       frames' = Append([frames EXCEPT ![Len(frames)].subs = @ \ {name}],
                   [at |-> tree[Top.at].subs[name], force |-> TRUE, entered |-> FALSE, subs |-> {}])
  /\ UNCHANGED <<args, tree, pc, passes, cur, i, asked, todo, history>>

(* The next subcommand, in no particular order. *)
NextSub ==
  /\ pc = "help" /\ Top.entered /\ Top.subs # {}
  /\ \E name \in Top.subs :
       LET sub == tree[Top.at].subs[name]
       IN  /\ tree' = [tree EXCEPT ![sub].text = TRUE]
           /\ frames' = Append([frames EXCEPT ![Len(frames)].subs = @ \ {name}],
                          [at |-> sub, force |-> TRUE, entered |-> FALSE, subs |-> {}])
  /\ UNCHANGED <<args, pc, passes, cur, i, asked, todo, history>>

(* The command "help" comes last, to those with subcommands and to every   *)
(* subcommand.                                                             *)
LeaveHelp ==
  /\ pc = "help" /\ Top.entered /\ Top.subs = {}
  /\ Pop
  /\ LET h == Top.at
     IN  tree' = IF Top.force \/ tree[h].subs # <<>>
                 THEN [tree EXCEPT ![h].subs = WithCommand(@, "help", Usage)] ELSE tree
  /\ UNCHANGED <<args, passes, cur, i, chain, started, own, late>>
-----------------------------------------------------------------------------
(* The loop of parseFlags. *)
Reading == pc = "args" /\ i <= Len(args)

IsHelpFlag(arg) == arg = "--help"
IsCommand(arg)  == ~IsHelpFlag(arg) /\ arg \in DOMAIN Me.subs

(* The argument of --help, if it is a flag of the model that takes one. *)
Taken == IF Me.flag = "own" /\ Me.model = "word" THEN 1 ELSE 0

HelpFlag ==
  /\ Reading /\ IsHelpFlag(args[i])
  /\ IF Me.flag = "none" \/ i + Taken > Len(args) THEN pc' = "error" /\ UNCHANGED <<asked, i>>
     ELSE asked' = asked \cup {cur} /\ i' = i + 1 + Taken /\ UNCHANGED pc
  /\ UNCHANGED <<args, tree, passes, cur, frames, todo, history>>

(* MUTANT: the command is looked up in the main handler. *)
SelectInRoot ==
  /\ Reading /\ IsCommand(args[i]) /\ Me.subs[args[i]] # Usage
  /\ LET sub == Me.subs[args[i]]
     IN  /\ tree' = [WithModel(sub) EXCEPT ![Root].selected = args[i]]
         /\ pc' = "activate" /\ cur' = sub /\ i' = i + 1
  /\ UNCHANGED <<args, passes, frames, asked, todo, history>>

(* A subcommand: its model, if there is one, is requested, which walks it  *)
(* at once and may fail, and its OnActivate is called.  The --help that    *)
(* addHelpFlagAndCommand entered has no setters: PreWalk of another panics.*)
Select ==
  /\ Reading /\ IsCommand(args[i]) /\ Me.subs[args[i]] # Usage
  /\ LET sub == Me.subs[args[i]]
         clash == tree[sub].model \in OwnHelp /\ tree[sub].flag = "help"
     IN  \/ /\ tree[sub].model # "none"
            /\ pc' = IF clash THEN "panic" ELSE "error"
            /\ UNCHANGED <<tree, cur, i>>
         \/ /\ ~clash
            /\ tree' = [WithModel(sub) EXCEPT ![cur].selected = args[i]]
            /\ pc' = "activate" /\ cur' = sub /\ i' = i + 1
  /\ UNCHANGED <<args, passes, frames, asked, todo, history>>

HelpCommand == Reading /\ IsCommand(args[i]) /\ Me.subs[args[i]] = Usage /\ Goto("usage")

(* Where parsing ends: only now the handler looks whether its --help was   *)
(* used.                                                                   *)
Outcome ==
  CASE ~Me.text         -> "complete"
    [] Me.flag = "none" -> "panic"
    [] cur \in asked    -> "usage"
    [] OTHER            -> "complete"

(* The arguments end or the rest is positional, which may be refused.      *)
(* Without usage, flags are imported and requests filled, which may fail.  *)
(* ConfigureComplete then goes down the tree before the first OnStart.     *)
EndParse ==
  /\ pc = "args"
  /\ i <= Len(args) => ~IsHelpFlag(args[i]) /\ ~IsCommand(args[i])
  /\ \/ pc' = Outcome /\ todo' = IF Outcome = "complete" THEN Selected(Root) ELSE todo
     \/ pc' = "error" /\ (i <= Len(args) \/ Outcome = "complete") /\ UNCHANGED todo
  /\ UNCHANGED <<args, tree, passes, cur, i, frames, asked, history>>

(* An OnStart callback, the innermost first. *)
Start ==
  /\ pc = "complete" /\ todo # <<>>
  /\ todo' = Front(todo)
  /\ started' = Append(started, Last(todo))
  /\ pc' \in {"complete", "error"}
  /\ UNCHANGED <<args, tree, passes, cur, i, frames, asked, chain, own, late, refused>>

Done == pc = "complete" /\ todo = <<>> /\ Goto("done")

Next ==
  \/ \E h \in DOMAIN tree, name \in Names, kind \in Kinds : Add(h, name, kind)
  \/ Configure \/ ActivateReturns \/ BeginParse
  \/ EnterHelp \/ NextSub \/ LeaveHelp
  \/ HelpFlag \/ Select \/ HelpCommand \/ EndParse
  \/ Start \/ Done

Spec == Init /\ [][Next]_vars
-----------------------------------------------------------------------------
(* The types of the state: every selected command exists, every handler    *)
(* but the main one is new where it was added, and the calls of            *)
(* addHelpFlagAndCommand follow the tree down (flags_command.go:495-505).  *)
TypeOK ==
  /\ pc \in {"activate", "parse", "help", "args", "complete"} \cup Outside \cup Exits
  /\ cur \in DOMAIN tree /\ i \in 1..(Len(args) + 1)
  /\ \A h \in DOMAIN tree :
       /\ tree[h].selected # None => tree[h].selected \in DOMAIN tree[h].subs
       /\ \A name \in DOMAIN tree[h].subs :
            tree[h].subs[name] \in {Usage} \cup (h + 1)..Len(tree)
  /\ \A n \in 1..(Len(frames) - 1) :
       frames[n + 1].at \in Range(tree[frames[n].at].subs)

(* ConfigureComplete calls OnStart of exactly the handlers that parsed the *)
(* arguments of this pass, the innermost first, although commands may have *)
(* been replaced and a former pass has selected others, for it had other   *)
(* arguments or failed halfway (flags_command.go:275-290, 552-564, flags_parse.go:228-248).    *)
StartsWhatWasSelected ==
  /\ pc = "complete" => Reverse(todo) = SubSeq(Reverse(chain), Len(started) + 1, Len(chain))
  /\ pc = "done" => started = Reverse(chain)

(* Every handler that parses below one with a help text has --help, at     *)
(* whatever depth, and no other has, as long as help clashed with nothing. *)
(* Handlers that were added when their parent had help already have none.  *)
(* (flags_command.go:477-522)                                              *)
HelpReachesEveryHandler ==
  (pc = "args" /\ ~refused) =>
    (Me.flag = "help" <=>
       \E j \in DOMAIN chain : /\ chain[j] \in own
                               /\ \A k \in (j + 1)..Len(chain) : chain[k] \notin late)

(* A handler with a help text has a --help when it parses, even if an      *)
(* earlier pass was refused halfway: the end of parseFlags looks into the  *)
(* entry without asking whether it is there (flags_parse.go:257).          *)
HelpFlagIsThere ==
  (pc = "args" /\ Me.text) => Me.flag # "none"
=============================================================================

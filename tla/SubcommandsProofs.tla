-------------------------- MODULE SubcommandsProofs --------------------------
(***************************************************************************)
(* Theorems about Subcommands, for every tree of handlers, every command   *)
(* line and any number of calls of Configure: the tree stays a tree while  *)
(* callbacks add to it and help goes through it, no handler looks at a     *)
(* --help flag that is not there, and the calls of OnStart are those of    *)
(* the handlers that this parse went through, the main handler's last.     *)
(***************************************************************************)
EXTENDS Subcommands, SequenceTheorems, Induction

AllNames == Names \cup {"help"}

Commands == UNION {[S -> Nat] : S \in SUBSET AllNames}

Handler ==
  [subs : Commands, text : BOOLEAN,
   model : {"none", "plain"} \cup OwnHelp, flag : {"none", "own", "help"},
   added : BOOLEAN, parsed : BOOLEAN, selected : AllNames \cup {None}]

Frame == [at : Nat, force : BOOLEAN, entered : BOOLEAN, subs : SUBSET AllNames]

(* Subcommands are newer than their parent; only "help" prints the usage.  *)
SubsInv ==
  /\ tree \in Seq(Handler)
  /\ \A h \in DOMAIN tree : \A name \in DOMAIN tree[h].subs :
       /\ tree[h].subs[name] \in {Usage} \cup (h + 1)..Len(tree)
       /\ tree[h].subs[name] = Usage => name = "help"

SelectedInv ==
  \A h \in DOMAIN tree : tree[h].selected # None => tree[h].selected \in DOMAIN tree[h].subs

PlaceInv ==
  /\ args \in ArgLists
  /\ pc \in {"activate", "parse", "help", "args", "complete"} \cup Outside \cup Exits
  /\ cur \in DOMAIN tree /\ i \in 1..(Len(args) + 1)

(* The calls of addHelpFlagAndCommand begin with the handler that parses,  *)
(* and each is for a subcommand of the one before.                         *)
FramesInv ==
  /\ frames \in Seq(Frame)
  /\ frames # <<>> <=> pc = "help"
  /\ frames # <<>> => frames[1].at = cur
  /\ \A n \in DOMAIN frames :
       /\ frames[n].at \in DOMAIN tree
       /\ frames[n].subs \subseteq DOMAIN tree[frames[n].at].subs \ {"help"}
       /\ frames[n].entered => tree[frames[n].at].added
  /\ \A n \in 1..(Len(frames) - 1) :
       \E name \in DOMAIN tree[frames[n].at].subs \ {"help"} :
         tree[frames[n].at].subs[name] = frames[n + 1].at

(* A handler that help was added to has the flag, its own if help clashed. *)
HelpInv ==
  /\ \A h \in DOMAIN tree : tree[h].added => tree[h].flag # "none"
  /\ HelpFlagIsThere

IInv == SubsInv /\ SelectedInv /\ PlaceInv /\ FramesInv /\ HelpInv
-----------------------------------------------------------------------------
LEMMA CommandsType ==
  ASSUME NEW subs
  PROVE  subs \in Commands <=> \E S \in SUBSET AllNames : subs \in [S -> Nat]
BY DEF Commands

LEMMA NewHandlerType ==
  ASSUME NEW kind \in Kinds
  PROVE  NewHandler(kind) \in Handler
<1>1. <<>> \in [{} -> Nat]
  OBVIOUS
<1>2. <<>> \in Commands
  BY <1>1, CommandsType
<1> QED
  BY <1>2, KindAssumption DEF NewHandler, Handler, None

LEMMA InitIsGood == Init => IInv
<1> SUFFICES ASSUME Init PROVE IInv
  OBVIOUS
<1>1. PICK kind \in Kinds : tree = <<NewHandler(kind)>>
  BY DEF Init
<1>2. /\ tree \in Seq(Handler) /\ DOMAIN tree = {1} /\ Len(tree) = 1
      /\ tree[1] = NewHandler(kind)
  BY <1>1, NewHandlerType
<1>3. tree[1].subs = <<>> /\ tree[1].selected = None /\ tree[1].added = FALSE
  BY <1>2 DEF NewHandler
<1>4. DOMAIN tree[1].subs = {}
  BY <1>3
<1>5. SubsInv /\ SelectedInv
  BY <1>2, <1>3, <1>4 DEF SubsInv, SelectedInv
<1>6. PlaceInv
  BY <1>2, InputAssumption DEF Init, PlaceInv, Outside, Exits, Root
<1>7. FramesInv
  BY DEF Init, FramesInv
<1>8. HelpInv
  BY <1>2, <1>3 DEF Init, HelpInv, HelpFlagIsThere
<1> QED
  BY <1>5, <1>6, <1>7, <1>8 DEF IInv
-----------------------------------------------------------------------------
(* What most steps leave of the handlers: their subcommands, and --help to *)
(* those that have it.                                                     *)
Kept(t) ==
  /\ t \in [DOMAIN tree -> Handler]
  /\ \A h \in DOMAIN tree : /\ t[h].subs = tree[h].subs
                            /\ tree[h].flag # "none" => t[h].flag # "none"

LEMMA SameLength ==
  ASSUME tree \in Seq(Handler), NEW t \in [DOMAIN tree -> Handler]
  PROVE  t \in Seq(Handler) /\ Len(t) = Len(tree) /\ DOMAIN t = DOMAIN tree
<1>1. DOMAIN tree = 1..Len(tree) /\ Len(tree) \in Nat
  OBVIOUS
<1> QED
  BY <1>1, IsASeq, LenProperties

LEMMA KeptIsGood ==
  ASSUME IInv, Kept(tree')
  PROVE  SubsInv' /\ Len(tree') = Len(tree) /\ DOMAIN tree' = DOMAIN tree
<1>1. tree' \in Seq(Handler) /\ Len(tree') = Len(tree) /\ DOMAIN tree' = DOMAIN tree
  BY SameLength DEF IInv, SubsInv, Kept
<1> QED
  BY <1>1 DEF IInv, SubsInv, Kept

LEMMA TreeIsKept == IInv /\ tree' = tree => Kept(tree')
BY DEF IInv, SubsInv, Kept

LEMMA WithModelKeeps ==
  ASSUME IInv, NEW h \in DOMAIN tree
  PROVE  /\ Kept(WithModel(h))
         /\ \A g \in DOMAIN tree : /\ WithModel(h)[g].selected = tree[g].selected
                                   /\ WithModel(h)[g].added = tree[g].added
                                   /\ WithModel(h)[g].text = tree[g].text
<1>1. tree \in [DOMAIN tree -> Handler]
  BY DEF IInv, SubsInv
<1>2. CASE tree[h].model \notin OwnHelp
  BY <1>1, <1>2 DEF Kept, WithModel
<1>3. CASE tree[h].model \in OwnHelp
  <2>1. WithModel(h) = [tree EXCEPT ![h].flag = "own"]
    BY <1>3 DEF WithModel
  <2>2. [tree[h] EXCEPT !.flag = "own"] \in Handler
    BY <1>1 DEF Handler
  <2> QED
    BY <1>1, <2>1, <2>2 DEF Kept, Handler
<1> QED
  BY <1>2, <1>3

(* Where no call of addHelpFlagAndCommand runs, nothing is said of them.   *)
LEMMA NoFrames ==
  ASSUME frames' = <<>>, pc' # "help"
  PROVE  FramesInv'
BY DEF FramesInv

(* Steps that leave the tree alone. *)
LEMMA QuietIsGood ==
  ASSUME IInv, ActivateReturns \/ HelpFlag \/ HelpCommand \/ EndParse \/ Start \/ Done
  PROVE  IInv'
<1>1. /\ UNCHANGED <<args, tree, cur, frames>>
      /\ pc \in {"activate", "args", "complete"}
      /\ pc' \in {"parse", "args", "complete", "usage", "panic", "error", "done"}
      /\ pc' = "args" => pc = "args"
      /\ i' = i \/ (i + Taken <= Len(args) /\ i' = i + 1 + Taken)
  <2>1. CASE EndParse
    BY <2>1 DEF EndParse, Outcome, history
  <2>2. CASE HelpFlag
    <3>1. i + Taken <= Len(args) \/ ~(i + Taken <= Len(args))
      OBVIOUS
    <3>2. i \in Nat /\ Len(args) \in Nat /\ Taken \in {0, 1}
      BY InputAssumption DEF IInv, PlaceInv, Taken
    <3> QED
      BY <2>2, <3>1, <3>2 DEF HelpFlag, Reading, history
  <2> QED
    BY <2>1, <2>2 DEF ActivateReturns, HelpCommand, Start, Done, Goto, Reading,
           parsing, history
<1>2. SubsInv' /\ SelectedInv'
  BY <1>1 DEF IInv, SubsInv, SelectedInv
<1>3. PlaceInv'
  <2>1. Len(args) \in Nat /\ Taken \in {0, 1}
    BY InputAssumption DEF IInv, PlaceInv, Taken
  <2> QED
    BY <1>1, <2>1 DEF IInv, PlaceInv, Outside, Exits
<1>4. FramesInv'
  <2>1. frames = <<>>
    BY <1>1 DEF IInv, FramesInv
  <2> QED
    BY <1>1, <2>1, NoFrames
<1>5. HelpInv'
  BY <1>1 DEF IInv, HelpInv, HelpFlagIsThere, Me
<1> QED
  BY <1>2, <1>3, <1>4, <1>5 DEF IInv
-----------------------------------------------------------------------------
(* A command may be added where help is not going through the tree. *)
LEMMA AddIsGood ==
  ASSUME IInv, NEW h \in DOMAIN tree, NEW name \in Names, NEW kind \in Kinds, Add(h, name, kind)
  PROVE  IInv'
<1> DEFINE new   == Len(tree) + 1
           subs  == WithCommand(tree[h].subs, name, new)
           above == [tree EXCEPT ![h].subs = subs]
<1>1. /\ tree' = Append(above, NewHandler(kind))
      /\ pc \in {"rest", "done", "error", "complete", "activate"}
      /\ UNCHANGED <<args, pc, cur, i, frames>>
  BY DEF Add, parsing
<1>2. /\ tree \in Seq(Handler) /\ DOMAIN tree = 1..Len(tree) /\ Len(tree) \in Nat
      /\ tree \in [DOMAIN tree -> Handler]
  BY DEF IInv, SubsInv
<1>3. /\ DOMAIN subs = DOMAIN tree[h].subs \cup {name}
      /\ subs[name] = new
      /\ \A other \in DOMAIN tree[h].subs \ {name} : subs[other] = tree[h].subs[other]
  BY DEF WithCommand
<1>4. [tree[h] EXCEPT !.subs = subs] \in Handler
  <2>1. PICK S \in SUBSET AllNames : tree[h].subs \in [S -> Nat]
    <3>1. tree[h].subs \in Commands
      BY <1>2 DEF Handler
    <3> QED
      BY <3>1, CommandsType
  <2>2. subs \in [S \cup {name} -> Nat]
    <3>1. \A other \in S \cup {name} : subs[other] \in Nat
      BY <1>2, <1>3, <2>1
    <3>2. subs = [other \in DOMAIN subs |-> subs[other]]
      BY DEF WithCommand
    <3> QED
      BY <1>3, <2>1, <3>1, <3>2
  <2>3. S \cup {name} \in SUBSET AllNames
    BY DEF AllNames
  <2>4. subs \in Commands
    BY <2>2, <2>3, CommandsType
  <2> HIDE DEF subs
  <2> QED
    BY <1>2, <2>4 DEF Handler
<1> HIDE DEF subs
<1>5. /\ above \in [DOMAIN tree -> Handler]
      /\ \A g \in DOMAIN tree : g # h => above[g] = tree[g]
      /\ above[h] = [tree[h] EXCEPT !.subs = subs]
  BY <1>2, <1>4
<1>6. above \in Seq(Handler) /\ Len(above) = Len(tree) /\ DOMAIN above = DOMAIN tree
  BY <1>2, <1>5, SameLength
<1> HIDE DEF above
<1>7. /\ tree' \in Seq(Handler) /\ Len(tree') = new /\ DOMAIN tree' = 1..new
      /\ \A g \in DOMAIN tree : tree'[g] = above[g]
      /\ tree'[new] = NewHandler(kind)
  BY <1>1, <1>2, <1>6, NewHandlerType
<1>8. /\ DOMAIN tree'[new].subs = {} /\ tree'[new].selected = None /\ tree'[new].added = FALSE
  BY <1>7 DEF NewHandler
<1>9. \A g \in DOMAIN tree : /\ tree'[g].selected = tree[g].selected
                             /\ tree'[g].added = tree[g].added
                             /\ tree'[g].flag = tree[g].flag
                             /\ tree'[g].text = tree[g].text
                             /\ tree'[g].subs = IF g = h THEN subs ELSE tree[g].subs
  BY <1>2, <1>5, <1>7 DEF Handler
<1>10. \A g \in DOMAIN tree' : g \in DOMAIN tree \/ g = new
  BY <1>2, <1>7
<1>11. SubsInv'
  <2> SUFFICES ASSUME NEW g \in DOMAIN tree', NEW n \in DOMAIN tree'[g].subs
               PROVE  /\ tree'[g].subs[n] \in {Usage} \cup (g + 1)..new
                      /\ tree'[g].subs[n] = Usage => n = "help"
    BY <1>7 DEF SubsInv
  <2>1. g \in DOMAIN tree
    BY <1>8, <1>10
  <2>2. CASE g = h /\ n = name
    BY <1>2, <1>3, <1>9, <2>1, <2>2 DEF Usage
  <2>3. CASE ~(g = h /\ n = name)
    <3>1. n \in DOMAIN tree[g].subs /\ tree'[g].subs[n] = tree[g].subs[n]
      BY <1>3, <1>9, <2>1, <2>3
    <3>2. /\ tree[g].subs[n] \in {Usage} \cup (g + 1)..Len(tree)
          /\ tree[g].subs[n] = Usage => n = "help"
      BY <2>1, <3>1 DEF IInv, SubsInv
    <3> QED
      BY <1>2, <2>1, <3>1, <3>2
  <2> QED
    BY <2>2, <2>3
<1>12. SelectedInv'
  BY <1>3, <1>8, <1>9, <1>10 DEF IInv, SelectedInv
<1>13. PlaceInv'
  BY <1>1, <1>2, <1>7 DEF IInv, PlaceInv
<1>14. FramesInv'
  <2>1. frames = <<>>
    BY <1>1 DEF IInv, FramesInv
  <2> QED
    BY <1>1, <2>1, NoFrames
<1>15. HelpInv'
  BY <1>1, <1>8, <1>9, <1>10 DEF IInv, HelpInv, HelpFlagIsThere
<1> QED
  BY <1>11, <1>12, <1>13, <1>14, <1>15 DEF IInv
-----------------------------------------------------------------------------
LEMMA ConfigureIsGood == IInv /\ Configure => IInv'
<1> SUFFICES ASSUME IInv, Configure PROVE IInv'
  OBVIOUS
<1>1. /\ pc \in Outside /\ pc' = "activate" /\ tree' = WithModel(Root)
      /\ cur' = Root /\ i' = 1 /\ args' \in ArgLists /\ UNCHANGED frames
  BY DEF Configure
<1>2. Root \in DOMAIN tree
  BY DEF IInv, PlaceInv, SubsInv, Root
<1>3. /\ Kept(tree')
      /\ \A g \in DOMAIN tree : /\ tree'[g].selected = tree[g].selected
                                /\ tree'[g].added = tree[g].added
  BY <1>1, <1>2, WithModelKeeps
<1>4. SubsInv' /\ DOMAIN tree' = DOMAIN tree
  BY <1>3, KeptIsGood
<1>5. SelectedInv'
  BY <1>3, <1>4 DEF IInv, SelectedInv, Kept
<1>6. PlaceInv'
  BY <1>1, <1>2, <1>4, InputAssumption DEF IInv, PlaceInv
<1>7. FramesInv'
  <2>1. frames = <<>>
    BY <1>1 DEF IInv, FramesInv, Outside
  <2> QED
    BY <1>1, <2>1, NoFrames
<1>8. HelpInv'
  BY <1>1, <1>3, <1>4 DEF IInv, HelpInv, HelpFlagIsThere, Kept
<1> QED
  BY <1>4, <1>5, <1>6, <1>7, <1>8 DEF IInv

LEMMA BeginIsGood == IInv /\ BeginParse => IInv'
<1> SUFFICES ASSUME IInv, BeginParse PROVE IInv'
  OBVIOUS
<1> DEFINE first == [at |-> cur, force |-> FALSE, entered |-> FALSE, subs |-> {}]
<1>1. PICK cleared :
        tree' = [h \in DOMAIN tree |->
                   [tree[h] EXCEPT !.selected = IF h \in cleared THEN None ELSE @,
                                   !.parsed = @ \/ h = cur]]
  BY DEF BeginParse
<1>2. /\ frames' = <<first>> /\ pc' = "help" /\ UNCHANGED <<args, cur, i>>
  BY DEF BeginParse
<1>3. tree \in [DOMAIN tree -> Handler] /\ cur \in DOMAIN tree
  BY DEF IInv, SubsInv, PlaceInv
<1>4. \A h \in DOMAIN tree : /\ tree'[h] \in Handler
                             /\ tree'[h].subs = tree[h].subs
                             /\ tree'[h].flag = tree[h].flag
                             /\ tree'[h].added = tree[h].added
                             /\ tree'[h].selected \in {None, tree[h].selected}
  <2> TAKE h \in DOMAIN tree
  <2> DEFINE chosen == IF h \in cleared THEN None ELSE tree[h].selected
             parsed == tree[h].parsed \/ h = cur
  <2>1. tree'[h] = [tree[h] EXCEPT !.selected = chosen, !.parsed = parsed]
    BY <1>1
  <2>2. chosen \in AllNames \cup {None} /\ chosen \in {None, tree[h].selected}
    BY <1>3 DEF Handler
  <2>3. parsed \in BOOLEAN
    OBVIOUS
  <2> HIDE DEF chosen, parsed
  <2>4. tree[h] \in Handler
    BY <1>3
  <2> QED
    BY <2>1, <2>2, <2>3, <2>4 DEF Handler
<1>5. Kept(tree')
  BY <1>1, <1>4 DEF Kept
<1>6. SubsInv' /\ DOMAIN tree' = DOMAIN tree
  BY <1>5, KeptIsGood
<1>7. SelectedInv'
  BY <1>4, <1>6 DEF IInv, SelectedInv
<1>8. PlaceInv'
  BY <1>2, <1>3, <1>6 DEF IInv, PlaceInv
<1>9. FramesInv'
  <2>1. cur \in Nat
    BY <1>3 DEF IInv, SubsInv
  <2>2. first \in Frame
    BY <2>1 DEF Frame
  <2>3. /\ frames' \in Seq(Frame) /\ frames' # <<>> /\ Len(frames') = 1
        /\ DOMAIN frames' = {1} /\ frames'[1] = first
    BY <1>2, <2>2
  <2> QED
    BY <1>2, <1>3, <1>6, <2>3 DEF FramesInv
<1>10. HelpInv'
  BY <1>2, <1>4, <1>6 DEF IInv, HelpInv, HelpFlagIsThere
<1> QED
  BY <1>6, <1>7, <1>8, <1>9, <1>10 DEF IInv

LEMMA SelectIsGood == IInv /\ Select => IInv'
<1> SUFFICES ASSUME IInv, Select PROVE IInv'
  OBVIOUS
<1> DEFINE sub == Me.subs[args[i]]
<1>1. /\ pc = "args" /\ i <= Len(args) /\ UNCHANGED <<args, frames>>
      /\ args[i] \in DOMAIN tree[cur].subs /\ sub # Usage
  BY DEF Select, Reading, IsCommand, Me
<1>2. /\ cur \in DOMAIN tree /\ tree \in [DOMAIN tree -> Handler]
      /\ DOMAIN tree = 1..Len(tree) /\ Len(tree) \in Nat
  BY DEF IInv, SubsInv, PlaceInv
<1>3. sub \in DOMAIN tree
  <2>1. sub \in {Usage} \cup (cur + 1)..Len(tree)
    BY <1>1, <1>2 DEF IInv, SubsInv, Me
  <2> QED
    BY <1>1, <1>2, <2>1
<1>4. frames = <<>> /\ frames' = <<>>
  BY <1>1 DEF IInv, FramesInv
<1>5. CASE pc' \in {"panic", "error"} /\ UNCHANGED <<tree, cur, i>>
  <2>1. SubsInv' /\ SelectedInv'
    BY <1>5 DEF IInv, SubsInv, SelectedInv
  <2>2. PlaceInv'
    BY <1>1, <1>5 DEF IInv, PlaceInv, Outside, Exits
  <2>3. FramesInv'
    BY <1>4, <1>5, NoFrames
  <2>4. HelpInv'
    BY <1>5 DEF IInv, HelpInv, HelpFlagIsThere
  <2> QED
    BY <2>1, <2>2, <2>3, <2>4 DEF IInv
<1>6. CASE /\ tree' = [WithModel(sub) EXCEPT ![cur].selected = args[i]]
           /\ pc' = "activate" /\ cur' = sub /\ i' = i + 1
  <2> DEFINE t == WithModel(sub)
  <2>1. /\ Kept(t)
        /\ \A g \in DOMAIN tree : t[g].selected = tree[g].selected /\ t[g].added = tree[g].added
    BY <1>3, WithModelKeeps
  <2>2. tree' = [t EXCEPT ![cur].selected = args[i]]
    BY <1>6
  <2>3. args[i] \in AllNames
    <3>1. tree[cur].subs \in Commands
      BY <1>2 DEF Handler
    <3>2. PICK S \in SUBSET AllNames : tree[cur].subs \in [S -> Nat]
      BY <3>1, CommandsType
    <3> QED
      BY <1>1, <3>2
  <2> HIDE DEF t
  <2>4. \A g \in DOMAIN tree : /\ tree'[g] \in Handler
                               /\ tree'[g].subs = tree[g].subs
                               /\ tree'[g].flag = t[g].flag
                               /\ tree'[g].added = tree[g].added
                               /\ tree'[g].selected = IF g = cur THEN args[i] ELSE tree[g].selected
    <3> TAKE g \in DOMAIN tree
    <3>1. t[g] \in Handler /\ t[g].subs = tree[g].subs /\ t[g].selected = tree[g].selected
      BY <2>1 DEF Kept
    <3>2. t[g].added = tree[g].added
      BY <2>1
    <3>3. tree'[g] = IF g = cur THEN [t[g] EXCEPT !.selected = args[i]] ELSE t[g]
      BY <2>1, <2>2 DEF Kept
    <3>4. CASE g # cur
      BY <3>1, <3>2, <3>3, <3>4
    <3>5. CASE g = cur
      <4>1. tree'[g] = [t[g] EXCEPT !.selected = args[i]]
        BY <3>3, <3>5
      <4>2. /\ tree'[g] \in Handler /\ tree'[g].subs = t[g].subs /\ tree'[g].flag = t[g].flag
            /\ tree'[g].added = t[g].added /\ tree'[g].selected = args[i]
        BY <2>3, <3>1, <4>1 DEF Handler
      <4> QED
        BY <3>1, <3>2, <3>5, <4>2
    <3> QED
      BY <3>4, <3>5
  <2>5. Kept(tree')
    BY <2>1, <2>2, <2>4 DEF Kept
  <2>6. SubsInv' /\ DOMAIN tree' = DOMAIN tree
    BY <2>5, KeptIsGood
  <2>7. SelectedInv'
    BY <1>1, <2>4, <2>6 DEF IInv, SelectedInv
  <2>8. PlaceInv'
    <3>1. Len(args) \in Nat
      BY InputAssumption DEF IInv, PlaceInv
    <3> QED
      BY <1>1, <1>3, <1>6, <2>6, <3>1 DEF IInv, PlaceInv
  <2>9. FramesInv'
    BY <1>4, <1>6, NoFrames
  <2>10. HelpInv'
    BY <1>6, <2>4, <2>5, <2>6 DEF IInv, HelpInv, HelpFlagIsThere, Kept
  <2> QED
    BY <2>6, <2>7, <2>8, <2>9, <2>10 DEF IInv
<1> QED
  BY <1>5, <1>6 DEF Select
-----------------------------------------------------------------------------
(* What is known of the call of addHelpFlagAndCommand that runs. *)
LEMMA TopFacts ==
  ASSUME IInv, pc = "help"
  PROVE  /\ frames \in Seq(Frame) /\ Len(frames) \in Nat \ {0} /\ DOMAIN frames = 1..Len(frames)
         /\ Top = frames[Len(frames)] /\ Top \in Frame
         /\ Top.at \in DOMAIN tree
         /\ Top.subs \subseteq DOMAIN tree[Top.at].subs \ {"help"}
         /\ Top.entered => tree[Top.at].added
         /\ Len(frames) = 1 => Top.at = cur
<1>1. frames \in Seq(Frame) /\ frames # <<>>
  BY DEF IInv, FramesInv
<1>2. Len(frames) \in Nat \ {0} /\ DOMAIN frames = 1..Len(frames)
  BY <1>1
<1>3. Top = frames[Len(frames)] /\ Len(frames) \in DOMAIN frames
  BY <1>2 DEF Top, Last
<1> QED
  BY <1>1, <1>2, <1>3 DEF IInv, FramesInv

LEMMA FrontFacts ==
  ASSUME frames \in Seq(Frame), frames # <<>>
  PROVE  /\ Front(frames) \in Seq(Frame)
         /\ Len(Front(frames)) = Len(frames) - 1
         /\ DOMAIN Front(frames) = 1..(Len(frames) - 1)
         /\ \A n \in 1..(Len(frames) - 1) : Front(frames)[n] = frames[n]
<1>1. Len(frames) \in Nat \ {0}
  OBVIOUS
<1>2. Front(frames) = SubSeq(frames, 1, Len(frames) - 1)
  BY DEF Front
<1> DEFINE last == Len(frames) - 1
<1>3. last \in Nat /\ \A n \in 1..last : frames[n] \in Frame
  BY <1>1
<1>4. /\ SubSeq(frames, 1, last) \in Seq(Frame)
      /\ Len(SubSeq(frames, 1, last)) = last
      /\ \A n \in 1..last : SubSeq(frames, 1, last)[n] = frames[n]
  <2> HIDE DEF last
  <2>1. /\ SubSeq(frames, 1, last) \in Seq(Frame)
        /\ Len(SubSeq(frames, 1, last)) = IF 1 <= last THEN last - 1 + 1 ELSE 0
        /\ \A n \in 1..(last - 1 + 1) : SubSeq(frames, 1, last)[n] = frames[1 + n - 1]
    BY <1>3, SubSeqProperties
  <2>2. last - 1 + 1 = last /\ \A n \in 1..last : 1 + n - 1 = n
    BY <1>3
  <2>3. IF 1 <= last THEN last - 1 + 1 = last ELSE 0 = last
    BY <1>3
  <2> QED
    BY <2>1, <2>2, <2>3
<1> QED
  BY <1>2, <1>4

(* How the tree may change while a call goes on: more commands called      *)
(* "help", more handlers with help.                                        *)
Helped ==
  /\ UNCHANGED <<args, cur, i>>
  /\ SubsInv' /\ DOMAIN tree' = DOMAIN tree
  /\ \A g \in DOMAIN tree :
       /\ tree'[g].selected = tree[g].selected
       /\ tree[g].added => tree'[g].added
       /\ tree'[g].added => tree'[g].flag # "none"
       /\ DOMAIN tree[g].subs \subseteq DOMAIN tree'[g].subs
       /\ \A name \in DOMAIN tree[g].subs \ {"help"} : tree'[g].subs[name] = tree[g].subs[name]

LEMMA HelpedIsGood ==
  ASSUME IInv, Helped, pc' \in {"help", "args", "error"}
  PROVE  SelectedInv' /\ PlaceInv' /\ \A g \in DOMAIN tree' : tree'[g].added => tree'[g].flag # "none"
<1>1. SelectedInv'
  BY DEF IInv, Helped, SelectedInv
<1>2. PlaceInv'
  BY DEF IInv, Helped, PlaceInv, Outside
<1> QED
  BY <1>1, <1>2 DEF Helped

LEMMA PopIsGood ==
  ASSUME IInv, pc = "help", Helped, Pop,
         Top.entered \/ tree[Top.at].added \/ ~tree'[Top.at].text
  PROVE  IInv'
<1>1. frames' = Front(frames) /\ pc' = IF Len(frames) = 1 THEN "args" ELSE "help"
  BY DEF Pop
<1>2. /\ frames \in Seq(Frame) /\ frames # <<>> /\ Len(frames) \in Nat \ {0}
      /\ DOMAIN frames = 1..Len(frames)
      /\ Top.at \in DOMAIN tree
      /\ Top.entered => tree[Top.at].added
      /\ Len(frames) = 1 => Top.at = cur
  BY TopFacts DEF IInv, FramesInv
<1>3. /\ frames' \in Seq(Frame) /\ Len(frames') = Len(frames) - 1
      /\ DOMAIN frames' = 1..(Len(frames) - 1)
      /\ \A n \in 1..(Len(frames) - 1) : frames'[n] = frames[n]
  BY <1>1, <1>2, FrontFacts
<1>4. pc' \in {"help", "args", "error"}
  BY <1>1
<1>5. SelectedInv' /\ PlaceInv' /\ \A g \in DOMAIN tree' : tree'[g].added => tree'[g].flag # "none"
  BY <1>4, HelpedIsGood
<1>6. FramesInv'
  <2>1. frames' # <<>> <=> pc' = "help"
    BY <1>1, <1>2, <1>3
  <2>2. frames' # <<>> => frames'[1].at = cur'
    BY <1>2, <1>3 DEF IInv, FramesInv, Helped
  <2>3. ASSUME NEW n \in DOMAIN frames'
        PROVE  /\ frames'[n].at \in DOMAIN tree'
               /\ frames'[n].subs \subseteq DOMAIN tree'[frames'[n].at].subs \ {"help"}
               /\ frames'[n].entered => tree'[frames'[n].at].added
    <3>1. n \in DOMAIN frames /\ frames'[n] = frames[n]
      BY <1>2, <1>3
    <3> QED
      BY <3>1 DEF IInv, FramesInv, Helped
  <2>4. ASSUME NEW n \in 1..(Len(frames') - 1)
        PROVE  \E name \in DOMAIN tree'[frames'[n].at].subs \ {"help"} :
                 tree'[frames'[n].at].subs[name] = frames'[n + 1].at
    <3>1. /\ n \in 1..(Len(frames) - 1) /\ n \in DOMAIN frames
          /\ frames'[n] = frames[n] /\ frames'[n + 1] = frames[n + 1]
      BY <1>2, <1>3
    <3>2. frames[n].at \in DOMAIN tree
      BY <3>1 DEF IInv, FramesInv
    <3>3. PICK name \in DOMAIN tree[frames[n].at].subs \ {"help"} :
            tree[frames[n].at].subs[name] = frames[n + 1].at
      BY <3>1 DEF IInv, FramesInv
    <3> QED
      BY <3>1, <3>2, <3>3 DEF Helped
  <2> QED
    BY <1>3, <2>1, <2>2, <2>3, <2>4 DEF FramesInv
<1>7. HelpInv'
  <2>1. pc' = "args" => cur' = Top.at
    BY <1>1, <1>2 DEF Helped
  <2> QED
    BY <1>2, <1>5, <2>1 DEF HelpInv, HelpFlagIsThere, Me, Helped
<1> QED
  BY <1>5, <1>6, <1>7 DEF IInv, Helped

LEMMA RefuseIsGood ==
  ASSUME IInv, Helped, Refuse
  PROVE  IInv'
<1>1. frames' = <<>> /\ pc' = "error"
  BY DEF Refuse
<1>2. SelectedInv' /\ PlaceInv' /\ \A g \in DOMAIN tree' : tree'[g].added => tree'[g].flag # "none"
  BY <1>1, HelpedIsGood
<1>3. FramesInv'
  BY <1>1, NoFrames
<1>4. HelpInv'
  BY <1>1, <1>2 DEF HelpInv, HelpFlagIsThere
<1> QED
  BY <1>2, <1>3, <1>4 DEF IInv, Helped
-----------------------------------------------------------------------------
(* EnterHelp notes that it was at a handler before it looks for a clash. *)
LEMMA NotedIsHelped ==
  ASSUME IInv, NEW h \in DOMAIN tree, UNCHANGED <<args, cur, i>>,
         \/ tree[h].flag # "none" /\ tree' = [tree EXCEPT ![h].added = TRUE]
         \/ tree' = [tree EXCEPT ![h].added = TRUE, ![h].flag = "help"]
  PROVE  Helped /\ Kept(tree') /\ tree'[h].added
<1>1. tree \in [DOMAIN tree -> Handler]
  BY DEF IInv, SubsInv
<1>2. /\ [tree[h] EXCEPT !.added = TRUE] \in Handler
      /\ [tree[h] EXCEPT !.added = TRUE, !.flag = "help"] \in Handler
  <2>1. tree[h] \in Handler
    BY <1>1
  <2> QED
    BY <2>1 DEF Handler
<1>3. \/ /\ tree[h].flag # "none"
         /\ tree' = [tree EXCEPT ![h] = [tree[h] EXCEPT !.added = TRUE]]
      \/ tree' = [tree EXCEPT ![h] = [tree[h] EXCEPT !.added = TRUE, !.flag = "help"]]
  BY <1>1
<1>4. \A g \in DOMAIN tree : /\ tree'[g] \in Handler
                             /\ tree'[g].subs = tree[g].subs
                             /\ tree'[g].selected = tree[g].selected
                             /\ tree[g].flag # "none" => tree'[g].flag # "none"
                             /\ g = h => tree'[g].flag # "none" /\ tree'[g].added
                             /\ g # h => tree'[g] = tree[g]
  <2> TAKE g \in DOMAIN tree
  <2>1. CASE g # h
    BY <1>1, <1>3, <2>1
  <2>2. CASE g = h
    <3>1. \/ tree[h].flag # "none" /\ tree'[h] = [tree[h] EXCEPT !.added = TRUE]
          \/ tree'[h] = [tree[h] EXCEPT !.added = TRUE, !.flag = "help"]
      BY <1>1, <1>3
    <3>2. tree[h] \in Handler /\ tree'[h] \in Handler
      BY <1>1, <1>2, <3>1
    <3> QED
      BY <2>2, <3>1, <3>2 DEF Handler
  <2> QED
    BY <2>1, <2>2
<1>5. DOMAIN tree' = DOMAIN tree /\ tree' \in [DOMAIN tree -> Handler]
  BY <1>1, <1>2, <1>3
<1>6. Kept(tree')
  BY <1>4, <1>5 DEF Kept
<1>7. SubsInv'
  BY <1>6, KeptIsGood
<1>8. \A g \in DOMAIN tree : tree[g].added => tree[g].flag # "none"
  BY DEF IInv, HelpInv
<1>9. Helped
  BY <1>4, <1>5, <1>7, <1>8 DEF Helped
<1> QED
  BY <1>4, <1>6, <1>9

LEMMA EnterIsGood == IInv /\ EnterHelp => IInv'
<1> SUFFICES ASSUME IInv, EnterHelp PROVE IInv'
  OBVIOUS
<1> DEFINE h == Top.at
<1>1. pc = "help" /\ UNCHANGED <<args, cur, i>>
  BY DEF EnterHelp
<1>2. /\ frames \in Seq(Frame) /\ Len(frames) \in Nat \ {0} /\ DOMAIN frames = 1..Len(frames)
      /\ Top = frames[Len(frames)] /\ Top \in Frame /\ h \in DOMAIN tree
  BY <1>1, TopFacts
<1>3. CASE Pop /\ UNCHANGED tree /\ (tree[h].added \/ ~tree[h].text)
  <2>1. Helped
    BY <1>1, <1>3 DEF Helped, IInv, SubsInv, HelpInv
  <2> QED
    BY <1>1, <1>3, <2>1, PopIsGood
<1>4. CASE Refuse /\ (\/ tree[h].flag # "none" /\ tree' = [tree EXCEPT ![h].added = TRUE]
                      \/ tree' = [tree EXCEPT ![h].added = TRUE, ![h].flag = "help"])
  <2>1. Helped
    BY <1>1, <1>2, <1>4, NotedIsHelped
  <2> QED
    BY <1>4, <2>1, RefuseIsGood
<1>5. CASE /\ tree' = [tree EXCEPT ![h].added = TRUE, ![h].flag = "help"]
           /\ "help" \notin DOMAIN tree[h].subs
           /\ frames' = [frames EXCEPT ![Len(frames)] =
                           [@ EXCEPT !.entered = TRUE, !.subs = DOMAIN tree[h].subs]]
           /\ UNCHANGED pc
  <2> DEFINE top == [Top EXCEPT !.entered = TRUE, !.subs = DOMAIN tree[h].subs]
  <2>1. Helped /\ Kept(tree') /\ tree'[h].added
    BY <1>1, <1>2, <1>5, NotedIsHelped
  <2>2. SelectedInv' /\ PlaceInv' /\ \A g \in DOMAIN tree' : tree'[g].added => tree'[g].flag # "none"
    BY <1>1, <1>5, <2>1, HelpedIsGood
  <2>3. DOMAIN tree[h].subs \in SUBSET AllNames
    <3>1. tree[h].subs \in Commands
      <4>1. tree[h] \in Handler
        BY <1>2 DEF IInv, SubsInv
      <4> QED
        BY <4>1 DEF Handler
    <3>2. PICK S \in SUBSET AllNames : tree[h].subs \in [S -> Nat]
      BY <3>1, CommandsType
    <3> QED
      BY <3>2
  <2>4. /\ top \in Frame /\ top.at = h /\ top.subs = DOMAIN tree[h].subs
    BY <1>2, <2>3 DEF Frame
  <2>5. frames' = [frames EXCEPT ![Len(frames)] = top]
    BY <1>2, <1>5
  <2> HIDE DEF top, h
  <2>6. /\ frames' \in Seq(Frame) /\ Len(frames') = Len(frames) /\ DOMAIN frames' = DOMAIN frames
        /\ frames' # <<>>
        /\ \A n \in DOMAIN frames : frames'[n] = IF n = Len(frames) THEN top ELSE frames[n]
    BY <1>2, <2>4, <2>5
  <2>7. \A n \in DOMAIN frames : frames'[n].at = frames[n].at
    BY <1>2, <2>4, <2>6 DEF h
  <2>8. \A n \in DOMAIN frames : frames[n].at \in DOMAIN tree
    BY DEF IInv, FramesInv
  <2>9. \A g \in DOMAIN tree : tree'[g].subs = tree[g].subs
    BY <2>1 DEF Kept
  <2>10. FramesInv'
    <3>1. frames' # <<>> <=> pc' = "help"
      BY <1>1, <1>5, <2>6
    <3>2. frames'[1].at = cur'
      BY <1>1, <1>2, <2>7 DEF IInv, FramesInv
    <3>3. ASSUME NEW n \in DOMAIN frames'
          PROVE  /\ frames'[n].at \in DOMAIN tree'
                 /\ frames'[n].subs \subseteq DOMAIN tree'[frames'[n].at].subs \ {"help"}
                 /\ frames'[n].entered => tree'[frames'[n].at].added
      <4>1. n \in DOMAIN frames /\ frames'[n].at \in DOMAIN tree /\ DOMAIN tree' = DOMAIN tree
        BY <2>1, <2>6, <2>7, <2>8 DEF Helped
      <4>2. CASE n = Len(frames)
        <5>1. frames'[n] = top /\ top.at = h /\ h \in DOMAIN tree
          BY <1>2, <2>4, <2>6, <4>1, <4>2
        <5>2. frames'[n].subs \subseteq DOMAIN tree'[h].subs \ {"help"}
          <6>1. tree'[h].subs = tree[h].subs
            BY <2>9, <5>1
          <6>2. top.subs \subseteq DOMAIN tree[h].subs \ {"help"}
            BY <1>5, <2>4
          <6> QED
            BY <5>1, <6>1, <6>2
        <5> QED
          BY <2>1, <4>1, <5>1, <5>2
      <4>3. CASE n # Len(frames)
        <5>1. frames'[n] = frames[n]
          BY <2>6, <4>1, <4>3
        <5> QED
          BY <2>1, <2>9, <4>1, <5>1 DEF IInv, FramesInv, Helped
      <4> QED
        BY <4>2, <4>3
    <3>4. ASSUME NEW n \in 1..(Len(frames') - 1)
          PROVE  \E name \in DOMAIN tree'[frames'[n].at].subs \ {"help"} :
                   tree'[frames'[n].at].subs[name] = frames'[n + 1].at
      <4>1. n \in 1..(Len(frames) - 1) /\ n \in DOMAIN frames /\ n + 1 \in DOMAIN frames
        BY <1>2, <2>6
      <4>2. \E name \in DOMAIN tree[frames[n].at].subs \ {"help"} :
              tree[frames[n].at].subs[name] = frames[n + 1].at
        BY <4>1 DEF IInv, FramesInv
      <4> QED
        BY <2>7, <2>8, <2>9, <4>1, <4>2
    <3> QED
      BY <2>6, <3>1, <3>2, <3>3, <3>4 DEF FramesInv
  <2>11. HelpInv'
    BY <1>1, <1>5, <2>2 DEF HelpInv, HelpFlagIsThere
  <2> QED
    BY <2>1, <2>2, <2>10, <2>11 DEF IInv, Helped
<1> QED
  BY <1>3, <1>4, <1>5 DEF EnterHelp
-----------------------------------------------------------------------------
(* The next call is for a subcommand of the one that makes it. *)
LEMMA NextSubIsGood == IInv /\ NextSub => IInv'
<1> SUFFICES ASSUME IInv, NextSub PROVE IInv'
  OBVIOUS
<1>1. pc = "help" /\ pc' = "help" /\ UNCHANGED <<args, cur, i>>
  BY DEF NextSub
<1>2. /\ frames \in Seq(Frame) /\ Len(frames) \in Nat \ {0} /\ DOMAIN frames = 1..Len(frames)
      /\ Top = frames[Len(frames)] /\ Top \in Frame /\ Top.at \in DOMAIN tree
      /\ Top.subs \subseteq DOMAIN tree[Top.at].subs \ {"help"}
  BY <1>1, TopFacts
<1>3. PICK name \in Top.subs :
        /\ tree' = [tree EXCEPT ![tree[Top.at].subs[name]].text = TRUE]
        /\ frames' = Append([frames EXCEPT ![Len(frames)].subs = @ \ {name}],
                        [at |-> tree[Top.at].subs[name], force |-> TRUE, entered |-> FALSE, subs |-> {}])
  BY DEF NextSub
<1> DEFINE sub  == tree[Top.at].subs[name]
           top  == [Top EXCEPT !.subs = @ \ {name}]
           call == [at |-> sub, force |-> TRUE, entered |-> FALSE, subs |-> {}]
           mine == [frames EXCEPT ![Len(frames)] = top]
<1>4. /\ tree \in Seq(Handler) /\ tree \in [DOMAIN tree -> Handler]
      /\ DOMAIN tree = 1..Len(tree) /\ Len(tree) \in Nat
  BY DEF IInv, SubsInv
<1>5. sub \in DOMAIN tree
  <2>1. name \in DOMAIN tree[Top.at].subs /\ name # "help"
    BY <1>2
  <2>2. sub \in (Top.at + 1)..Len(tree)
    BY <1>2, <2>1 DEF IInv, SubsInv
  <2> QED
    BY <1>2, <1>4, <2>2
<1>6. /\ tree' = [tree EXCEPT ![sub] = [tree[sub] EXCEPT !.text = TRUE]]
      /\ frames' = Append(mine, call)
  BY <1>2, <1>3
<1>7. /\ top \in Frame /\ top.at = Top.at /\ top.subs = Top.subs \ {name}
      /\ top.entered = Top.entered
  BY <1>2 DEF Frame
<1>8. /\ call \in Frame /\ call.at = sub /\ call.subs = {} /\ call.entered = FALSE
  BY <1>4, <1>5 DEF Frame
<1> HIDE DEF top, call, sub
<1>9. /\ mine \in Seq(Frame) /\ Len(mine) = Len(frames)
      /\ \A n \in DOMAIN frames : mine[n] = IF n = Len(frames) THEN top ELSE frames[n]
  BY <1>2, <1>7
<1> HIDE DEF mine
<1>10. /\ frames' \in Seq(Frame) /\ Len(frames') = Len(frames) + 1
       /\ DOMAIN frames' = 1..(Len(frames) + 1) /\ frames' # <<>>
       /\ frames'[Len(frames) + 1] = call
       /\ \A n \in DOMAIN frames : frames'[n] = IF n = Len(frames) THEN top ELSE frames[n]
  BY <1>2, <1>6, <1>8, <1>9
<1>11. /\ DOMAIN tree' = DOMAIN tree /\ tree' \in [DOMAIN tree -> Handler]
       /\ \A g \in DOMAIN tree : /\ tree'[g].subs = tree[g].subs
                                 /\ tree'[g].selected = tree[g].selected
                                 /\ tree'[g].flag = tree[g].flag
                                 /\ tree'[g].added = tree[g].added
  <2>1. tree[sub] \in Handler
    BY <1>4, <1>5
  <2>2. [tree[sub] EXCEPT !.text = TRUE] \in Handler
    BY <2>1 DEF Handler
  <2> QED
    BY <1>4, <1>5, <1>6, <2>1, <2>2 DEF Handler
<1>12. SubsInv'
  <2>1. Kept(tree')
    BY <1>11 DEF Kept
  <2> QED
    BY <2>1, KeptIsGood
<1>13. Helped
  BY <1>1, <1>11, <1>12 DEF Helped, IInv, HelpInv
<1>14. SelectedInv' /\ PlaceInv' /\ \A g \in DOMAIN tree' : tree'[g].added => tree'[g].flag # "none"
  BY <1>1, <1>13, HelpedIsGood
<1>15. FramesInv'
  <2>1. \A n \in DOMAIN frames : /\ frames'[n].at = frames[n].at
                                 /\ frames'[n].subs \subseteq frames[n].subs
                                 /\ frames'[n].entered = frames[n].entered
    BY <1>2, <1>7, <1>10
  <2>2. frames'[1].at = cur'
    BY <1>1, <1>2, <2>1 DEF IInv, FramesInv
  <2>3. ASSUME NEW n \in DOMAIN frames'
        PROVE  /\ frames'[n].at \in DOMAIN tree'
               /\ frames'[n].subs \subseteq DOMAIN tree'[frames'[n].at].subs \ {"help"}
               /\ frames'[n].entered => tree'[frames'[n].at].added
    <3>1. CASE n \in DOMAIN frames
      <4>1. /\ frames[n].at \in DOMAIN tree
            /\ frames[n].subs \subseteq DOMAIN tree[frames[n].at].subs \ {"help"}
            /\ frames[n].entered => tree[frames[n].at].added
        BY <3>1 DEF IInv, FramesInv
      <4> QED
        BY <1>11, <2>1, <3>1, <4>1
    <3>2. CASE n = Len(frames) + 1
      BY <1>5, <1>8, <1>10, <1>11, <3>2
    <3> QED
      BY <1>2, <1>10, <3>1, <3>2
  <2>4. ASSUME NEW n \in 1..(Len(frames') - 1)
        PROVE  \E key \in DOMAIN tree'[frames'[n].at].subs \ {"help"} :
                 tree'[frames'[n].at].subs[key] = frames'[n + 1].at
    <3>1. n \in DOMAIN frames /\ frames[n].at \in DOMAIN tree
      BY <1>2, <1>10 DEF IInv, FramesInv
    <3>2. CASE n = Len(frames)
      <4>1. frames'[n].at = Top.at /\ frames'[n + 1].at = sub
        BY <1>2, <1>8, <1>10, <2>1, <3>1, <3>2
      <4>2. name \in DOMAIN tree[Top.at].subs \ {"help"} /\ tree[Top.at].subs[name] = sub
        BY <1>2 DEF sub
      <4> QED
        BY <1>2, <1>11, <4>1, <4>2
    <3>3. CASE n # Len(frames)
      <4>1. n \in 1..(Len(frames) - 1) /\ n + 1 \in DOMAIN frames
        BY <1>2, <3>1, <3>3
      <4>2. \E key \in DOMAIN tree[frames[n].at].subs \ {"help"} :
              tree[frames[n].at].subs[key] = frames[n + 1].at
        BY <4>1 DEF IInv, FramesInv
      <4> QED
        BY <1>11, <2>1, <3>1, <4>1, <4>2
    <3> QED
      BY <3>2, <3>3
  <2> QED
    BY <1>1, <1>10, <2>2, <2>3, <2>4 DEF FramesInv
<1>16. HelpInv'
  BY <1>1, <1>14 DEF HelpInv, HelpFlagIsThere
<1> QED
  BY <1>12, <1>14, <1>15, <1>16 DEF IInv

(* The command "help" is no one's frame. *)
LEMMA LeaveIsGood == IInv /\ LeaveHelp => IInv'
<1> SUFFICES ASSUME IInv, LeaveHelp PROVE IInv'
  OBVIOUS
<1> DEFINE h    == Top.at
           subs == WithCommand(tree[h].subs, "help", Usage)
<1>1. /\ pc = "help" /\ Top.entered /\ Pop /\ UNCHANGED <<args, cur, i>>
      /\ tree' = tree \/ tree' = [tree EXCEPT ![h].subs = subs]
  BY DEF LeaveHelp
<1>2. h \in DOMAIN tree
  BY <1>1, TopFacts
<1>3. CASE tree' = tree
  <2>1. Helped
    BY <1>1, <1>3 DEF Helped, IInv, SubsInv, HelpInv
  <2> QED
    BY <1>1, <2>1, PopIsGood
<1>4. CASE tree' = [tree EXCEPT ![h].subs = subs]
  <2>1. /\ tree \in Seq(Handler) /\ tree \in [DOMAIN tree -> Handler] /\ tree[h] \in Handler
        /\ DOMAIN tree = 1..Len(tree) /\ Len(tree) \in Nat
    BY <1>2 DEF IInv, SubsInv
  <2>2. /\ DOMAIN subs = DOMAIN tree[h].subs \cup {"help"}
        /\ subs["help"] = Usage
        /\ \A n \in DOMAIN tree[h].subs \ {"help"} : subs[n] = tree[h].subs[n]
    BY DEF WithCommand
  <2>3. subs \in Commands
    <3>1. tree[h].subs \in Commands
      BY <2>1 DEF Handler
    <3>2. PICK S \in SUBSET AllNames : tree[h].subs \in [S -> Nat]
      BY <3>1, CommandsType
    <3>3. S \cup {"help"} \in SUBSET AllNames /\ DOMAIN subs = S \cup {"help"}
      BY <2>2, <3>2 DEF AllNames
    <3>4. subs \in [S \cup {"help"} -> Nat]
      <4>1. \A n \in S \cup {"help"} : subs[n] \in Nat
        BY <2>2, <3>2 DEF Usage
      <4>2. subs = [n \in DOMAIN subs |-> subs[n]]
        BY DEF WithCommand
      <4> QED
        BY <3>3, <4>1, <4>2
    <3> QED
      BY <3>3, <3>4, CommandsType
  <2> HIDE DEF subs
  <2>4. tree' = [tree EXCEPT ![h] = [tree[h] EXCEPT !.subs = subs]]
    BY <1>4
  <2>5. [tree[h] EXCEPT !.subs = subs] \in Handler
    BY <2>1, <2>3 DEF Handler
  <2>6. /\ tree' \in [DOMAIN tree -> Handler] /\ DOMAIN tree' = DOMAIN tree
        /\ tree'[h] = [tree[h] EXCEPT !.subs = subs]
        /\ \A g \in DOMAIN tree : g # h => tree'[g] = tree[g]
    BY <1>2, <2>1, <2>4, <2>5
  <2>7. \A g \in DOMAIN tree : /\ tree'[g].selected = tree[g].selected
                               /\ tree'[g].flag = tree[g].flag
                               /\ tree'[g].added = tree[g].added
                               /\ tree'[g].subs = IF g = h THEN subs ELSE tree[g].subs
    BY <1>2, <2>1, <2>6 DEF Handler
  <2>8. tree' \in Seq(Handler) /\ Len(tree') = Len(tree)
    BY <2>1, <2>6, SameLength
  <2>9. SubsInv'
    <3> SUFFICES ASSUME NEW g \in DOMAIN tree, NEW n \in DOMAIN tree'[g].subs
                 PROVE  /\ tree'[g].subs[n] \in {Usage} \cup (g + 1)..Len(tree)
                        /\ tree'[g].subs[n] = Usage => n = "help"
      BY <2>6, <2>8 DEF SubsInv
    <3>1. CASE g = h /\ n = "help"
      BY <1>2, <2>2, <2>7, <3>1
    <3>2. CASE ~(g = h /\ n = "help")
      <4>1. n \in DOMAIN tree[g].subs /\ tree'[g].subs[n] = tree[g].subs[n]
        BY <2>2, <2>7, <3>2
      <4> QED
        BY <4>1 DEF IInv, SubsInv
    <3> QED
      BY <3>1, <3>2
  <2>10. Helped
    BY <1>1, <2>2, <2>6, <2>7, <2>9 DEF Helped, IInv, HelpInv
  <2> QED
    BY <1>1, <2>10, PopIsGood
<1> QED
  BY <1>1, <1>3, <1>4
-----------------------------------------------------------------------------
LEMMA StepIsGood == IInv /\ [Next]_vars => IInv'
<1> SUFFICES ASSUME IInv, [Next]_vars PROVE IInv'
  OBVIOUS
<1>1. CASE \E h \in DOMAIN tree, name \in Names, kind \in Kinds : Add(h, name, kind)
  BY <1>1, AddIsGood
<1>2. CASE Configure
  BY <1>2, ConfigureIsGood
<1>3. CASE BeginParse
  BY <1>3, BeginIsGood
<1>4. CASE EnterHelp
  BY <1>4, EnterIsGood
<1>5. CASE NextSub
  BY <1>5, NextSubIsGood
<1>6. CASE LeaveHelp
  BY <1>6, LeaveIsGood
<1>7. CASE Select
  BY <1>7, SelectIsGood
<1>8. CASE ActivateReturns \/ HelpFlag \/ HelpCommand \/ EndParse \/ Start \/ Done
  BY <1>8, QuietIsGood
<1>9. CASE UNCHANGED vars
  BY <1>9 DEF vars, parsing, history, IInv, SubsInv, SelectedInv, PlaceInv, FramesInv, HelpInv,
              HelpFlagIsThere, Me
<1> QED
  BY <1>1, <1>2, <1>3, <1>4, <1>5, <1>6, <1>7, <1>8, <1>9 DEF Next

THEOREM Inductive == Spec => []IInv
<1>1. Init => IInv
  BY InitIsGood
<1>2. IInv /\ [Next]_vars => IInv'
  BY StepIsGood
<1> QED
  BY <1>1, <1>2, PTL DEF Spec

(* Whatever callbacks add, and wherever a pass ended, the handlers form a  *)
(* tree, the selected commands exist in it, and the calls of               *)
(* addHelpFlagAndCommand lead down in it.                                  *)
THEOREM TypeCorrect == Spec => []TypeOK
<1>1. IInv => TypeOK
  <2> SUFFICES ASSUME IInv PROVE TypeOK
    OBVIOUS
  <2>1. \A n \in 1..(Len(frames) - 1) : frames[n + 1].at \in Range(tree[frames[n].at].subs)
    BY DEF IInv, FramesInv, Range
  <2> QED
    BY <2>1 DEF IInv, SubsInv, SelectedInv, PlaceInv, TypeOK
<1> QED
  BY <1>1, Inductive, PTL

(* No handler with a help text is without --help where the end of          *)
(* parseFlags looks whether it was used.                                   *)
THEOREM HelpFlagAlwaysThere == Spec => []HelpFlagIsThere
<1>1. IInv => HelpFlagIsThere
  BY DEF IInv, HelpInv
<1> QED
  BY <1>1, Inductive, PTL
-----------------------------------------------------------------------------
(* The way of the selected handlers, and the order of the calls of OnStart. *)

(* The handler that h has selected. *)
NextOf(h) == tree[h].subs[tree[h].selected]

(* A handler selects when it parses, and never the command that prints the *)
(* usage.                                                                  *)
SelectionInv ==
  \A h \in DOMAIN tree : tree[h].selected # None => tree[h].parsed /\ NextOf(h) # Usage

(* addHelpFlagAndCommand goes down, into handlers that have no "help" yet. *)
NestingInv ==
  /\ \A n \in DOMAIN frames : frames[n].entered => "help" \notin DOMAIN tree[frames[n].at].subs
  /\ \A m, n \in DOMAIN frames : m < n => frames[m].at < frames[n].at

(* Until the arguments end, the handlers of this pass are what the main    *)
(* handler leads to by the selected commands, whatever other passes left.  *)
Walking == {"activate", "parse", "help", "args"}

Way == IF pc \in {"activate", "parse"} THEN Append(chain, cur) ELSE chain

LeadsTo(way, h) ==
  /\ way # <<>> /\ way[1] = Root /\ way[Len(way)] = h
  /\ \A k \in 1..(Len(way) - 1) :
       /\ way[k] \in DOMAIN tree /\ way[k] < h
       /\ tree[way[k]].selected # None /\ NextOf(way[k]) = way[k + 1]

WayInv ==
  /\ chain \in Seq(Nat)
  /\ pc \in Walking => LeadsTo(Way, cur) /\ started = <<>>
  /\ pc \in {"help", "args"} => tree[cur].selected = None /\ tree[cur].parsed

(* The calls of OnStart that are made and those still to be made. *)
OrderInv ==
  /\ started \in Seq(Nat) /\ todo \in Seq(Nat)
  /\ pc \in {"complete", "done"} =>
       /\ Len(chain) = Len(todo) + Len(started)
       /\ \A n \in DOMAIN todo : todo[n] = chain[n]
       /\ \A n \in DOMAIN started : started[n] = chain[Len(chain) + 1 - n]
  /\ pc = "done" => todo = <<>>

WInv == SelectionInv /\ NestingInv /\ WayInv /\ OrderInv
-----------------------------------------------------------------------------
(* The selected handlers of a handler: down is defined, since commands     *)
(* lead to newer handlers only.                                            *)
LEMMA NextIsBelow ==
  ASSUME IInv, SelectionInv, NEW h \in DOMAIN tree, tree[h].selected # None
  PROVE  NextOf(h) \in (h + 1)..Len(tree) /\ NextOf(h) \in DOMAIN tree
<1>1. tree[h].selected \in DOMAIN tree[h].subs
  BY DEF IInv, SelectedInv
<1>2. NextOf(h) \in {Usage} \cup (h + 1)..Len(tree) /\ NextOf(h) # Usage
  BY <1>1 DEF IInv, SubsInv, SelectionInv, NextOf
<1>3. DOMAIN tree = 1..Len(tree) /\ Len(tree) \in Nat
  BY DEF IInv, SubsInv
<1> QED
  BY <1>2, <1>3

LEMMA DownExists ==
  ASSUME IInv, SelectionInv
  PROVE  \E f : f = [g \in DOMAIN tree |->
                       IF tree[g].selected = None THEN <<g>> ELSE <<g>> \o f[NextOf(g)]]
<1> DEFINE last == Len(tree)
           Down(f, m) == f = [g \in (last - m + 1)..last |->
                                IF tree[g].selected = None THEN <<g>> ELSE <<g>> \o f[NextOf(g)]]
           none == {m \in 0..last : ~\E f : Down(f, m)}
<1>1. last \in Nat /\ DOMAIN tree = 1..last
  BY DEF IInv, SubsInv
<1>2. \A g \in 1..last : tree[g].selected # None => NextOf(g) \in (g + 1)..last
  BY <1>1, NextIsBelow
<1> HIDE DEF last
<1>3. ASSUME none # {} PROVE FALSE
  <2>1. none \in SUBSET Nat
    BY <1>1
  <2>2. PICK m \in none : \A n \in none : m <= n
    <3> HIDE DEF none
    <3> QED
      BY <1>3, <2>1, Least
  <2>3. m \in 0..last /\ ~\E f : Down(f, m)
    OBVIOUS
  <2>4. CASE m = 0
    <3>1. (last - m + 1)..last = {}
      BY <1>1, <2>4
    <3>2. Down([g \in {} |-> <<>>], m)
      BY <3>1
    <3> QED
      BY <2>3, <3>2
  <2>5. CASE m # 0
    <3> DEFINE n == m - 1
    <3>1. n \in 0..last /\ n < m /\ (last - n + 1) = (last - m + 1) + 1
      BY <1>1, <2>3, <2>5
    <3>2. n \notin none
      BY <2>2, <3>1
    <3>3. PICK f : Down(f, n)
      BY <3>1, <3>2
    <3> DEFINE first == last - m + 1
               whole == [g \in first..last |->
                           IF tree[g].selected = None THEN <<g>> ELSE <<g>> \o f[NextOf(g)]]
    <3>9. f = [g \in (first + 1)..last |->
                  IF tree[g].selected = None THEN <<g>> ELSE <<g>> \o f[NextOf(g)]]
      BY <3>1, <3>3
    <3>10. (first + 1)..last \subseteq first..last
      BY <1>1, <2>3
    <3>4. \A g \in (first + 1)..last :
            /\ f[g] = IF tree[g].selected = None THEN <<g>> ELSE <<g>> \o f[NextOf(g)]
            /\ whole[g] = IF tree[g].selected = None THEN <<g>> ELSE <<g>> \o f[NextOf(g)]
      <4> HIDE DEF first, Down
      <4> QED
        BY <3>9, <3>10
    <3>5. \A g \in first..last : tree[g].selected # None => NextOf(g) \in (first + 1)..last
      <4> SUFFICES ASSUME NEW g \in first..last, tree[g].selected # None
                   PROVE  NextOf(g) \in (first + 1)..last
        OBVIOUS
      <4>1. g \in 1..last
        BY <1>1, <2>3
      <4>2. NextOf(g) \in (g + 1)..last
        BY <1>2, <4>1
      <4> QED
        BY <1>1, <2>3, <4>1, <4>2
    <3> HIDE DEF first
    <3>6. \A g \in first..last : tree[g].selected # None => whole[NextOf(g)] = f[NextOf(g)]
      BY <3>4, <3>5
    <3>7. whole = [g \in first..last |->
                     IF tree[g].selected = None THEN <<g>> ELSE <<g>> \o whole[NextOf(g)]]
      BY <3>6
    <3> HIDE DEF whole
    <3>8. Down(whole, m)
      BY <3>7 DEF first
    <3> QED
      BY <2>3, <3>8
  <2> QED
    BY <2>4, <2>5
<1>4. PICK f : Down(f, last)
  <2>1. last \in 0..last /\ last \notin none
    <3> HIDE DEF none
    <3> QED
      BY <1>1, <1>3
  <2> QED
    BY <2>1
<1>5. (last - last + 1)..last = DOMAIN tree
  BY <1>1
<1> QED
  BY <1>4, <1>5

LEMMA SelectedEquation ==
  ASSUME IInv, SelectionInv, NEW h \in DOMAIN tree
  PROVE  Selected(h) = IF tree[h].selected = None THEN <<h>> ELSE <<h>> \o Selected(NextOf(h))
<1> DEFINE Down(f) == f = [g \in DOMAIN tree |->
                             IF tree[g].selected = None THEN <<g>> ELSE <<g>> \o f[NextOf(g)]]
           down == CHOOSE f : Down(f)
<1>1. Down(down)
  BY DownExists
<1>2. \A g : Selected(g) = down[g]
  BY DEF Selected, NextOf
<1> HIDE DEF down
<1> QED
  BY <1>1, <1>2

(* They are as new as the handler they begin with, or newer. *)
LEMMA SelectedRange ==
  ASSUME IInv, SelectionInv
  PROVE  \A h \in DOMAIN tree : Selected(h) \in Seq(h..Len(tree)) /\ h \in ToSet(Selected(h))
<1> DEFINE last == Len(tree)
           good(h) == Selected(h) \in Seq(h..last) /\ h \in ToSet(Selected(h))
           bad == {m \in 0..last : last - m \in DOMAIN tree /\ ~good(last - m)}
<1>1. last \in Nat /\ DOMAIN tree = 1..last
  BY DEF IInv, SubsInv
<1>2. ASSUME NEW h \in DOMAIN tree, ~good(h) PROVE FALSE
  <2>1. last - h \in bad /\ bad \in SUBSET Nat
    <3>1. last - h \in 0..last /\ last - (last - h) = h
      BY <1>1
    <3> QED
      BY <1>1, <1>2, <3>1
  <2>2. PICK m \in bad : \A n \in bad : m <= n
    <3> HIDE DEF bad
    <3> QED
      BY <2>1, Least
  <2> DEFINE g == last - m
  <2>3. m \in 0..last /\ g \in DOMAIN tree /\ ~good(g)
    OBVIOUS
  <2>4. Selected(g) = IF tree[g].selected = None THEN <<g>> ELSE <<g>> \o Selected(NextOf(g))
    BY <2>3, SelectedEquation
  <2>5. g \in g..last
    BY <1>1, <2>3
  <2>6. CASE tree[g].selected = None
    <3>1. <<g>> \in Seq(g..last) /\ g \in ToSet(<<g>>)
      BY <2>5 DEF ToSet
    <3> QED
      BY <2>3, <2>4, <2>6, <3>1
  <2>7. CASE tree[g].selected # None
    <3> DEFINE next == NextOf(g)
    <3>1. next \in (g + 1)..last /\ next \in DOMAIN tree
      BY <2>3, <2>7, NextIsBelow
    <3>2. last - next \in 0..last /\ last - next < m /\ last - (last - next) = next
      BY <1>1, <2>3, <3>1
    <3> HIDE DEF next
    <3>3. good(next)
      BY <2>2, <3>1, <3>2
    <3>4. next..last \subseteq g..last
      BY <1>1, <2>3, <3>1
    <3>5. Selected(next) \in Seq(g..last)
      <4>1. Selected(next) \in Seq(next..last)
        BY <3>3
      <4> HIDE DEF good, last, g
      <4> QED
        BY <3>4, <4>1, SeqMonotonic
    <3> DEFINE more == Selected(next)
    <3> HIDE DEF more, g
    <3>6. <<g>> \o more \in Seq(g..last) /\ g \in ToSet(<<g>> \o more)
      <4>1. more \in Seq(g..last)
        BY <3>5 DEF more
      <4>2. <<g>> \o more \in Seq(g..last)
        BY <2>5, <4>1
      <4>3. 1 \in DOMAIN (<<g>> \o more) /\ (<<g>> \o more)[1] = g
        BY <2>5, <4>1
      <4> QED
        BY <4>2, <4>3 DEF ToSet
    <3> QED
      BY <2>3, <2>4, <2>7, <3>6 DEF more, next
  <2> QED
    BY <2>6, <2>7
<1> HIDE DEF good
<1>3. \A h \in DOMAIN tree : good(h)
  BY <1>2
<1> QED
  BY <1>3 DEF good

(* A way down that ends where nothing is selected is all that is selected. *)
LEMMA SelectedIsWay ==
  ASSUME IInv, SelectionInv, NEW way \in Seq(Nat), NEW h \in DOMAIN tree,
         LeadsTo(way, h), tree[h].selected = None
  PROVE  Selected(Root) = way
<1> DEFINE last == Len(way)
           rest(k) == SubSeq(way, k, last)
           bad == {m \in 0..(last - 1) : Selected(way[last - m]) # rest(last - m)}
<1>1. last \in Nat \ {0} /\ way[1] = Root /\ way[last] = h
  BY DEF LeadsTo
<1>2. \A k \in 1..(last - 1) : /\ way[k] \in DOMAIN tree /\ tree[way[k]].selected # None
                               /\ NextOf(way[k]) = way[k + 1]
  BY DEF LeadsTo
<1>3. ASSUME bad # {} PROVE FALSE
  <2>1. PICK m \in bad : \A n \in bad : m <= n
    <3>1. bad \in SUBSET Nat
      BY <1>1
    <3> HIDE DEF bad
    <3> QED
      BY <1>3, <3>1, Least
  <2> DEFINE k == last - m
  <2>2. m \in 0..(last - 1) /\ k \in 1..last /\ Selected(way[k]) # rest(k)
    BY <1>1
  <2>3. rest(k) = <<way[k]>> \o rest(k + 1)
    <3> HIDE DEF k
    <3>1. k \in 1..Len(way) /\ Len(way) \in k..Len(way)
      BY <1>1, <2>2
    <3> QED
      BY <3>1, SubSeqRecursiveFirst
  <2>4. CASE m = 0
    <3>1. k = last /\ way[k] = h
      BY <1>1, <2>4
    <3>2. Selected(h) = <<h>>
      BY SelectedEquation
    <3>3. rest(k + 1) = <<>>
      BY <1>1, <3>1, SubSeqEmpty
    <3>4. <<h>> \o <<>> = <<h>>
      OBVIOUS
    <3> HIDE DEF k, rest
    <3> QED
      BY <2>2, <2>3, <3>1, <3>2, <3>3, <3>4
  <2>5. CASE m # 0
    <3>1. k \in 1..(last - 1) /\ m - 1 \in 0..(last - 1) /\ last - (m - 1) = k + 1 /\ ~(m <= m - 1)
      BY <1>1, <2>2, <2>5
    <3>2. m - 1 \notin bad
      <4> HIDE DEF bad
      <4> QED
        BY <2>1, <3>1
    <3>3. Selected(way[k + 1]) = rest(k + 1)
      BY <3>1, <3>2
    <3> HIDE DEF k, rest
    <3>4. Selected(way[k]) = <<way[k]>> \o rest(k + 1)
      BY <1>2, <3>1, <3>3, SelectedEquation
    <3> QED
      BY <2>2, <2>3, <3>4
  <2> QED
    BY <2>4, <2>5
<1>4. last - 1 \in 0..(last - 1) /\ last - (last - 1) = 1 /\ last - 1 \notin bad
  <2>1. last - 1 \notin bad
    <3> HIDE DEF bad
    <3> QED
      BY <1>3
  <2> QED
    BY <1>1, <2>1
<1>5. Selected(way[1]) = rest(1)
  BY <1>4
<1>6. rest(1) = way
  BY <1>1
<1> QED
  BY <1>1, <1>5, <1>6
-----------------------------------------------------------------------------
(* A step that leaves what the handlers have selected, and the way.        *)
SelectedKept ==
  /\ DOMAIN tree' = DOMAIN tree
  /\ \A h \in DOMAIN tree :
       /\ tree'[h].selected = tree[h].selected
       /\ tree'[h].parsed = tree[h].parsed
       /\ tree[h].selected # None =>
            tree'[h].subs[tree[h].selected] = tree[h].subs[tree[h].selected]

LEMMA SelectionIsKept == SelectionInv /\ SelectedKept => SelectionInv'
BY DEF SelectionInv, SelectedKept, NextOf

LEMMA WayIsKept ==
  ASSUME LeadsTo(Way, cur), SelectedKept, cur' = cur, Way' = Way
  PROVE  LeadsTo(Way, cur)'
BY DEF LeadsTo, SelectedKept, NextOf

LEMMA InitIsOnTheWay == Init => WInv
<1> SUFFICES ASSUME Init PROVE WInv
  OBVIOUS
<1>1. PICK kind \in Kinds : tree = <<NewHandler(kind)>>
  BY DEF Init
<1>2. DOMAIN tree = {1} /\ tree[1].selected = None
  BY <1>1 DEF NewHandler
<1>3. SelectionInv
  BY <1>2 DEF SelectionInv
<1>4. NestingInv /\ WayInv /\ OrderInv
  BY DEF Init, NestingInv, WayInv, OrderInv, Walking
<1> QED
  BY <1>3, <1>4 DEF WInv

LEMMA QuietStaysOnTheWay ==
  ASSUME IInv, WInv, ActivateReturns \/ HelpFlag \/ HelpCommand \/ UNCHANGED vars
  PROVE  WInv'
<1>1. /\ UNCHANGED <<tree, cur, frames, chain, started, todo>>
      /\ \/ pc' = pc
         \/ pc = "activate" /\ pc' = "parse"
         \/ pc' \in {"usage", "error"}
  BY DEF ActivateReturns, HelpFlag, HelpCommand, Goto, Reading, parsing, history, vars
<1>2. SelectedKept
  BY <1>1 DEF SelectedKept
<1>3. SelectionInv'
  BY <1>2, SelectionIsKept DEF WInv
<1>4. NestingInv'
  BY <1>1 DEF WInv, NestingInv
<1>5. WayInv'
  <2>1. CASE pc' \in Walking
    <3>1. pc \in Walking /\ Way' = Way /\ (pc' \in {"help", "args"} => pc \in {"help", "args"})
      BY <1>1, <2>1 DEF Way, Walking
    <3>2. LeadsTo(Way, cur)'
      BY <1>1, <1>2, <3>1, WayIsKept DEF WInv, WayInv
    <3> QED
      BY <1>1, <3>1, <3>2 DEF WInv, WayInv
  <2>2. CASE pc' \notin Walking
    BY <1>1, <2>2 DEF WInv, WayInv, Walking
  <2> QED
    BY <2>1, <2>2
<1>6. OrderInv'
  BY <1>1 DEF WInv, OrderInv
<1> QED
  BY <1>3, <1>4, <1>5, <1>6 DEF WInv

(* The way down is complete when the arguments end. *)
LEMMA EndStaysOnTheWay ==
  ASSUME IInv, WInv, EndParse
  PROVE  WInv'
<1>1. /\ pc = "args" /\ UNCHANGED <<tree, cur, frames, chain, started>>
      /\ \/ pc' \in {"panic", "usage", "error"} /\ todo' = todo
         \/ pc' = "complete" /\ todo' = Selected(Root)
  BY DEF EndParse, Outcome, history
<1>2. SelectionInv' /\ NestingInv'
  BY <1>1 DEF WInv, SelectionInv, NestingInv, NextOf
<1>3. WayInv'
  BY <1>1 DEF WInv, WayInv, Walking
<1>4. OrderInv'
  <2>1. CASE pc' \in {"panic", "usage", "error"} /\ todo' = todo
    BY <1>1, <2>1 DEF WInv, OrderInv
  <2>2. CASE pc' = "complete" /\ todo' = Selected(Root)
    <3>1. /\ LeadsTo(chain, cur) /\ started = <<>> /\ chain \in Seq(Nat)
          /\ tree[cur].selected = None /\ cur \in DOMAIN tree
      BY <1>1 DEF WInv, WayInv, Way, Walking, IInv, PlaceInv
    <3>2. Selected(Root) = chain
      BY <3>1, SelectedIsWay DEF WInv
    <3> QED
      BY <1>1, <2>2, <3>1, <3>2 DEF OrderInv
  <2> QED
    BY <1>1, <2>1, <2>2
<1> QED
  BY <1>2, <1>3, <1>4 DEF WInv

LEMMA StartStaysOnTheWay ==
  ASSUME WInv, Start
  PROVE  WInv'
<1>1. /\ pc = "complete" /\ todo # <<>> /\ UNCHANGED <<tree, cur, frames, chain>>
      /\ todo' = Front(todo) /\ started' = Append(started, Last(todo))
      /\ pc' \in {"complete", "error"}
  BY DEF Start
<1>2. SelectionInv' /\ NestingInv'
  BY <1>1 DEF WInv, SelectionInv, NestingInv, NextOf
<1>3. WayInv'
  BY <1>1 DEF WInv, WayInv, Walking
<1>4. OrderInv'
  <2>1. /\ started \in Seq(Nat) /\ todo \in Seq(Nat) /\ chain \in Seq(Nat)
        /\ Len(chain) = Len(todo) + Len(started)
        /\ \A n \in DOMAIN todo : todo[n] = chain[n]
        /\ \A n \in DOMAIN started : started[n] = chain[Len(chain) + 1 - n]
    BY <1>1 DEF WInv, WayInv, OrderInv
  <2>2. /\ Len(todo) \in Nat \ {0} /\ Len(started) \in Nat
        /\ DOMAIN todo = 1..Len(todo) /\ DOMAIN started = 1..Len(started)
    BY <1>1, <2>1
  <2>3. /\ Front(todo) \in Seq(Nat) /\ Len(Front(todo)) = Len(todo) - 1
        /\ \A n \in 1..(Len(todo) - 1) : Front(todo)[n] = todo[n]
    <3> DEFINE short == Len(todo) - 1
    <3>1. short \in Nat /\ \A n \in 1..short : todo[n] \in Nat
      <4>1. short \in Nat /\ 1..short \subseteq DOMAIN todo
        BY <2>2
      <4>2. \A n \in DOMAIN todo : todo[n] \in Nat
        BY <2>1
      <4> QED
        BY <4>1, <4>2
    <3>2. Front(todo) = SubSeq(todo, 1, short)
      BY DEF Front
    <3> HIDE DEF short
    <3>3. /\ Front(todo) \in Seq(Nat)
          /\ Len(Front(todo)) = IF 1 <= short THEN short - 1 + 1 ELSE 0
          /\ \A n \in 1..(short - 1 + 1) : Front(todo)[n] = todo[1 + n - 1]
      BY <3>1, <3>2, SubSeqProperties
    <3>4. short - 1 + 1 = short /\ \A n \in 1..short : 1 + n - 1 = n
      BY <3>1
    <3>5. (IF 1 <= short THEN short - 1 + 1 ELSE 0) = short
      BY <3>1
    <3> QED
      BY <3>3, <3>4, <3>5 DEF short
  <2>4. Last(todo) \in Nat /\ Last(todo) = todo[Len(todo)]
    BY <2>1, <2>2 DEF Last
  <2>5. /\ started' \in Seq(Nat) /\ Len(started') = Len(started) + 1
        /\ \A n \in 1..Len(started) : started'[n] = started[n]
        /\ started'[Len(started) + 1] = todo[Len(todo)]
    BY <1>1, <2>1, <2>4
  <2>6. /\ Len(chain) = Len(todo') + Len(started')
        /\ \A n \in DOMAIN todo' : todo'[n] = chain[n]
    <3>1. todo' \in Seq(Nat) /\ Len(todo') = Len(todo) - 1
      BY <1>1, <2>3
    <3>2. DOMAIN todo' = 1..(Len(todo) - 1)
      BY <3>1
    <3>3. \A n \in 1..(Len(todo) - 1) : todo'[n] = todo[n] /\ n \in DOMAIN todo
      BY <1>1, <2>2, <2>3
    <3>4. Len(chain) = Len(todo') + Len(started')
      BY <2>1, <2>2, <2>5, <3>1
    <3>5. \A n \in DOMAIN todo' : todo'[n] = chain[n]
      BY <2>1, <3>2, <3>3
    <3> QED
      BY <3>4, <3>5
  <2>7. ASSUME NEW n \in DOMAIN started'
        PROVE  started'[n] = chain[Len(chain) + 1 - n]
    <3>1. n \in 1..(Len(started) + 1)
      BY <2>5
    <3>2. CASE n \in 1..Len(started)
      BY <2>1, <2>2, <2>5, <3>2
    <3>3. CASE n = Len(started) + 1
      <4>2. Len(todo) \in DOMAIN todo
        BY <2>2
      <4>3. Len(chain) = Len(todo) + Len(started) /\ Len(chain) \in Nat
        BY <2>1
      <4>4. \A a, b, c \in Nat : c = a + b => c + 1 - (b + 1) = a
        OBVIOUS
      <4>1. Len(chain) + 1 - n = Len(todo) /\ Len(todo) \in DOMAIN todo
        BY <2>2, <3>3, <4>2, <4>3, <4>4
      <4> QED
        BY <2>1, <2>5, <3>3, <4>1
    <3> QED
      BY <2>2, <3>1, <3>2, <3>3
  <2> QED
    BY <1>1, <2>3, <2>5, <2>6, <2>7 DEF OrderInv
<1> QED
  BY <1>2, <1>3, <1>4 DEF WInv

LEMMA DoneStaysOnTheWay ==
  ASSUME WInv, Done
  PROVE  WInv'
<1>1. /\ pc = "complete" /\ todo = <<>> /\ pc' = "done"
      /\ UNCHANGED <<tree, cur, frames, chain, started, todo>>
  BY DEF Done, Goto, parsing, history
<1> QED
  BY <1>1 DEF WInv, SelectionInv, NestingInv, WayInv, OrderInv, NextOf, Walking
-----------------------------------------------------------------------------
LEMMA AddStaysOnTheWay ==
  ASSUME IInv, WInv, NEW h \in DOMAIN tree, NEW name \in Names, NEW kind \in Kinds,
         Add(h, name, kind)
  PROVE  WInv'
<1> DEFINE new   == Len(tree) + 1
           subs  == WithCommand(tree[h].subs, name, new)
           above == [tree EXCEPT ![h].subs = subs]
<1>1. /\ tree' = Append(above, NewHandler(kind))
      /\ pc \in {"rest", "done", "error", "complete"} \/ (pc = "activate" /\ h = cur)
      /\ UNCHANGED <<pc, cur, frames, chain, started, todo>>
  BY DEF Add, parsing
<1>2. /\ tree \in Seq(Handler) /\ DOMAIN tree = 1..Len(tree) /\ Len(tree) \in Nat
      /\ tree \in [DOMAIN tree -> Handler]
  BY DEF IInv, SubsInv
<1>3. /\ DOMAIN subs = DOMAIN tree[h].subs \cup {name} /\ subs[name] = new
      /\ \A other \in DOMAIN tree[h].subs \ {name} : subs[other] = tree[h].subs[other]
  BY DEF WithCommand
<1> HIDE DEF subs
<1>4. /\ DOMAIN above = 1..Len(tree)
      /\ \A g \in DOMAIN tree : /\ above[g].selected = tree[g].selected
                                /\ above[g].parsed = tree[g].parsed
                                /\ above[g].subs = IF g = h THEN subs ELSE tree[g].subs
  BY <1>2 DEF Handler
<1>5. Len(above) = Len(tree)
  <2>1. above \in Seq(Range(above)) /\ DOMAIN above = 1..Len(tree)
    <3>1. above = [g \in 1..Len(tree) |-> above[g]]
      BY <1>2
    <3>2. \A g \in 1..Len(tree) : above[g] \in Range(above)
      BY <1>4 DEF Range
    <3> HIDE DEF above
    <3> QED
      BY <1>2, <3>1, <3>2, IsASeq
  <2> HIDE DEF above
  <2> QED
    BY <1>2, <2>1, LenProperties
<1> HIDE DEF above
<1>6. /\ DOMAIN tree' = 1..new
      /\ \A g \in DOMAIN tree : tree'[g] = above[g]
      /\ tree'[new] = NewHandler(kind)
  BY <1>1, <1>2, <1>5
<1>7. tree'[new].selected = None
  BY <1>6 DEF NewHandler
<1>8. \A g \in DOMAIN tree' : g \in DOMAIN tree \/ g = new
  BY <1>2, <1>6
<1>9. SelectionInv'
  <2> SUFFICES ASSUME NEW g \in DOMAIN tree', tree'[g].selected # None
               PROVE  tree'[g].parsed /\ NextOf(g)' # Usage
    BY DEF SelectionInv
  <2>1. /\ g \in DOMAIN tree /\ tree[g].selected # None
        /\ tree'[g].selected = tree[g].selected /\ tree'[g].parsed = tree[g].parsed
        /\ tree'[g].subs = IF g = h THEN subs ELSE tree[g].subs
    BY <1>4, <1>6, <1>7, <1>8
  <2>2. tree[g].parsed /\ tree[g].subs[tree[g].selected] # Usage
        /\ tree[g].selected \in DOMAIN tree[g].subs
    BY <2>1 DEF WInv, SelectionInv, NextOf, IInv, SelectedInv
  <2>3. tree'[g].subs[tree[g].selected] \in {new, tree[g].subs[tree[g].selected]}
    BY <1>3, <2>1, <2>2
  <2>4. new # Usage
    BY <1>2 DEF Usage
  <2> QED
    BY <2>1, <2>2, <2>3, <2>4 DEF NextOf
<1>10. frames = <<>> /\ frames' = <<>>
  BY <1>1 DEF IInv, FramesInv
<1>11. NestingInv'
  BY <1>10 DEF NestingInv
<1>12. WayInv'
  <2>1. CASE pc = "activate" /\ h = cur
    <3>1. LeadsTo(Way, cur) /\ started = <<>>
      BY <2>1 DEF WInv, WayInv, Walking
    <3>2. Way' = Way /\ cur' = cur
      BY <1>1 DEF Way
    <3>3. \A g \in DOMAIN tree : g # cur => /\ tree'[g].selected = tree[g].selected
                                            /\ tree'[g].subs = tree[g].subs
                                            /\ g \in DOMAIN tree'
      BY <1>2, <1>4, <1>6, <2>1
    <3>4. \A k \in 1..(Len(Way) - 1) : /\ Way[k] \in DOMAIN tree /\ Way[k] < cur
                                       /\ Way[k] # cur
      <4>1. \A k \in 1..(Len(Way) - 1) : Way[k] \in DOMAIN tree /\ Way[k] < cur
        BY <3>1 DEF LeadsTo
      <4>2. cur \in Nat /\ DOMAIN tree \subseteq Nat
        BY <1>2 DEF IInv, PlaceInv
      <4> QED
        BY <4>1, <4>2
    <3>5. LeadsTo(Way, cur)'
      BY <3>1, <3>2, <3>3, <3>4 DEF LeadsTo, NextOf
    <3> QED
      BY <1>1, <2>1, <3>1, <3>5 DEF WInv, WayInv
  <2>2. CASE pc # "activate"
    BY <1>1, <2>2 DEF WInv, WayInv, Walking
  <2> QED
    BY <1>1, <2>1, <2>2
<1>13. OrderInv'
  BY <1>1 DEF WInv, OrderInv
<1> QED
  BY <1>9, <1>11, <1>12, <1>13 DEF WInv

(* Only the flag of a handler depends on its model. *)
LEMMA WithModelSelects ==
  ASSUME IInv, NEW h \in DOMAIN tree
  PROVE  /\ DOMAIN WithModel(h) = DOMAIN tree
         /\ WithModel(h) \in [DOMAIN tree -> Handler]
         /\ \A g \in DOMAIN tree : /\ WithModel(h)[g].selected = tree[g].selected
                                   /\ WithModel(h)[g].parsed = tree[g].parsed
                                   /\ WithModel(h)[g].subs = tree[g].subs
<1>1. tree \in [DOMAIN tree -> Handler]
  BY DEF IInv, SubsInv
<1>2. WithModel(h) \in [DOMAIN tree -> Handler]
  BY WithModelKeeps DEF Kept
<1>3. CASE tree[h].model \in OwnHelp
  <2>1. WithModel(h) = [tree EXCEPT ![h].flag = "own"]
    BY <1>3 DEF WithModel
  <2> QED
    BY <1>1, <1>2, <2>1 DEF Handler
<1>4. CASE tree[h].model \notin OwnHelp
  BY <1>1, <1>4 DEF WithModel
<1> QED
  BY <1>3, <1>4

LEMMA ConfigureStaysOnTheWay == IInv /\ WInv /\ Configure => WInv'
<1> SUFFICES ASSUME IInv, WInv, Configure PROVE WInv'
  OBVIOUS
<1>1. /\ pc \in Outside /\ pc' = "activate" /\ tree' = WithModel(Root)
      /\ cur' = Root /\ chain' = <<>> /\ started' = <<>> /\ UNCHANGED <<frames, todo>>
  BY DEF Configure
<1>2. Root \in DOMAIN tree
  BY DEF IInv, PlaceInv, SubsInv, Root
<1>3. SelectedKept
  BY <1>1, <1>2, WithModelSelects DEF SelectedKept
<1>4. SelectionInv'
  BY <1>3, SelectionIsKept DEF WInv
<1>5. NestingInv'
  <2>1. frames = <<>>
    BY <1>1 DEF IInv, FramesInv, Outside
  <2> QED
    BY <1>1, <2>1 DEF NestingInv
<1>6. WayInv'
  <2>1. Way' = <<Root>>
    BY <1>1 DEF Way
  <2>2. LeadsTo(Way, cur)'
    BY <1>1, <2>1 DEF LeadsTo
  <2> QED
    BY <1>1, <2>2 DEF WayInv
<1>7. OrderInv'
  BY <1>1 DEF WInv, OrderInv
<1> QED
  BY <1>4, <1>5, <1>6, <1>7 DEF WInv

(* What a former pass selected from here on is forgotten; the way to here  *)
(* is not, since its handlers are older.                                   *)
LEMMA BeginStaysOnTheWay == IInv /\ WInv /\ BeginParse => WInv'
<1> SUFFICES ASSUME IInv, WInv, BeginParse PROVE WInv'
  OBVIOUS
<1> DEFINE cleared == IF Me.parsed THEN ToSet(Selected(cur)) ELSE {}
           first == [at |-> cur, force |-> FALSE, entered |-> FALSE, subs |-> {}]
<1>1. /\ pc = "parse" /\ pc' = "help"
      /\ tree' = [h \in DOMAIN tree |->
                    [tree[h] EXCEPT !.selected = IF h \in cleared THEN None ELSE @,
                                    !.parsed = @ \/ h = cur]]
      /\ frames' = <<first>> /\ chain' = Append(chain, cur)
      /\ UNCHANGED <<cur, started, todo>>
  BY DEF BeginParse
<1>2. /\ tree \in [DOMAIN tree -> Handler] /\ cur \in DOMAIN tree
      /\ DOMAIN tree = 1..Len(tree) /\ Len(tree) \in Nat
  BY DEF IInv, SubsInv, PlaceInv
<1>3. /\ \A h \in cleared : h >= cur
      /\ cur \in cleared \/ tree[cur].selected = None
  <2>1. Selected(cur) \in Seq(cur..Len(tree)) /\ cur \in ToSet(Selected(cur))
    BY <1>2, SelectedRange DEF WInv
  <2>2. ToSet(Selected(cur)) \subseteq cur..Len(tree)
    <3> DEFINE down  == Selected(cur)
               newer == cur..Len(tree)
    <3>1. down \in Seq(newer)
      BY <2>1
    <3> HIDE DEF down, newer
    <3>2. \A n \in DOMAIN down : down[n] \in newer
      BY <3>1
    <3>3. ToSet(down) \subseteq newer
      BY <3>2 DEF ToSet
    <3> QED
      BY <3>3 DEF down, newer
  <2>3. ~Me.parsed => tree[cur].selected = None
    BY <1>2 DEF WInv, SelectionInv, Me
  <2> QED
    BY <1>2, <2>1, <2>2, <2>3
<1> HIDE DEF cleared
<1>4. \A h \in DOMAIN tree : /\ tree'[h].subs = tree[h].subs
                             /\ tree'[h].selected = IF h \in cleared THEN None ELSE tree[h].selected
                             /\ tree'[h].parsed = (tree[h].parsed \/ h = cur)
  <2> TAKE h \in DOMAIN tree
  <2> DEFINE chosen == IF h \in cleared THEN None ELSE tree[h].selected
             parsed == tree[h].parsed \/ h = cur
  <2>1. tree'[h] = [tree[h] EXCEPT !.selected = chosen, !.parsed = parsed]
    BY <1>1
  <2> HIDE DEF chosen, parsed
  <2>2. tree[h] \in Handler
    BY <1>2
  <2>3. /\ tree'[h].subs = tree[h].subs /\ tree'[h].selected = chosen /\ tree'[h].parsed = parsed
    BY <2>1, <2>2 DEF Handler
  <2> QED
    BY <2>3 DEF chosen, parsed
<1>5. DOMAIN tree' = DOMAIN tree
  BY <1>1
<1>6. SelectionInv'
  <2> SUFFICES ASSUME NEW h \in DOMAIN tree, tree'[h].selected # None
               PROVE  tree'[h].parsed /\ NextOf(h)' # Usage
    BY <1>5 DEF SelectionInv
  <2>1. tree'[h].selected = tree[h].selected
    BY <1>4
  <2> QED
    BY <1>4, <2>1 DEF WInv, SelectionInv, NextOf
<1>7. NestingInv'
  <2>2. first.entered = FALSE /\ frames' = <<first>>
    BY <1>1
  <2> HIDE DEF first
  <2>1. DOMAIN frames' = {1} /\ frames'[1].entered = FALSE
    BY <2>2
  <2> QED
    BY <2>1 DEF NestingInv
<1>8. WayInv'
  <2>1. LeadsTo(Way, cur) /\ started = <<>> /\ chain \in Seq(Nat)
    BY <1>1 DEF WInv, WayInv, Walking
  <2>6. chain' = Append(chain, cur) /\ pc = "parse" /\ pc' = "help" /\ cur' = cur
    BY <1>1
  <2>7. cur \in Nat
    BY <1>2
  <2>2. Way' = Way /\ chain' \in Seq(Nat)
    BY <2>1, <2>6, <2>7 DEF Way
  <2>3. \A k \in 1..(Len(Way) - 1) : /\ Way[k] \in DOMAIN tree /\ Way[k] < cur
                                     /\ Way[k] \notin cleared
    <3>1. \A k \in 1..(Len(Way) - 1) : Way[k] \in DOMAIN tree /\ Way[k] < cur
      BY <2>1 DEF LeadsTo
    <3>2. cur \in Nat /\ DOMAIN tree \subseteq Nat
      BY <1>2
    <3>3. \A g \in DOMAIN tree : g < cur => g \notin cleared
      <4> SUFFICES ASSUME NEW g \in DOMAIN tree, g < cur, g \in cleared PROVE FALSE
        OBVIOUS
      <4>1. g >= cur
        BY <1>3
      <4> QED
        BY <3>2, <4>1
    <3> QED
      BY <3>1, <3>3
  <2>4. LeadsTo(Way, cur)'
    BY <1>4, <1>5, <2>1, <2>2, <2>3, <2>6 DEF LeadsTo, NextOf
  <2>5. tree'[cur].selected = None /\ tree'[cur].parsed
    BY <1>2, <1>3, <1>4
  <2> QED
    BY <1>1, <2>1, <2>2, <2>4, <2>5, <2>6 DEF WayInv
<1>9. OrderInv'
  BY <1>1 DEF WInv, OrderInv
<1> QED
  BY <1>6, <1>7, <1>8, <1>9 DEF WInv
LEMMA SelectStaysOnTheWay == IInv /\ WInv /\ Select => WInv'
<1> SUFFICES ASSUME IInv, WInv, Select PROVE WInv'
  OBVIOUS
<1> DEFINE sub == Me.subs[args[i]]
<1>1. /\ pc = "args" /\ UNCHANGED <<frames, chain, started, todo>>
      /\ args[i] \in DOMAIN tree[cur].subs /\ sub # Usage
  BY DEF Select, Reading, IsCommand, Me, history
<1>2. /\ cur \in DOMAIN tree /\ tree \in [DOMAIN tree -> Handler]
      /\ DOMAIN tree = 1..Len(tree) /\ Len(tree) \in Nat
  BY DEF IInv, SubsInv, PlaceInv
<1>3. sub \in DOMAIN tree /\ cur < sub /\ sub = tree[cur].subs[args[i]]
  <2>1. sub \in {Usage} \cup (cur + 1)..Len(tree)
    BY <1>1, <1>2 DEF IInv, SubsInv, Me
  <2> QED
    BY <1>1, <1>2, <2>1 DEF Me
<1>4. frames = <<>>
  BY <1>1 DEF IInv, FramesInv
<1>5. NestingInv'
  BY <1>1, <1>4 DEF NestingInv
<1>6. CASE pc' \in {"panic", "error"} /\ UNCHANGED <<tree, cur>>
  <2>1. SelectionInv'
    BY <1>6 DEF WInv, SelectionInv, NextOf
  <2>2. WayInv' /\ OrderInv'
    BY <1>1, <1>6 DEF WInv, WayInv, OrderInv, Walking
  <2> QED
    BY <1>5, <2>1, <2>2 DEF WInv
<1>7. CASE /\ tree' = [WithModel(sub) EXCEPT ![cur].selected = args[i]]
           /\ pc' = "activate" /\ cur' = sub
  <2> DEFINE t == WithModel(sub)
  <2>1. /\ t \in [DOMAIN tree -> Handler]
        /\ \A g \in DOMAIN tree : /\ t[g].selected = tree[g].selected
                                  /\ t[g].parsed = tree[g].parsed
                                  /\ t[g].subs = tree[g].subs
    BY <1>3, WithModelSelects
  <2>2. tree' = [t EXCEPT ![cur].selected = args[i]]
    BY <1>7
  <2> HIDE DEF t, sub
  <2>3. /\ DOMAIN tree' = DOMAIN tree
        /\ \A g \in DOMAIN tree :
             /\ tree'[g].selected = IF g = cur THEN args[i] ELSE tree[g].selected
             /\ tree'[g].parsed = tree[g].parsed
             /\ tree'[g].subs = tree[g].subs
    BY <2>1, <2>2 DEF Handler
  <2>4. LeadsTo(chain, cur) /\ started = <<>> /\ chain \in Seq(Nat) /\ tree[cur].parsed
    BY <1>1 DEF WInv, WayInv, Way, Walking
  <2>5. SelectionInv'
    <3> SUFFICES ASSUME NEW g \in DOMAIN tree, tree'[g].selected # None
                 PROVE  tree'[g].parsed /\ NextOf(g)' # Usage
      BY <2>3 DEF SelectionInv
    <3>1. CASE g = cur
      BY <1>1, <1>3, <2>3, <2>4, <3>1 DEF NextOf
    <3>2. CASE g # cur
      BY <2>3, <3>2 DEF WInv, SelectionInv, NextOf
    <3> QED
      BY <3>1, <3>2
  <2>6. WayInv'
    <3> DEFINE way == Append(chain, sub)
    <3>1. Way' = way
      BY <1>1, <1>7 DEF Way
    <3>2. sub \in Nat /\ cur \in Nat /\ Len(chain) \in Nat \ {0} /\ chain[Len(chain)] = cur
      BY <1>2, <1>3, <2>4 DEF LeadsTo
    <3>3. /\ Len(way) = Len(chain) + 1 /\ way[Len(chain) + 1] = sub
          /\ \A k \in 1..Len(chain) : way[k] = chain[k]
          /\ way \in Seq(Nat) /\ way # <<>>
      BY <2>4, <3>2
    <3>4. way[1] = Root
      BY <2>4, <3>2, <3>3 DEF LeadsTo
    <3> HIDE DEF way
    <3>5. ASSUME NEW k \in 1..(Len(way) - 1)
          PROVE  /\ way[k] \in DOMAIN tree /\ way[k] < sub
                 /\ tree'[way[k]].selected # None
                 /\ tree'[way[k]].subs[tree'[way[k]].selected] = way[k + 1]
      <4>1. k \in 1..Len(chain) /\ way[k] = chain[k]
        BY <3>2, <3>3
      <4>2. CASE k = Len(chain)
        <5>1. way[k] = cur /\ way[k + 1] = sub
          BY <3>2, <3>3, <4>1, <4>2
        <5>2. args[i] # None
          <6>1. args[i] \in AllNames
            <7>1. tree[cur].subs \in Commands
              BY <1>2 DEF Handler
            <7>2. PICK S \in SUBSET AllNames : tree[cur].subs \in [S -> Nat]
              BY <7>1, CommandsType
            <7> QED
              BY <1>1, <7>2
          <6> QED
            BY <6>1, InputAssumption DEF AllNames, None
        <5> QED
          BY <1>2, <1>3, <2>3, <5>1, <5>2
      <4>3. CASE k # Len(chain)
        <5>1. k \in 1..(Len(chain) - 1)
          BY <3>2, <4>1, <4>3
        <5>2. /\ chain[k] \in DOMAIN tree /\ chain[k] < cur
              /\ tree[chain[k]].selected # None /\ NextOf(chain[k]) = chain[k + 1]
          BY <2>4, <5>1 DEF LeadsTo
        <5>3. way[k] \in Nat /\ way[k] # cur /\ way[k] < sub
          BY <1>2, <1>3, <3>2, <4>1, <5>2
        <5>4. way[k + 1] = chain[k + 1]
          BY <3>2, <3>3, <5>1
        <5> QED
          BY <2>3, <4>1, <5>2, <5>3, <5>4 DEF NextOf
      <4> QED
        BY <4>2, <4>3
    <3>6. LeadsTo(Way, cur)'
      BY <1>7, <2>3, <3>1, <3>3, <3>4, <3>5 DEF LeadsTo, NextOf
    <3> QED
      BY <1>1, <1>7, <2>4, <3>6 DEF WayInv
  <2>7. OrderInv'
    BY <1>1, <1>7 DEF WInv, OrderInv
  <2> QED
    BY <1>5, <2>5, <2>6, <2>7 DEF WInv
<1> QED
  BY <1>6, <1>7 DEF Select
-----------------------------------------------------------------------------
(* The steps of addHelpFlagAndCommand. *)
LEMMA HelpStaysOnTheWay ==
  ASSUME WInv, pc = "help", pc' \in {"help", "args", "error"},
         UNCHANGED <<cur, chain, started, todo>>, SelectedKept, NestingInv',
         cur \in DOMAIN tree
  PROVE  WInv'
<1>1. SelectionInv'
  BY SelectionIsKept DEF WInv
<1>2. /\ LeadsTo(Way, cur) /\ started = <<>> /\ chain \in Seq(Nat)
      /\ tree[cur].selected = None /\ tree[cur].parsed
  BY DEF WInv, WayInv, Walking
<1>3. pc' # "error" => Way' = Way
  BY DEF Way
<1>4. pc' # "error" => LeadsTo(Way, cur)'
  BY <1>2, <1>3, WayIsKept
<1>5. WayInv'
  BY <1>2, <1>4 DEF WayInv, Walking, SelectedKept
<1>6. OrderInv'
  BY DEF WInv, OrderInv
<1> QED
  BY <1>1, <1>5, <1>6 DEF WInv

(* A call that returns leaves those above it, which are for other handlers.*)
LEMMA PopNests ==
  ASSUME IInv, NestingInv, pc = "help", Pop, DOMAIN tree' = DOMAIN tree,
         \A g \in DOMAIN tree : g # Top.at => tree'[g].subs = tree[g].subs
  PROVE  NestingInv'
<1>1. /\ frames \in Seq(Frame) /\ frames # <<>> /\ Len(frames) \in Nat \ {0}
      /\ DOMAIN frames = 1..Len(frames) /\ Top = frames[Len(frames)] /\ Top \in Frame
  BY TopFacts DEF IInv, FramesInv
<1>2. /\ DOMAIN frames' = 1..(Len(frames) - 1)
      /\ \A n \in 1..(Len(frames) - 1) : frames'[n] = frames[n]
  BY <1>1, FrontFacts DEF Pop
<1>3. \A n \in 1..(Len(frames) - 1) : /\ n \in DOMAIN frames /\ frames[n] \in Frame
                                      /\ n < Len(frames) /\ Len(frames) \in DOMAIN frames
  BY <1>1
<1>4. \A n \in 1..(Len(frames) - 1) : frames[n].at < Top.at /\ frames[n].at # Top.at
  <2> TAKE n \in 1..(Len(frames) - 1)
  <2>1. frames[n].at < Top.at
    BY <1>1, <1>3 DEF NestingInv
  <2>2. frames[n].at \in Nat /\ Top.at \in Nat
    BY <1>1, <1>3 DEF Frame
  <2> QED
    BY <2>1, <2>2
<1>5. \A n \in 1..(Len(frames) - 1) : frames[n].at \in DOMAIN tree
  BY <1>3 DEF IInv, FramesInv
<1> QED
  BY <1>2, <1>3, <1>4, <1>5 DEF NestingInv

LEMMA EnterStaysOnTheWay == IInv /\ WInv /\ EnterHelp => WInv'
<1> SUFFICES ASSUME IInv, WInv, EnterHelp PROVE WInv'
  OBVIOUS
<1> DEFINE h == Top.at
<1>1. /\ pc = "help" /\ pc' \in {"help", "args", "error"}
      /\ UNCHANGED <<cur, chain, started, todo>>
  BY DEF EnterHelp, Pop, Refuse
<1>2. /\ frames \in Seq(Frame) /\ Len(frames) \in Nat \ {0} /\ DOMAIN frames = 1..Len(frames)
      /\ Top = frames[Len(frames)] /\ Top \in Frame /\ h \in DOMAIN tree
      /\ tree \in [DOMAIN tree -> Handler] /\ cur \in DOMAIN tree
  BY <1>1, TopFacts DEF IInv, SubsInv, PlaceInv
<1>3. /\ DOMAIN tree' = DOMAIN tree
      /\ \A g \in DOMAIN tree : /\ tree'[g].selected = tree[g].selected
                                /\ tree'[g].parsed = tree[g].parsed
                                /\ tree'[g].subs = tree[g].subs
  <2>1. \/ tree' = tree
        \/ tree' = [tree EXCEPT ![h].added = TRUE]
        \/ tree' = [tree EXCEPT ![h].added = TRUE, ![h].flag = "help"]
    BY DEF EnterHelp
  <2>2. CASE tree' = tree
    BY <2>2
  <2>3. CASE tree' = [tree EXCEPT ![h].added = TRUE]
    BY <1>2, <2>3 DEF Handler
  <2>4. CASE tree' = [tree EXCEPT ![h].added = TRUE, ![h].flag = "help"]
    BY <1>2, <2>4 DEF Handler
  <2> QED
    BY <2>1, <2>2, <2>3, <2>4
<1>4. SelectedKept
  BY <1>3 DEF SelectedKept
<1>5. NestingInv'
  <2>1. CASE Pop
    BY <1>1, <1>3, <2>1, PopNests DEF WInv
  <2>2. CASE Refuse
    BY <2>2 DEF Refuse, NestingInv
  <2>3. CASE /\ "help" \notin DOMAIN tree[h].subs
             /\ frames' = [frames EXCEPT ![Len(frames)] =
                             [@ EXCEPT !.entered = TRUE, !.subs = DOMAIN tree[h].subs]]
    <3> DEFINE top == [Top EXCEPT !.entered = TRUE, !.subs = DOMAIN tree[h].subs]
    <3>1. frames' = [frames EXCEPT ![Len(frames)] = top]
      BY <1>2, <2>3
    <3>2. top.at = h
      BY <1>2 DEF Frame
    <3> HIDE DEF top
    <3>3. /\ DOMAIN frames' = DOMAIN frames
          /\ \A n \in DOMAIN frames : frames'[n] = IF n = Len(frames) THEN top ELSE frames[n]
      BY <1>2, <3>1
    <3>4. \A n \in DOMAIN frames : frames'[n].at = frames[n].at
      BY <1>2, <3>2, <3>3
    <3>5. \A n \in DOMAIN frames : frames[n].at \in DOMAIN tree
      BY DEF IInv, FramesInv
    <3>6. ASSUME NEW n \in DOMAIN frames', frames'[n].entered
          PROVE  "help" \notin DOMAIN tree'[frames'[n].at].subs
      <4>1. CASE n = Len(frames)
        BY <1>2, <1>3, <2>3, <3>2, <3>3, <4>1
      <4>2. CASE n # Len(frames)
        BY <1>3, <3>3, <3>5, <3>6, <4>2 DEF WInv, NestingInv
      <4> QED
        BY <4>1, <4>2
    <3>7. \A m, n \in DOMAIN frames' : m < n => frames'[m].at < frames'[n].at
      BY <3>3, <3>4 DEF WInv, NestingInv
    <3> QED
      BY <3>6, <3>7 DEF NestingInv
  <2> QED
    BY <2>1, <2>2, <2>3 DEF EnterHelp
<1> QED
  BY <1>1, <1>2, <1>4, <1>5, HelpStaysOnTheWay

LEMMA NextSubStaysOnTheWay == IInv /\ WInv /\ NextSub => WInv'
<1> SUFFICES ASSUME IInv, WInv, NextSub PROVE WInv'
  OBVIOUS
<1>1. /\ pc = "help" /\ pc' = "help" /\ UNCHANGED <<cur, chain, started, todo>>
  BY DEF NextSub, history
<1>2. /\ frames \in Seq(Frame) /\ Len(frames) \in Nat \ {0} /\ DOMAIN frames = 1..Len(frames)
      /\ Top = frames[Len(frames)] /\ Top \in Frame /\ Top.at \in DOMAIN tree
      /\ Top.subs \subseteq DOMAIN tree[Top.at].subs \ {"help"}
      /\ tree \in [DOMAIN tree -> Handler] /\ cur \in DOMAIN tree
      /\ DOMAIN tree = 1..Len(tree) /\ Len(tree) \in Nat
  BY <1>1, TopFacts DEF IInv, SubsInv, PlaceInv
<1>3. PICK name \in Top.subs :
        /\ tree' = [tree EXCEPT ![tree[Top.at].subs[name]].text = TRUE]
        /\ frames' = Append([frames EXCEPT ![Len(frames)].subs = @ \ {name}],
                        [at |-> tree[Top.at].subs[name], force |-> TRUE, entered |-> FALSE, subs |-> {}])
  BY DEF NextSub
<1> DEFINE sub  == tree[Top.at].subs[name]
           top  == [Top EXCEPT !.subs = @ \ {name}]
           call == [at |-> sub, force |-> TRUE, entered |-> FALSE, subs |-> {}]
           mine == [frames EXCEPT ![Len(frames)] = top]
<1>4. sub \in (Top.at + 1)..Len(tree)
  <2>1. name \in DOMAIN tree[Top.at].subs /\ name # "help"
    BY <1>2
  <2> QED
    BY <1>2, <2>1 DEF IInv, SubsInv
<1>5. /\ sub \in DOMAIN tree /\ Top.at < sub /\ Top.at \in Nat /\ sub \in Nat
  BY <1>2, <1>4
<1>6. tree' = [tree EXCEPT ![sub].text = TRUE] /\ frames' = Append(mine, call)
  BY <1>2, <1>3
<1>7. /\ top \in Frame /\ top.at = Top.at /\ top.entered = Top.entered
      /\ call \in Frame /\ call.at = sub /\ call.entered = FALSE
  BY <1>2, <1>5 DEF Frame
<1> HIDE DEF top, call, sub
<1>8. /\ mine \in Seq(Frame) /\ Len(mine) = Len(frames)
      /\ \A n \in DOMAIN frames : mine[n] = IF n = Len(frames) THEN top ELSE frames[n]
  BY <1>2, <1>7
<1> HIDE DEF mine
<1>9. /\ DOMAIN frames' = 1..(Len(frames) + 1)
      /\ frames'[Len(frames) + 1] = call
      /\ \A n \in DOMAIN frames : frames'[n] = IF n = Len(frames) THEN top ELSE frames[n]
  BY <1>2, <1>6, <1>7, <1>8
<1>10. \A n \in DOMAIN frames : frames'[n].at = frames[n].at /\ frames'[n].entered = frames[n].entered
  BY <1>2, <1>7, <1>9
<1>11. /\ DOMAIN tree' = DOMAIN tree
       /\ \A g \in DOMAIN tree : /\ tree'[g].selected = tree[g].selected
                                 /\ tree'[g].parsed = tree[g].parsed
                                 /\ tree'[g].subs = tree[g].subs
  BY <1>2, <1>5, <1>6 DEF Handler
<1>12. SelectedKept
  BY <1>11 DEF SelectedKept
<1>13. \A n \in DOMAIN frames : frames[n].at \in DOMAIN tree /\ frames[n].at <= Top.at
  <2> TAKE n \in DOMAIN frames
  <2>1. frames[n].at \in DOMAIN tree
    BY DEF IInv, FramesInv
  <2>2. CASE n = Len(frames)
    BY <1>2, <1>5, <2>2
  <2>3. CASE n # Len(frames)
    <3>1. n < Len(frames) /\ Len(frames) \in DOMAIN frames
      BY <1>2, <2>3
    <3>2. frames[n].at < Top.at
      BY <1>2, <3>1 DEF WInv, NestingInv
    <3> QED
      BY <1>2, <1>5, <2>1, <3>2
  <2> QED
    BY <2>1, <2>2, <2>3
<1>14. NestingInv'
  <2>1. ASSUME NEW n \in DOMAIN frames', frames'[n].entered
        PROVE  "help" \notin DOMAIN tree'[frames'[n].at].subs
    <3>1. n \in DOMAIN frames
      BY <1>2, <1>7, <1>9, <2>1
    <3> QED
      BY <1>10, <1>11, <1>13, <2>1, <3>1 DEF WInv, NestingInv
  <2>2. ASSUME NEW m \in DOMAIN frames', NEW n \in DOMAIN frames', m < n
        PROVE  frames'[m].at < frames'[n].at
    <3>1. m \in DOMAIN frames
      BY <1>2, <1>9, <2>2
    <3>2. CASE n \in DOMAIN frames
      BY <1>10, <2>2, <3>1, <3>2 DEF WInv, NestingInv
    <3>3. CASE n = Len(frames) + 1
      <4>1. frames'[m].at = frames[m].at /\ frames[m].at \in Nat /\ frames[m].at <= Top.at
        BY <1>2, <1>10, <1>13, <3>1
      <4> QED
        BY <1>5, <1>7, <1>9, <3>3, <4>1
    <3> QED
      BY <1>2, <1>9, <3>2, <3>3
  <2> QED
    BY <2>1, <2>2 DEF NestingInv
<1> QED
  BY <1>1, <1>2, <1>12, <1>14, HelpStaysOnTheWay

(* The command "help" replaces none, so that none that is selected goes.   *)
LEMMA LeaveStaysOnTheWay == IInv /\ WInv /\ LeaveHelp => WInv'
<1> SUFFICES ASSUME IInv, WInv, LeaveHelp PROVE WInv'
  OBVIOUS
<1> DEFINE h    == Top.at
           subs == WithCommand(tree[h].subs, "help", Usage)
<1>1. /\ pc = "help" /\ Top.entered /\ Pop /\ UNCHANGED <<cur, chain, started, todo>>
      /\ tree' = tree \/ tree' = [tree EXCEPT ![h].subs = subs]
  BY DEF LeaveHelp, Pop
<1>2. /\ frames \in Seq(Frame) /\ Len(frames) \in Nat \ {0} /\ DOMAIN frames = 1..Len(frames)
      /\ Top = frames[Len(frames)] /\ Top \in Frame /\ h \in DOMAIN tree
      /\ tree \in [DOMAIN tree -> Handler] /\ cur \in DOMAIN tree
  BY <1>1, TopFacts DEF IInv, SubsInv, PlaceInv
<1>3. "help" \notin DOMAIN tree[h].subs
  BY <1>1, <1>2 DEF WInv, NestingInv
<1>4. \A n \in DOMAIN tree[h].subs : subs[n] = tree[h].subs[n]
  BY <1>3 DEF WithCommand
<1> HIDE DEF subs
<1>5. /\ DOMAIN tree' = DOMAIN tree
      /\ \A g \in DOMAIN tree : /\ tree'[g].selected = tree[g].selected
                                /\ tree'[g].parsed = tree[g].parsed
                                /\ g # h => tree'[g].subs = tree[g].subs
                                /\ tree'[g].subs \in {tree[g].subs, subs}
  <2>1. CASE tree' = tree
    BY <2>1
  <2>2. CASE tree' = [tree EXCEPT ![h].subs = subs]
    BY <1>2, <2>2 DEF Handler
  <2> QED
    BY <1>1, <2>1, <2>2
<1>6. SelectedKept
  <2>1. \A g \in DOMAIN tree : tree[g].selected # None => tree[g].selected \in DOMAIN tree[g].subs
    BY DEF IInv, SelectedInv
  <2> QED
    BY <1>4, <1>5, <2>1 DEF SelectedKept
<1>7. NestingInv'
  BY <1>1, <1>5, PopNests DEF WInv
<1>8. pc' \in {"help", "args", "error"}
  BY <1>1 DEF Pop
<1> QED
  BY <1>1, <1>2, <1>6, <1>7, <1>8, HelpStaysOnTheWay
-----------------------------------------------------------------------------
LEMMA StepStaysOnTheWay == IInv /\ WInv /\ [Next]_vars => WInv'
<1> SUFFICES ASSUME IInv, WInv, [Next]_vars PROVE WInv'
  OBVIOUS
<1>1. CASE \E h \in DOMAIN tree, name \in Names, kind \in Kinds : Add(h, name, kind)
  BY <1>1, AddStaysOnTheWay
<1>2. CASE Configure
  BY <1>2, ConfigureStaysOnTheWay
<1>3. CASE BeginParse
  BY <1>3, BeginStaysOnTheWay
<1>4. CASE EnterHelp
  BY <1>4, EnterStaysOnTheWay
<1>5. CASE NextSub
  BY <1>5, NextSubStaysOnTheWay
<1>6. CASE LeaveHelp
  BY <1>6, LeaveStaysOnTheWay
<1>7. CASE Select
  BY <1>7, SelectStaysOnTheWay
<1>8. CASE EndParse
  BY <1>8, EndStaysOnTheWay
<1>9. CASE Start
  BY <1>9, StartStaysOnTheWay
<1>10. CASE Done
  BY <1>10, DoneStaysOnTheWay
<1>11. CASE ActivateReturns \/ HelpFlag \/ HelpCommand \/ UNCHANGED vars
  BY <1>11, QuietStaysOnTheWay
<1> QED
  BY <1>1, <1>2, <1>3, <1>4, <1>5, <1>6, <1>7, <1>8, <1>9, <1>10, <1>11 DEF Next

(* The inductive invariant, with the way of the selected handlers. *)
THEOREM InductiveOnTheWay == Spec => [](IInv /\ WInv)
<1>1. Init => IInv /\ WInv
  BY InitIsGood, InitIsOnTheWay
<1>2. (IInv /\ WInv) /\ [Next]_vars => (IInv /\ WInv)'
  BY StepIsGood, StepStaysOnTheWay
<1> QED
  BY <1>1, <1>2, PTL DEF Spec

(* OnStart is called for the handlers of this pass, the innermost first,   *)
(* whatever commands other passes selected, callbacks replaced, or a pass  *)
(* that failed halfway left.                                               *)
THEOREM StartsInOrder == Spec => []StartsWhatWasSelected
<1>1. IInv /\ WInv => StartsWhatWasSelected
  <2> SUFFICES ASSUME WInv PROVE StartsWhatWasSelected
    OBVIOUS
  <2> DEFINE total == Len(chain)
             made  == Len(started)
             left  == Len(todo)
  <2>1. chain \in Seq(Nat) /\ started \in Seq(Nat) /\ todo \in Seq(Nat)
    BY DEF WInv, WayInv, OrderInv
  <2>2. total \in Nat /\ made \in Nat /\ left \in Nat
    BY <2>1
  <2>3. /\ Reverse(chain) \in Seq(Nat) /\ Len(Reverse(chain)) = total
        /\ \A n \in 1..total : Reverse(chain)[n] = chain[(total - n) + 1]
    BY <2>1, <2>2 DEF Reverse
  <2>4. /\ Reverse(todo) \in Seq(Nat) /\ Len(Reverse(todo)) = left
        /\ \A n \in 1..left : Reverse(todo)[n] = todo[(left - n) + 1]
    BY <2>1, <2>2 DEF Reverse
  <2>5. ASSUME pc = "complete"
        PROVE  Reverse(todo) = SubSeq(Reverse(chain), made + 1, total)
    <3>1. total = left + made /\ \A n \in DOMAIN todo : todo[n] = chain[n]
      BY <2>5 DEF WInv, OrderInv
    <3> DEFINE backwards == Reverse(chain)
               rest      == SubSeq(backwards, made + 1, total)
    <3> HIDE DEF backwards
    <3>2. /\ rest \in Seq(Nat) /\ Len(rest) = left
          /\ \A n \in 1..left : rest[n] = backwards[made + n]
      <4>1. \A n \in (made + 1)..total : backwards[n] \in Nat
        <5>1. backwards \in Seq(Nat) /\ Len(backwards) = total
          BY <2>3 DEF backwards
        <5> QED
          BY <2>2, <5>1
      <4>2. made + 1 \in Int /\ total \in Int
        BY <2>2
      <4> HIDE DEF total, made, left
      <4>3. /\ rest \in Seq(Nat)
            /\ Len(rest) = IF made + 1 <= total THEN total - (made + 1) + 1 ELSE 0
            /\ \A n \in 1..(total - (made + 1) + 1) : rest[n] = backwards[(made + 1) + n - 1]
        BY <4>1, <4>2, SubSeqProperties
      <4>4. total - (made + 1) + 1 = left
        BY <2>2, <3>1
      <4>5. \A n \in 1..left : (made + 1) + n - 1 = made + n
        BY <2>2
      <4>6. (IF made + 1 <= total THEN left ELSE 0) = left
        BY <2>2, <3>1
      <4> QED
        BY <4>3, <4>4, <4>5, <4>6
    <3> HIDE DEF rest
    <3>3. \A n \in 1..left : Reverse(todo)[n] = rest[n]
      <4> TAKE n \in 1..left
      <4>1. /\ (left - n) + 1 \in 1..left /\ made + n \in 1..total
            /\ (total - (made + n)) + 1 = (left - n) + 1
        <5>1. left \in Nat /\ made \in Nat /\ total \in Nat /\ total = left + made
          BY <2>2, <3>1
        <5> HIDE DEF left, made, total
        <5> QED
          BY <5>1
      <4>4. (left - n) + 1 \in DOMAIN todo
        BY <2>1, <4>1
      <4>2. todo[(left - n) + 1] = chain[(left - n) + 1]
        BY <3>1, <4>4
      <4>5. \A j \in 1..total : backwards[j] = chain[(total - j) + 1]
        BY <2>3 DEF backwards
      <4>3. backwards[made + n] = chain[(left - n) + 1]
        <5>1. backwards[made + n] = chain[(total - (made + n)) + 1]
          BY <4>1, <4>5
        <5> QED
          BY <4>1, <5>1
      <4> QED
        BY <2>4, <3>2, <4>2, <4>3
    <3>4. Reverse(todo) = rest
      <4> DEFINE a == Reverse(todo)
      <4>1. a \in Seq(Nat) /\ Len(a) = Len(rest) /\ \A n \in 1..Len(a) : a[n] = rest[n]
        BY <2>4, <3>2, <3>3
      <4> HIDE DEF a
      <4>2. a = rest
        BY <3>2, <4>1, SeqEqual
      <4> QED
        BY <4>2 DEF a
    <3> QED
      BY <3>4 DEF rest, backwards
  <2>6. ASSUME pc = "done"
        PROVE  started = Reverse(chain)
    <3>1. /\ total = left + made /\ left = 0
          /\ \A n \in DOMAIN started : started[n] = chain[Len(chain) + 1 - n]
      BY <2>6 DEF WInv, OrderInv
    <3>2. total = made
      BY <2>2, <3>1
    <3>3. \A n \in 1..made : /\ n \in DOMAIN started
                             /\ total + 1 - n = (total - n) + 1
      BY <2>1, <2>2
    <3> DEFINE b == Reverse(chain)
    <3>6. /\ b \in Seq(Nat) /\ Len(b) = total
          /\ \A n \in 1..total : b[n] = chain[(total - n) + 1]
      BY <2>3
    <3> HIDE DEF b
    <3>7. \A n \in 1..made : started[n] = b[n]
      <4> TAKE n \in 1..made
      <4>1. started[n] = chain[total + 1 - n]
        BY <3>1, <3>3
      <4>2. b[n] = chain[(total - n) + 1]
        BY <3>2, <3>6
      <4>3. total + 1 - n = (total - n) + 1
        BY <3>3
      <4> QED
        BY <4>1, <4>2, <4>3
    <3>4. b \in Seq(Nat) /\ Len(started) = Len(b) /\ \A n \in 1..Len(started) : started[n] = b[n]
      BY <3>2, <3>6, <3>7
    <3>5. started = b
      BY <2>1, <3>4, SeqEqual
    <3> QED
      BY <3>5 DEF b
  <2> QED
    BY <2>5, <2>6 DEF StartsWhatWasSelected
<1> QED
  BY <1>1, InductiveOnTheWay, PTL
=============================================================================
